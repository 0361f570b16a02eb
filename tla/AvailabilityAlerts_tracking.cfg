\* One alert, one key, restarts; windows of one and two units, a day of two.
SPECIFICATION FairSpec
CONSTANTS
    Keys = {k1}
    Resent <- NoKeys
    Window <- Windows
    StopAfter <- Limits
    Day = 2
    Edits <- Toggles
    EarlyCleanup = FALSE
    MaxTime = 6
    MaxEdits = 2
    MaxCrashes = 2
INVARIANTS TypeOK AbsenceRemembered
PROPERTIES VerdictSettles KeysReleased
