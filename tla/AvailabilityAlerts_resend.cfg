\* StatsD values are sent again while none arrives.
SPECIFICATION FairSpec
CONSTANTS
    Keys = {k1}
    Resent = {k1}
    Window <- Windows
    StopAfter <- Limits
    Day = 2
    Edits <- NoEdits
    EarlyCleanup = FALSE
    MaxTime = 4
    MaxEdits = 0
    MaxCrashes = 0
PROPERTIES VerdictSettles
