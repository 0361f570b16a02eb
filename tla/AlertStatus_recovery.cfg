SPECIFICATION FairSpec
CONSTANTS
    Configs <- BothTypes
    Sessions = {}
    Ops <- NoOps
    SlowStartup = FALSE
    AllowResend = TRUE
    AlertOnPositive = TRUE
    ResendEvery = 1
    RecoveryTimeout = 2
    Epoch = 2
    MaxTime = 5
    MaxId = 1
    MaxCrashes = 1
INVARIANTS TypeOK StatusCoherent
PROPERTIES RefinesIncident RecoveryHeld AnnouncedBeforeOpen RecoveryEnds StatusFollowsCriteria
