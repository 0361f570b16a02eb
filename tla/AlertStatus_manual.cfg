SPECIFICATION Spec
CONSTANTS
    Configs <- BothLevels
    Sessions = {s1}
    Ops <- ManualOps
    SlowStartup = FALSE
    AllowResend = TRUE
    AlertOnPositive = TRUE
    ResendEvery = 1
    RecoveryTimeout = 1
    Epoch = 2
    MaxTime = 3
    MaxId = 2
    MaxCrashes = 0
INVARIANTS StatusCoherent SnapshotCurrent
PROPERTIES RefinesIncident NotificationMatchesRow
