SPECIFICATION Spec
CONSTANTS
    Configs <- BothLevels
    Sessions = {}
    Ops <- NoOps
    SlowStartup = TRUE
    AllowResend = TRUE
    AlertOnPositive = TRUE
    ResendEvery = 1
    RecoveryTimeout = 2
    Epoch = 2
    MaxTime = 5
    MaxId = 1
    MaxCrashes = 1
PROPERTIES RecoveryHeld
