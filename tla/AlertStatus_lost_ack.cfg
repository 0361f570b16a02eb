SPECIFICATION Spec
CONSTANTS
    Configs <- BothLevels
    Sessions = {s1, s2}
    Ops <- AckOps
    SlowStartup = FALSE
    AllowResend = TRUE
    AlertOnPositive = TRUE
    ResendEvery = 1
    RecoveryTimeout = 1
    Epoch = 2
    MaxTime = 3
    MaxId = 1
    MaxCrashes = 0
PROPERTIES AcknowledgementSticks
