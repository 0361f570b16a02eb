SPECIFICATION Spec
CONSTANTS
    Configs <- DangerChanges
    Sessions = {s1}
    Ops <- TemplateOps
    SlowStartup = FALSE
    AllowResend = TRUE
    AlertOnPositive = TRUE
    ResendEvery = 1
    RecoveryTimeout = 1
    Epoch = 2
    MaxTime = 3
    MaxId = 1
    MaxCrashes = 0
PROPERTIES UnchangedCriteriaKeepStatus NotificationMatchesRow
