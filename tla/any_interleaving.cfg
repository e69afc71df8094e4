\* Stale cache, slow StatefulSet controller, edits at any time, crashes.
SPECIFICATION Spec
CONSTANTS
    N = 1
    Specs <- Specs2
    InitSpec <- Plain80
    BadVersions <- None
    Interval = 1
    Budget = 0
    MaxGen = 2
    MaxRetry = 1
    Webhook = FALSE
    Edits = "Any"
    MaxFlakes = 1
    FreshCache = FALSE
    PromptSts = FALSE
    MaxFaults = 1
    BackupsMayFail = TRUE
    AnonymousAdmin = TRUE
INVARIANT TypeOK
INVARIANT BootstrapFlagsTruthful
INVARIANT UpgradeRecordComplete
