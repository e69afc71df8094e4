\* Edits one after another, one to a version that cannot run; the operator may crash twice.
SPECIFICATION FairSpec
CONSTANTS
    N = 2
    Specs <- SpecsLive
    InitSpec <- Plain80
    BadVersions <- Bad82
    Interval = 1
    Budget = 1
    MaxGen = 3
    MaxRetry = 2
    Webhook = FALSE
    Edits = "Settled"
    MaxFlakes = 0
    FreshCache = TRUE
    PromptSts = TRUE
    MaxFaults = 2
    BackupsMayFail = FALSE
    AnonymousAdmin = FALSE
PROPERTY UpgradeSettles
PROPERTY EventuallyRunning
PROPERTY EditIsHandled
PROPERTY RollbackRestores
