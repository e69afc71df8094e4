\* The webhook is deployed; edits at any time, also within a reconcile.
SPECIFICATION Spec
CONSTANTS
    N = 1
    Specs <- SpecsUp
    InitSpec <- Roll82
    BadVersions <- None
    Interval = 1
    Budget = 1
    MaxGen = 3
    MaxRetry = 2
    Webhook = TRUE
    Edits = "Any"
    MaxFlakes = 1
    FreshCache = TRUE
    PromptSts = TRUE
    MaxFaults = 1
    BackupsMayFail = FALSE
    AnonymousAdmin = FALSE
INVARIANT FCVRecordTruthful
PROPERTY FCVNeverLowered
PROPERTY DowngradeOnlyByRollback
