\* Two members, edits one after another, crashes of operator and pods.
SPECIFICATION Spec
CONSTANTS
    N = 2
    Specs <- SpecsImage
    InitSpec <- Plain80
    BadVersions <- None
    Interval = 1
    Budget = 1
    MaxGen = 3
    MaxRetry = 2
    Webhook = FALSE
    Edits = "Settled"
    MaxFlakes = 1
    FreshCache = TRUE
    PromptSts = TRUE
    MaxFaults = 2
    BackupsMayFail = FALSE
    AnonymousAdmin = FALSE
INVARIANT AttemptedExactlyOnce
PROPERTY CompletedMeansRolledOut
PROPERTY BackupBeforeRollout
