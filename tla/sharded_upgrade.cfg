SPECIFICATION FairSpec
CONSTANTS
    MaxShards = 1
    Specs <- UpgradeSpecs
    InitSpec <- Deployed
    Keys = {"a", "b"}
    BadVersions = {831}
    AnonymousAdmin = TRUE
    SettledEdits = FALSE
    Interval = 1
    Budget = 1
    MaxGen = 3
    MaxFaults = 1
    MaxTouches = 0
    MaxFlakes = 0
INVARIANT FCVNeverStrands
PROPERTY StagedRollout
PROPERTY AttemptedOnce
PROPERTY UpgradeConverges
