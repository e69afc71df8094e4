SPECIFICATION FairSpec
CONSTANTS
    MaxShards = 3
    Specs <- ShrinkSpecs
    InitSpec <- ThreeShards
    Keys = {"a", "b"}
    BadVersions = {}
    AnonymousAdmin = FALSE
    SettledEdits = TRUE
    Interval = 1
    Budget = 1
    MaxGen = 2
    MaxFaults = 0
    MaxTouches = 0
    MaxFlakes = 0
PROPERTY RemovedShardIsHandled
