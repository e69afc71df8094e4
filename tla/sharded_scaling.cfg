SPECIFICATION FairSpec
CONSTANTS
    MaxShards = 2
    Specs <- ScalingSpecs
    InitSpec <- TwoShards
    Keys = {"a", "b"}
    BadVersions = {}
    AnonymousAdmin = FALSE
    SettledEdits = FALSE
    Interval = 1
    Budget = 1
    MaxGen = 3
    MaxFaults = 1
    MaxTouches = 1
    MaxFlakes = 0
INVARIANT StatusTruthful
PROPERTY ImplementsShardSet
PROPERTY ScalingSettles
