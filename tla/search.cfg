\* A sharded source of one shard; two edits and one fault.
SPECIFICATION FairSpec
CONSTANTS
    q1 = q1
    Stores <- TwoStores
    Pods <- OnePod
    MaxEdits = 2
    MaxFaults = 1
INVARIANT AnnotatedPodsCanStart
INVARIANT DeletionIsClean
PROPERTY SearchSettles
PROPERTY DeletionsEnd
CHECK_DEADLOCK FALSE
