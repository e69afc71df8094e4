\* One replica set's scaling, one sharded cluster's status, its collections, one workload's pods.
SPECIFICATION FairSpec
CONSTANTS
    ReplicaSet <- Set3
    Sharded <- Sharded2
    Collections <- Collections2
    Builders <- Builders4
INVARIANT MembersKeepTheirPods
INVARIANT DrainsOneAtATime
INVARIANT ConditionsAgree
INVARIANT TemplatesServe
PROPERTY WorkloadsSettle
PROPERTY CollectionsSettle
CHECK_DEADLOCK FALSE
