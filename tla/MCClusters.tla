----------------------------- MODULE MCClusters -----------------------------
(* The instance of Clusters for TLC. *)
EXTENDS Clusters

Set3 == [sizes |-> {1, 3}, limit |-> 4, edits |-> 1, evictions |-> 2, faults |-> 1]

Sharded2 ==
    [sizes |-> [cfg |-> {1}, shard |-> {1}, mongos |-> {1}],
     limit |-> [cfg |-> 2, shard |-> 2, mongos |-> 2], edits |-> 1, scalings |-> 1, faults |-> 1]

Field(f, o) == [field |-> f, order |-> o]
Plain == [ns |-> "a", shardKey |-> <<Field("x", "1"), Field("y", "hashed")>>, timeseries |-> FALSE]
Series == [ns |-> "t", shardKey |-> <<Field("m", "hashed")>>, timeseries |-> TRUE]
Collections2 ==
    [declared |-> <<Plain, Series>>, other |-> <<Field("y", "hashed"), Field("x", "1")>>,
     edits |-> 3, faults |-> 1]

Builders4 ==
    [roles |-> {"rs", "cfg", "shard", "mongos"}, options |-> 3, toggled |-> {"mongot", "exporter"},
     edits |-> 1, restarts |-> 1]
=============================================================================
