----------------------------- MODULE MCSharded -----------------------------
(***************************************************************************)
(* Instances of MongoDBShardedReconciler.                                  *)
(***************************************************************************)
EXTENDS MongoDBShardedReconciler

Cluster(n, v, k) ==
    [count |-> n, version |-> v, backup |-> FALSE, rollback |-> TRUE, hpa |-> TRUE, key |-> k]

\* One version; one or two shards, with or without a sharded collection.
TwoShards == Cluster(2, 821, NoKey)

ScalingSpecs == {TwoShards, Cluster(1, 821, NoKey), Cluster(2, 821, "a")}

\* One shard; 8.2, 8.3 with a broken patch, and the major release after it.
Upgradable(v, b) == [Cluster(1, v, NoKey) EXCEPT !.backup = b]

Deployed == Upgradable(821, FALSE)

UpgradeSpecs == {Deployed, Upgradable(830, TRUE), Upgradable(831, FALSE), Upgradable(900, FALSE)}

\* One or three shards: two surplus shards at a time.
ThreeShards == Cluster(3, 821, NoKey)

ShrinkSpecs == {ThreeShards, Cluster(1, 821, NoKey)}
=============================================================================
