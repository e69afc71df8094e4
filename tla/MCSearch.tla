------------------------------ MODULE MCSearch ------------------------------
(* Instance of SearchControllers for TLC: mongos and one shard, one mongod pod. *)
EXTENDS SearchControllers

CONSTANT q1

TwoStores == <<"mongos", "s0">>
OnePod == {q1}
=============================================================================
