------------------------------ MODULE ShardSet ------------------------------
(***************************************************************************)
(* What a sharded cluster promises its users while shards come and go: the *)
(* abstract specification that MongoDBShardedReconciler implements.        *)
(*                                                                         *)
(* A shard is a member of the cluster's shard list, some members hold user *)
(* data, and a shard has a volume once its replica set was initiated.      *)
(* Members join, and leave one at a time; only an empty member may leave,   *)
(* and only the volume of a shard that left may be thrown away.            *)
(***************************************************************************)
CONSTANT Shards

VARIABLES members, holders, volumes

vars == <<members, holders, volumes>>

\* User data lives on members of the cluster only, and on volumes that exist.
NothingLost == holders \subseteq members /\ members \subseteq volumes

Init == members = {} /\ holders = {} /\ volumes = {}

\* One loop of the reconciler may initiate, or add, several shards.
Provision(S) ==
    /\ volumes' = volumes \cup S
    /\ UNCHANGED <<members, holders>>

Join(S) ==
    /\ S \subseteq volumes \ members
    /\ members' = members \cup S
    /\ UNCHANGED <<holders, volumes>>

Write(s) ==
    /\ s \in members
    /\ holders' = holders \cup {s}
    /\ UNCHANGED <<members, volumes>>

Move(s, t) ==
    /\ s \in holders /\ t \in members
    /\ holders' = (holders \ {s}) \cup {t}
    /\ UNCHANGED <<members, volumes>>

Leave(s) ==
    /\ s \in members \ holders
    /\ members' = members \ {s}
    /\ UNCHANGED <<holders, volumes>>

Discard(s) ==
    /\ s \in volumes \ members
    /\ volumes' = volumes \ {s}
    /\ UNCHANGED <<members, holders>>

Next ==
    \/ \E s \in Shards : Write(s) \/ Leave(s) \/ Discard(s)
    \/ \E S \in SUBSET Shards : Provision(S) \/ Join(S)
    \/ \E s, t \in Shards : Move(s, t)

Spec == Init /\ [][Next]_vars
=============================================================================
