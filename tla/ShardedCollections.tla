------------------------- MODULE ShardedCollections -------------------------
(***************************************************************************)
(* Step 11.7 of the sharded reconcile in detail: the declared collections  *)
(* are sharded one by one through mongos, while applications create, drop  *)
(* and shard collections of their own.  MongoDBShardedReconciler has the   *)
(* same step for one collection, as a single action.                       *)
(*                                                                         *)
(* A server keeps two things apart: the collection itself, and its entry   *)
(* in config.collections, which for a time series is under the buckets     *)
(* namespace.  Depending on the server's version at the time the entry     *)
(* carries the marker dropped, false at first, and stays with it true      *)
(* after a drop, or it has no marker and goes with the collection.         *)
(***************************************************************************)
EXTENDS Integers, Sequences

CONSTANTS
    Declared,    \* spec.shardedCollections: a sequence of [ns, shardKey, timeseries]
    OtherKey,    \* a key an application may choose by itself
    MaxEdits,    \* bound: what applications and users do
    MaxFaults    \* bound: crashes, failed calls and conflicting status writes

Items == 1 .. Len(Declared)

Namespaces == {Declared[i].ns : i \in Items}

VARIABLES
    spec,      \* the number of collections declared at present: a prefix of Declared
    mongos,    \* mongos is ready, and every shard has been added
    coll,      \* the collections: what exists and what config.collections records
    status,    \* the persisted condition ShardKeyDrift and status.shardedCollections
    run,       \* the reconcile
    hist       \* bounded counters

vars == <<spec, mongos, coll, status, run, hist>>

\* buildShardKey: the fields in their order, with the direction the server stores.
buildShardKey(fields) ==
    [i \in DOMAIN fields |->
        [field |-> fields[i].field,
         value |-> CASE fields[i].order = "hashed" -> "hashed"
                     [] fields[i].order = "-1" -> "descending"
                     [] OTHER -> "ascending"]]

shardKeyEqual(a, b) ==
    /\ Len(a) = Len(b)
    /\ \A i \in DOMAIN a : a[i].field = b[i].field /\ a[i].value = b[i].value

\* The server registers a time series under its own buckets key.
BucketsKey(key) == [i \in DOMAIN key |-> [key[i] EXCEPT !.value = "ascending"]]

\* exists: "no", "plain" or "timeseries"; entry: "none", "user", "buckets" or "dropped";
\* marked: the entry has the field dropped.
NoCollection ==
    [exists |-> "no", entry |-> "none", marked |-> FALSE, key |-> <<>>, refused |-> FALSE]

Idle == [pc |-> "Idle", item |-> 0, last |-> 0, drift |-> {}, requeue |-> FALSE, condition |-> FALSE,
         fresh |-> TRUE]

Init ==
    /\ spec = Len(Declared)
    /\ mongos = FALSE
    /\ coll = [ns \in Namespaces |-> NoCollection]
    /\ status = [drift |-> FALSE, listed |-> {}]
    /\ run = Idle
    /\ hist = [edits |-> 0, faults |-> 0]

-----------------------------------------------------------------------------
(* The reconcile.                                                          *)

Item == Declared[run.item]

Key == buildShardKey(Item.shardKey)

IsSharded(ns) == coll[ns].entry \in {"user", "buckets"}

\* The loop over the declared collections, as the reconcile has read them.
Proceed(r) == IF r.item < r.last THEN [r EXCEPT !.pc = "Lookup", !.item = @ + 1]
                                 ELSE [r EXCEPT !.pc = "Finish"]

Faulty == hist.faults < MaxFaults /\ hist' = [hist EXCEPT !.faults = @ + 1]

\* The guards: nothing declared ends the step, nothing to talk to requeues it.
Start ==
    /\ run.pc = "Idle"
    /\ LET begun == [Idle EXCEPT !.condition = status.drift, !.last = spec]
       IN  run' = CASE spec = 0 -> [begun EXCEPT !.pc = "Status", !.condition = FALSE]
                    [] spec > 0 /\ ~ mongos -> Idle
                    [] OTHER -> Proceed(begun)
    /\ UNCHANGED <<spec, mongos, coll, status, hist>>

\* Mutant: a time series is looked up under its own name only.
lookupShardedCollectionAny_UserOnly(ns) ==
    IF coll[ns].entry = "user" THEN "user" ELSE "none"

\* A dropped entry is no entry; one without the marker is.
lookupShardedCollectionAny(ns) == IF IsSharded(ns) THEN coll[ns].entry ELSE "none"

\* decideEnsureAction: "shard", "skip" or "drift".
decideEnsureAction(found, stored, key) ==
    CASE found = "none" -> "shard"
      [] found = "buckets" -> "skip"
      [] found = "user" /\ shardKeyEqual(stored, key) -> "skip"
      [] OTHER -> "drift"

Lookup ==
    /\ run.pc = "Lookup"
    /\ mongos
    /\ LET c == coll[Item.ns]
           action == decideEnsureAction(lookupShardedCollectionAny(Item.ns), c.key, Key)
       IN  run' = CASE action = "shard" -> [run EXCEPT !.pc = "Enable"]
                    [] action = "skip" -> Proceed(run)
                    [] OTHER -> Proceed([run EXCEPT !.drift = @ \cup {Item.ns}])
    /\ UNCHANGED <<spec, mongos, coll, status, hist>>

\* EnableSharding creates nothing but the database entry, and is repeatable.
EnableSharding ==
    /\ run.pc = "Enable"
    /\ mongos
    /\ run' = [run EXCEPT !.pc = "Shard"]
    /\ UNCHANGED <<spec, mongos, coll, status, hist>>

Kind(item) == IF item.timeseries THEN "timeseries" ELSE "plain"

Registered(c, marked) ==
    [c EXCEPT !.exists = Kind(Item), !.marked = marked,
              !.entry = IF Item.timeseries THEN "buckets" ELSE "user",
              !.key = IF Item.timeseries THEN BucketsKey(Key) ELSE Key]

\* The server's answers to shardCollection.  Depending on its version it creates a
\* collection that is missing or says so.  One that is sharded already, or whose data has
\* no fitting index, is refused.
Accepted(c) == c.entry \notin {"user", "buckets"} /\ ~ c.refused

Missing(c) == c.exists = "no"

\* ShardCollection: done; not there yet, a requeue; refused, an error that ends the pass.
ShardCollection ==
    /\ run.pc = "Shard"
    /\ mongos
    /\ LET c == coll[Item.ns]
       IN  \/ /\ Accepted(c)
              /\ \E marked \in BOOLEAN :
                    coll' = [coll EXCEPT ![Item.ns] = Registered(c, marked)]
              /\ run' = Proceed(run)
           \/ Missing(c) /\ run' = Proceed([run EXCEPT !.requeue = TRUE]) /\ UNCHANGED coll
           \/ ~ Accepted(c) /\ ~ Missing(c) /\ run' = Idle /\ UNCHANGED coll
    /\ UNCHANGED <<spec, mongos, status, hist>>

\* A connect error requeues after the rest of the items; any other error ends the pass.
CallFails ==
    /\ run.pc \in {"Lookup", "Enable", "Shard"}
    /\ run' \in {Proceed([run EXCEPT !.requeue = TRUE]), Idle}
    /\ mongos => Faulty
    /\ ~ mongos => UNCHANGED hist
    /\ UNCHANGED <<spec, mongos, coll, status>>

\* Mutant: the requeue leaves the condition in memory.
Finish_InMemory ==
    /\ run.pc = "Finish"
    /\ run' = IF run.requeue THEN Idle
              ELSE [run EXCEPT !.pc = "Status", !.condition = run.drift # {}]
    /\ UNCHANGED <<spec, mongos, coll, status, hist>>

\* applyDrift; a requeue writes a drift itself, because updateStatus is not reached.
Finish ==
    /\ run.pc = "Finish"
    /\ IF run.requeue
       THEN /\ run' = Idle
            /\ status' = [status EXCEPT !.drift = @ \/ run.drift # {}]
       ELSE /\ run' = [run EXCEPT !.pc = "Status", !.condition = run.drift # {}]
            /\ UNCHANGED status
    /\ UNCHANGED <<spec, mongos, coll, hist>>

\* Asks for {dropped: false}, which an entry without the marker does not match.
ListShardedNamespaces == {ns \in Namespaces : IsSharded(ns) /\ coll[ns].marked}

\* updateStatus: what is sharded, if mongos answers, and the whole status unless the
\* write meets a conflict, which keeps the condition as the API server has it.
updateStatus ==
    /\ run.pc = "Status"
    /\ \E answers \in {mongos, FALSE} :
         /\ status' = [drift |-> IF run.fresh THEN run.condition ELSE status.drift,
                       listed |-> IF answers THEN ListShardedNamespaces ELSE status.listed]
         /\ answers # mongos => Faulty
         /\ answers = mongos => UNCHANGED hist
    /\ run' = Idle
    /\ UNCHANGED <<spec, mongos, coll>>

-----------------------------------------------------------------------------
(* The cluster and its applications.                                       *)

Edited == hist.edits < MaxEdits /\ hist' = [hist EXCEPT !.edits = @ + 1]

MongosReady == ~ mongos /\ mongos' = TRUE /\ UNCHANGED <<spec, coll, status, run, hist>>

MongosLost == mongos /\ mongos' = FALSE /\ Faulty /\ UNCHANGED <<spec, coll, status, run>>

AppCreates(i) ==
    LET ns == Declared[i].ns
    IN  /\ coll[ns].exists = "no"
        /\ Edited
        /\ \E refused \in BOOLEAN :
             coll' = [coll EXCEPT ![ns].refused = refused,
                                  ![ns].exists = Kind(Declared[i])]
        /\ UNCHANGED <<spec, mongos, status, run>>

\* Somebody shards the collection by hand, with a key of their own.
AppShards(i) ==
    LET ns == Declared[i].ns
    IN  /\ coll[ns].exists = "plain" /\ ~ IsSharded(ns)
        /\ Edited
        /\ \E marked \in BOOLEAN :
             coll' = [coll EXCEPT ![ns].entry = "user", ![ns].marked = marked,
                                  ![ns].key = buildShardKey(OtherKey)]
        /\ UNCHANGED <<spec, mongos, status, run>>

\* The index or the empty collection the server asks for is provided.
AppIndexes(i) ==
    LET ns == Declared[i].ns
    IN  /\ coll[ns].refused
        /\ Edited
        /\ coll' = [coll EXCEPT ![ns].refused = FALSE]
        /\ UNCHANGED <<spec, mongos, status, run>>

AppDrops(i) ==
    LET ns == Declared[i].ns
    IN  /\ coll[ns].exists # "no"
        /\ Edited
        /\ coll' = [coll EXCEPT ![ns] =
                       IF coll[ns].marked
                       THEN [NoCollection EXCEPT !.entry = "dropped", !.marked = TRUE]
                       ELSE NoCollection]
        /\ UNCHANGED <<spec, mongos, status, run>>

\* Collections are declared or withdrawn; a running reconcile goes on with the list it has
\* read, and its status write meets a conflict.
EditSpec ==
    /\ Edited
    /\ spec' \in (0 .. Len(Declared)) \ {spec}
    /\ run' = [run EXCEPT !.fresh = run.pc = "Idle"]
    /\ UNCHANGED <<mongos, coll, status>>

Crash == run.pc # "Idle" /\ run' = Idle /\ Faulty /\ UNCHANGED <<spec, mongos, coll, status>>

-----------------------------------------------------------------------------
Reconcile ==
    \/ Start \/ Lookup \/ EnableSharding \/ ShardCollection \/ Finish \/ updateStatus

Applications ==
    \E i \in Items : AppCreates(i) \/ AppShards(i) \/ AppIndexes(i) \/ AppDrops(i)

Next == Reconcile \/ CallFails \/ MongosReady \/ MongosLost \/ Applications \/ EditSpec \/ Crash

Spec == Init /\ [][Next]_vars

\* The reconcile is re-run, its calls return, and mongos comes back.  No application has to
\* do anything.
FairSpec ==
    /\ Spec
    /\ WF_vars(Reconcile \/ (~ mongos /\ CallFails))
    /\ WF_vars(MongosReady)

-----------------------------------------------------------------------------
(* Properties.                                                             *)

DeclaredNow == 1 .. spec

Drifted == \E i \in DeclaredNow :
    LET c == coll[Declared[i].ns]
    IN  c.entry = "user" /\ c.key # buildShardKey(Declared[i].shardKey)

Obstructed == \E i \in DeclaredNow :
    LET c == coll[Declared[i].ns] IN c.refused /\ ~ IsSharded(Declared[i].ns)

\* DriftIsExposed: a declared collection that stays sharded with another key than the
\* declared one ends up reported in the condition ShardKeyDrift, also while another declared
\* collection does not exist and every pass ends in a requeue before updateStatus
\* (reconcileShardedCollections, "persist ShardKeyDrift condition before requeue").
DriftIsExposed == <>[](Drifted /\ ~ Obstructed) => <>[]status.drift

Acceptable == ~ Obstructed /\ \A i \in DeclaredNow : coll[Declared[i].ns].exists # "no"

Visible == {ns \in Namespaces : IsSharded(ns) /\ coll[ns].marked}

AsDeclared ==
    /\ \A i \in DeclaredNow : IsSharded(Declared[i].ns)
    /\ status.listed = Visible
    /\ status.drift <=> Drifted

\* ConvergesToDeclared: once every declared collection exists and the server accepts it, all
\* of them end up sharded, status.shardedCollections lists exactly those that are sharded and
\* carry the marker, time series under their user name, and the condition ShardKeyDrift says
\* whether a key differs (EnsureShardedCollection, observeShardedCollections, updateStatus).
ConvergesToDeclared == <>[]Acceptable => <>[]AsDeclared

\* ShardedAreListed: what ListShardedNamespaces' comment says, without the marker: what is
\* registered and not dropped is listed.
ShardedAreListed ==
    <>[]Acceptable => <>[](status.listed = {ns \in Namespaces : IsSharded(ns)})
=============================================================================
