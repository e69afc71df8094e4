------------------ MODULE MongoDBShardedReconciler_proofs ------------------
(***************************************************************************)
(* Theorems about MongoDBShardedReconciler, for any number of shards,      *)
(* edits, faults and conflicts.                                            *)
(***************************************************************************)
EXTENDS MongoDBShardedReconciler, FiniteSetTheorems, TLAPS

-----------------------------------------------------------------------------
(***************************************************************************)
(* MongoDBShardedReconciler implements ShardSet, for any number of shards, *)
(* edits, faults and conflicts.                                            *)
(*                                                                         *)
(* Whether a step of the reconcile is a step of ShardSet depends on the    *)
(* MongoDB cluster only: on no flag, count or copy of the resource.  The   *)
(* one thing to carry from step to step is that the shard about to be      *)
(* cleaned up has left the shard list, which a crash forgets together with *)
(* the step.                                                               *)
(***************************************************************************)

Shape ==
    mongo = [shard |-> mongo.shard, data |-> mongo.data, store |-> mongo.store,
             admin |-> mongo.admin, coll |-> mongo.coll, fcv |-> mongo.fcv]

ClusterOK ==
    /\ Shape
    /\ mongo.shard \in [ShardIds -> {"absent", "active", "draining"}]
    /\ mongo.data \subseteq ShardIds
    /\ mongo.store \in [ShardIds \cup {Cfg} -> {"none", "rs", "shard"}]

LeftTheList == pc = "Cleanup" /\ idx \in ShardIds => mongo.shard[idx] = "absent"

ClusterInv == ClusterOK /\ NothingLost /\ LeftTheList

Absent(i) == mongo.shard[i] = "absent"

\* NothingLost, without the set abstractions.
LEMMA NothingLostMeans ==
    NothingLost <=> /\ \A i \in mongo.data : i \in ShardIds /\ ~Absent(i)
                    /\ \A i \in ShardIds : ~Absent(i) => mongo.store[i] # "none"
BY DEF NothingLost, Abstract!NothingLost, Absent

\* A step that does not touch the shard list, the data or the volumes.
LEMMA Stutter ==
    ASSUME ClusterInv, ClusterOK', mongo'.shard = mongo.shard, mongo'.data = mongo.data,
           \A i \in ShardIds : mongo'.store[i] = mongo.store[i]
    PROVE  NothingLost' /\ UNCHANGED Abstract!vars
<1>1. UNCHANGED Abstract!vars
    BY DEF Abstract!vars
<1> QED BY <1>1 DEF ClusterInv, NothingLost, Abstract!NothingLost, Abstract!vars

LEMMA InitCluster == Init => ClusterInv /\ Abstract!Init
<1> SUFFICES ASSUME Init PROVE ClusterInv /\ Abstract!Init
    OBVIOUS
<1>1. mongo = [shard |-> [i \in ShardIds |-> "absent"], data |-> {},
               store |-> [w \in ShardIds \cup {Cfg} |-> "none"],
               admin |-> FALSE, coll |-> "missing", fcv |-> 0]
    BY DEF Init
<1>2. ClusterOK
    BY <1>1 DEF ClusterOK, Shape
<1>3. Abstract!Init
    BY <1>1 DEF Abstract!Init
<1>4. NothingLost
    BY <1>3 DEF Abstract!Init, NothingLost, Abstract!NothingLost
<1>5. LeftTheList
    BY DEF Init, LeftTheList
<1> QED BY <1>2, <1>3, <1>4, <1>5 DEF ClusterInv

\* The steps that do not talk to MongoDB, or only ask it something.
Elsewhere ==
    \/ Start \/ SetInitializing \/ Seed \/ NoUpgrade \/ NothingToDecide
    \/ StartUpgrade \/ BackingUp \/ CompleteUpgrade \/ KeepValidating
    \/ ValidationTimedOut \/ RollBack
    \/ reconcileConfigServer \/ reconcileShard \/ reconcileMongos \/ SetValidating
    \/ WriteShardsInit \/ reconcileShardedAdminUser \/ NoScaleIn \/ WriteAddShards
    \/ updateStatus \/ Faults \/ (\E w \in Workloads : Roll(w))
    \/ BackupController \/ Tick \/ Touch \/ (\E s \in Specs : EditSpec(s))
    \/ UNCHANGED vars

LEMMA ElsewhereIsQuiet ==
    ASSUME Elsewhere
    PROVE  mongo' = mongo /\ (pc' = "Cleanup" => pc = "Cleanup" /\ idx' = idx)
<1> USE DEF env, WriteAndGoto, Goto, WriteAndReturn, Return, updateStatusError
<1>1. CASE Start \/ SetInitializing \/ Seed \/ NoUpgrade \/ NothingToDecide
    BY <1>1, Zenon DEF Start, SetInitializing, Seed, NoUpgrade, NothingToDecide
<1>2. CASE StartUpgrade \/ CompleteUpgrade \/ KeepValidating
    BY <1>2, Zenon DEF StartUpgrade, CompleteUpgrade, KeepValidating
<1>3. CASE BackingUp \/ ValidationTimedOut \/ RollBack
    BY <1>3 DEF BackingUp, ValidationTimedOut, RollBack
<1>4. CASE reconcileConfigServer \/ reconcileShard \/ reconcileMongos \/ SetValidating
    BY <1>4 DEF reconcileConfigServer, reconcileShard, reconcileMongos, SetValidating
<1>5. CASE WriteShardsInit \/ reconcileShardedAdminUser \/ NoScaleIn
    BY <1>5 DEF WriteShardsInit, reconcileShardedAdminUser, NoScaleIn
<1>6. CASE WriteAddShards \/ updateStatus
    BY <1>6 DEF WriteAddShards, updateStatus
<1>7. CASE Faults
    BY <1>7 DEF Faults, CleanupFails, CallFails, Crash, PodDown
<1>8. CASE (\E w \in Workloads : Roll(w)) \/ BackupController \/ Tick
    BY <1>8, Zenon DEF Roll, BackupController, BackupEnds, Tick
<1>9. CASE Touch \/ (\E s \in Specs : EditSpec(s)) \/ UNCHANGED vars
    BY <1>9, Zenon DEF Touch, EditSpec, vars
<1> QED
    BY <1>1, <1>2, <1>3, <1>4, <1>5, <1>6, <1>7, <1>8, <1>9 DEF Elsewhere

LEMMA ElsewhereStep ==
    ASSUME ClusterInv, Elsewhere
    PROVE  ClusterInv' /\ UNCHANGED Abstract!vars
<1>1. mongo' = mongo /\ (pc' = "Cleanup" => pc = "Cleanup" /\ idx' = idx)
    BY ElsewhereIsQuiet
<1>2. ClusterOK'
    BY <1>1 DEF ClusterInv, ClusterOK, Shape
<1>3. NothingLost' /\ UNCHANGED Abstract!vars
    BY <1>1, <1>2, Stutter
<1>4. LeftTheList'
    BY <1>1 DEF ClusterInv, LeftTheList
<1> QED BY <1>2, <1>3, <1>4 DEF ClusterInv

\* The feature compatibility version and the collection are no business of ShardSet.
LEMMA VersionAndCollectionSteps ==
    ASSUME ClusterInv, CommitFCV \/ reconcileShardedCollections \/ AppCreatesCollection
    PROVE  ClusterInv' /\ UNCHANGED Abstract!vars
<1>1. ASSUME NEW x, mongo' = [mongo EXCEPT !.fcv = x] \/ mongo' = [mongo EXCEPT !.coll = x]
      PROVE  /\ ClusterOK' /\ mongo'.shard = mongo.shard /\ mongo'.data = mongo.data
             /\ mongo'.store = mongo.store
    BY <1>1 DEF ClusterInv, ClusterOK, Shape
<1>2. mongo' = mongo => ClusterOK'
    BY DEF ClusterInv, ClusterOK, Shape
<1>3. \/ mongo' = mongo
      \/ \E x : mongo' = [mongo EXCEPT !.fcv = x] \/ mongo' = [mongo EXCEPT !.coll = x]
    BY DEF CommitFCV, commitShardedFCV, reconcileShardedCollections, AppCreatesCollection
<1>4. /\ ClusterOK' /\ mongo'.shard = mongo.shard /\ mongo'.data = mongo.data
      /\ mongo'.store = mongo.store
    BY <1>1, <1>2, <1>3
<1>5. pc' = "Cleanup" => pc = "Cleanup" /\ idx' = idx
    BY DEF CommitFCV, reconcileShardedCollections, AppCreatesCollection, Goto, Return
<1>6. NothingLost' /\ UNCHANGED Abstract!vars
    BY <1>4, Stutter
<1>7. LeftTheList'
    BY <1>4, <1>5 DEF ClusterInv, LeftTheList
<1> QED BY <1>4, <1>6, <1>7 DEF ClusterInv

\* rs.initiate, by the reconcile or by the hook of a fresh mongod: new volumes in use.
LEMMA Provisioning ==
    ASSUME ClusterInv, ClusterOK', mongo'.shard = mongo.shard, mongo'.data = mongo.data,
           \A i \in ShardIds : mongo'.store[i] \in {mongo.store[i], "rs"},
           pc' = "Cleanup" => pc = "Cleanup" /\ idx' = idx
    PROVE  ClusterInv' /\ Abstract!Next
<1>1. PICK S : S = {i \in ShardIds : mongo'.store[i] # "none"}
    BY Zenon
<1>2. {i \in ShardIds : mongo'.store[i] # "none"}
        = {i \in ShardIds : mongo.store[i] # "none"} \cup S
    BY <1>1
<1>3. Abstract!Provision(S) /\ S \in SUBSET ShardIds
    BY <1>1, <1>2 DEF Abstract!Provision
<1>4. Abstract!Next
    BY <1>3, Zenon DEF Abstract!Next
<1>5. {i \in ShardIds : mongo.store[i] # "none"} \subseteq
        {i \in ShardIds : mongo'.store[i] # "none"}
    OBVIOUS
<1>6. NothingLost'
    BY <1>5 DEF ClusterInv, NothingLost, Abstract!NothingLost
<1>7. LeftTheList'
    BY DEF ClusterInv, LeftTheList
<1> QED BY <1>4, <1>6, <1>7 DEF ClusterInv

LEMMA InitiateProvisions ==
    ASSUME ClusterInv, NEW W, Initiate(W)
    PROVE  /\ ClusterOK' /\ mongo'.shard = mongo.shard /\ mongo'.data = mongo.data
           /\ \A i \in ShardIds : mongo'.store[i] \in {mongo.store[i], "rs"}
<1> DEFINE new == {w \in W : AnonymousAdmin /\ ~ Initiated(w)}
           store == [w \in DOMAIN mongo.store |-> IF w \in new THEN "rs" ELSE mongo.store[w]]
           fcv == IF Cfg \in new THEN MajorMinor(wl[Cfg].v) ELSE mongo.fcv
<1>1. mongo' = [mongo EXCEPT !.store = store, !.fcv = fcv]
    BY DEF Initiate
<1>2. /\ store \in [ShardIds \cup {Cfg} -> {"none", "rs", "shard"}]
      /\ \A i \in ShardIds : store[i] \in {mongo.store[i], "rs"}
    BY DEF ClusterInv, ClusterOK
<1> HIDE DEF new, store, fcv
<1>3. /\ mongo'.shard = mongo.shard /\ mongo'.data = mongo.data /\ mongo'.store = store
      /\ Shape'
    BY <1>1, Zenon DEF ClusterInv, ClusterOK, Shape
<1> QED BY <1>2, <1>3 DEF ClusterInv, ClusterOK

LEMMA InitiateSteps ==
    ASSUME ClusterInv, reconcileConfigServerInit \/ reconcileShardsInit
    PROVE  ClusterInv' /\ [Abstract!Next]_Abstract!vars
<1>1. pc' # "Cleanup"
    BY DEF reconcileConfigServerInit, reconcileShardsInit, Goto, updateStatusError,
           WriteAndReturn, Return
<1>2. mongo' = mongo \/ \E W : Initiate(W)
    BY DEF reconcileConfigServerInit, reconcileShardsInit
<1>3. CASE mongo' = mongo
    <2>1. ClusterOK'
        BY <1>3 DEF ClusterInv, ClusterOK, Shape
    <2>2. NothingLost' /\ UNCHANGED Abstract!vars
        BY <1>3, <2>1, Stutter
    <2> QED BY <1>1, <2>1, <2>2 DEF ClusterInv, LeftTheList
<1>4. CASE \E W : Initiate(W)
    BY <1>1, <1>4, InitiateProvisions, Provisioning
<1> QED BY <1>2, <1>3, <1>4

LEMMA PodReadyStep ==
    ASSUME ClusterInv, NEW w \in Workloads, PodReady(w)
    PROVE  ClusterInv' /\ Abstract!Next
<1> DEFINE new == w # Mongos /\ mongo.store[w] = "none"
<1>0. UNCHANGED <<pc, idx>>
    BY DEF PodReady
<1>1. CASE mongo' = mongo
    <2>1. ClusterOK'
        BY <1>1 DEF ClusterInv, ClusterOK, Shape
    <2> QED BY <1>0, <1>1, <2>1, Provisioning
<1>2. CASE mongo' # mongo
    <2> DEFINE a == mongo.admin \/ w = Cfg
               f == IF w = Cfg THEN MajorMinor(wl[w].v) ELSE mongo.fcv
               s == [mongo.store EXCEPT ![w] = "rs"]
    <2>1. mongo' = [mongo EXCEPT !.store = s, !.admin = a, !.fcv = f]
        BY <1>2 DEF PodReady
    <2>2. /\ s \in [ShardIds \cup {Cfg} -> {"none", "rs", "shard"}]
          /\ \A i \in ShardIds : s[i] \in {mongo.store[i], "rs"}
        BY Zenon DEF ClusterInv, ClusterOK
    <2> HIDE DEF a, f, s
    <2>3. /\ mongo'.shard = mongo.shard /\ mongo'.data = mongo.data /\ mongo'.store = s
          /\ Shape'
        BY <2>1, Zenon DEF ClusterInv, ClusterOK, Shape
    <2>4. ClusterOK'
        BY <2>2, <2>3 DEF ClusterInv, ClusterOK
    <2> QED BY <1>0, <2>2, <2>3, <2>4, Provisioning
<1> QED BY <1>1, <1>2

\* removeShard starts a drain, or drops a shard that is drained and empty.
LEMMA ScaleInStep ==
    ASSUME ClusterInv, reconcileScaleIn
    PROVE  ClusterInv' /\ [Abstract!Next]_Abstract!vars
<1> DEFINE shard == [mongo.shard EXCEPT ![idx] = ShardAfterRemove(idx)]
<1>1. mongo' = [mongo EXCEPT !.shard = shard]
    BY DEF reconcileScaleIn
<1>2. idx' = idx \/ pc' # "Cleanup"
    BY DEF reconcileScaleIn, Goto, Return, updateStatusError, WriteAndReturn
<1>3. pc' = "Cleanup" => RemoveShardWithStatus(idx) = "completed"
    BY DEF reconcileScaleIn, Goto, Return, updateStatusError, WriteAndReturn
<1>4. idx \in ShardIds => ShardAfterRemove(idx) \in {"absent", "active", "draining"}
    BY DEF ShardAfterRemove, ClusterInv, ClusterOK
<1>5. shard \in [ShardIds -> {"absent", "active", "draining"}]
    BY <1>4, Zenon DEF ClusterInv, ClusterOK
<1>6. RemoveShardWithStatus(idx) = "completed" => ShardAfterRemove(idx) = "absent"
    BY DEF ShardAfterRemove
<1>7. idx \in ShardIds /\ RemoveShardWithStatus(idx) = "completed" =>
        ~Absent(idx) /\ idx \notin mongo.data
    BY DEF RemoveShardWithStatus, Absent, ClusterInv, ClusterOK
<1>8. idx \in ShardIds /\ RemoveShardWithStatus(idx) # "completed" =>
        (ShardAfterRemove(idx) = "absent" <=> Absent(idx))
    BY DEF RemoveShardWithStatus, ShardAfterRemove, Absent, ClusterInv, ClusterOK
<1>9. \A i \in ShardIds : i # idx => shard[i] = mongo.shard[i]
    BY DEF ClusterInv, ClusterOK
<1>10. idx \in ShardIds => shard[idx] = ShardAfterRemove(idx)
    BY DEF ClusterInv, ClusterOK
<1> HIDE DEF shard
<1>11. /\ mongo'.shard = shard /\ mongo'.data = mongo.data /\ mongo'.store = mongo.store
       /\ Shape'
    BY <1>1 DEF ClusterInv, ClusterOK, Shape
<1>12. ClusterOK'
    BY <1>5, <1>11 DEF ClusterInv, ClusterOK
<1>13. LeftTheList'
    BY <1>2, <1>3, <1>6, <1>10, <1>11 DEF LeftTheList
<1>14. CASE idx \in ShardIds /\ RemoveShardWithStatus(idx) = "completed"
    <2>1. {i \in ShardIds : mongo'.shard[i] # "absent"}
            = {i \in ShardIds : mongo.shard[i] # "absent"} \ {idx}
        BY <1>6, <1>9, <1>10, <1>11, <1>14
    <2>2. PICK i \in ShardIds : i = idx
        BY <1>14
    <2>3. Abstract!Leave(i)
        BY <1>7, <1>11, <1>14, <2>1, <2>2 DEF Abstract!Leave, Absent
    <2>4. Abstract!Next
        BY <2>3, Zenon DEF Abstract!Next
    <2>5. NothingLost'
        BY <1>7, <1>11, <1>14, <2>1 DEF ClusterInv, NothingLost, Abstract!NothingLost
    <2> QED BY <1>12, <1>13, <2>4, <2>5 DEF ClusterInv
<1>15. CASE ~(idx \in ShardIds /\ RemoveShardWithStatus(idx) = "completed")
    <2>1. {i \in ShardIds : mongo'.shard[i] # "absent"}
            = {i \in ShardIds : mongo.shard[i] # "absent"}
        BY <1>8, <1>9, <1>10, <1>11, <1>15 DEF Absent
    <2>2. UNCHANGED Abstract!vars
        BY <1>11, <2>1 DEF Abstract!vars
    <2>3. NothingLost'
        BY <1>11, <2>1 DEF ClusterInv, NothingLost, Abstract!NothingLost
    <2> QED BY <1>12, <1>13, <2>2, <2>3 DEF ClusterInv
<1> QED BY <1>14, <1>15

\* The volume of a shard that left the list is deleted.
LEMMA CleanupStep ==
    ASSUME ClusterInv, cleanupShardResources
    PROVE  ClusterInv' /\ [Abstract!Next]_Abstract!vars
<1> DEFINE store == [mongo.store EXCEPT ![idx] = "none"]
<1>1. mongo' = [mongo EXCEPT !.store = store] /\ pc' # "Cleanup"
    BY DEF cleanupShardResources
<1>2. /\ store \in [ShardIds \cup {Cfg} -> {"none", "rs", "shard"}]
      /\ \A i \in ShardIds : store[i] = IF i = idx THEN "none" ELSE mongo.store[i]
    BY Zenon DEF ClusterInv, ClusterOK
<1>3. idx \in ShardIds => Absent(idx)
    BY DEF cleanupShardResources, RunningAt, ClusterInv, LeftTheList, Absent
<1> HIDE DEF store
<1>4. /\ mongo'.shard = mongo.shard /\ mongo'.data = mongo.data /\ mongo'.store = store
      /\ Shape'
    BY <1>1 DEF ClusterInv, ClusterOK, Shape
<1>5. ClusterOK' /\ LeftTheList'
    BY <1>1, <1>2, <1>4 DEF ClusterInv, ClusterOK, LeftTheList
<1>6. CASE idx \in ShardIds /\ mongo.store[idx] # "none"
    <2>1. {i \in ShardIds : mongo'.store[i] # "none"}
            = {i \in ShardIds : mongo.store[i] # "none"} \ {idx}
        BY <1>2, <1>4, <1>6
    <2>2. PICK i \in ShardIds : i = idx
        BY <1>6
    <2>3. Abstract!Discard(i)
        BY <1>3, <1>4, <1>6, <2>1, <2>2 DEF Abstract!Discard, Absent
    <2>4. Abstract!Next
        BY <2>3, Zenon DEF Abstract!Next
    <2>5. NothingLost'
        BY <1>3, <1>4, <1>6, <2>1 DEF ClusterInv, NothingLost, Abstract!NothingLost, Absent
    <2> QED BY <1>5, <2>4, <2>5 DEF ClusterInv
<1>7. CASE ~(idx \in ShardIds /\ mongo.store[idx] # "none")
    <2>1. \A i \in ShardIds : mongo'.store[i] = mongo.store[i]
        BY <1>2, <1>4, <1>7
    <2> QED BY <1>4, <1>5, <2>1, Stutter DEF ClusterInv
<1> QED BY <1>6, <1>7

\* addShard: only shards whose replica set is initiated join.
LEMMA AddShardsStep ==
    ASSUME ClusterInv, reconcileAddShards
    PROVE  ClusterInv' /\ [Abstract!Next]_Abstract!vars
<1>0. pc' # "Cleanup"
    BY DEF reconcileAddShards, Goto
<1>1. CASE mongo' = mongo
    <2>1. ClusterOK'
        BY <1>1 DEF ClusterInv, ClusterOK, Shape
    <2> QED BY <1>0, <1>1, <2>1, Stutter DEF ClusterInv, LeftTheList
<1>2. CASE mongo' # mongo
    <2> DEFINE shard == [i \in ShardIds |-> IF i \in ToAdd /\ mongo.shard[i] = "absent"
                                            THEN "active" ELSE mongo.shard[i]]
               store == [w \in DOMAIN mongo.store |->
                           IF w \in ToAdd THEN "shard" ELSE mongo.store[w]]
    <2>1. mongo' = [mongo EXCEPT !.shard = shard, !.store = store]
        BY <1>2 DEF reconcileAddShards
    <2>2. \A i \in ToAdd : i \in ShardIds /\ mongo.store[i] # "none"
        BY DEF ToAdd, Declared, Reachable, Initiated
    <2>3. /\ shard \in [ShardIds -> {"absent", "active", "draining"}]
          /\ store \in [ShardIds \cup {Cfg} -> {"none", "rs", "shard"}]
        BY DEF ClusterInv, ClusterOK
    <2>4. \A i \in ShardIds : /\ shard[i] = "absent" <=> Absent(i) /\ i \notin ToAdd
                              /\ store[i] = "none" <=> mongo.store[i] = "none"
        BY <2>2 DEF ClusterInv, ClusterOK, Absent
    <2> HIDE DEF shard, store
    <2>5. /\ mongo'.shard = shard /\ mongo'.data = mongo.data /\ mongo'.store = store
          /\ Shape'
        BY <2>1, Zenon DEF ClusterInv, ClusterOK, Shape
    <2>6. ClusterOK' /\ LeftTheList'
        BY <1>0, <2>3, <2>5 DEF ClusterInv, ClusterOK, LeftTheList
    <2>7. PICK S : S = {i \in ToAdd : Absent(i)}
        BY Zenon
    <2>8. /\ {i \in ShardIds : mongo'.shard[i] # "absent"}
               = {i \in ShardIds : mongo.shard[i] # "absent"} \cup S
          /\ {i \in ShardIds : mongo'.store[i] # "none"}
               = {i \in ShardIds : mongo.store[i] # "none"}
        BY <2>2, <2>4, <2>5, <2>7 DEF Absent
    <2>9. /\ S \in SUBSET ShardIds
          /\ S \subseteq {i \in ShardIds : mongo.store[i] # "none"}
                           \ {i \in ShardIds : mongo.shard[i] # "absent"}
        BY <2>2, <2>7 DEF Absent
    <2>10. Abstract!Join(S)
        BY <2>5, <2>8, <2>9 DEF Abstract!Join
    <2>11. Abstract!Next
        BY <2>9, <2>10, Zenon DEF Abstract!Next
    <2>12. NothingLost'
        BY <2>5, <2>8, <2>9 DEF ClusterInv, NothingLost, Abstract!NothingLost
    <2> QED BY <2>6, <2>11, <2>12 DEF ClusterInv
<1> QED BY <1>1, <1>2

\* Applications write to active shards, the balancer empties draining ones.
LEMMA DataSteps ==
    ASSUME ClusterInv, (\E i \in ShardIds : AppWrites(i)) \/ Balancer
    PROVE  ClusterInv' /\ Abstract!Next
<1>1. ASSUME NEW D, D \subseteq {i \in ShardIds : mongo.shard[i] # "absent"},
             mongo' = [mongo EXCEPT !.data = D], UNCHANGED <<pc, idx>>
      PROVE  /\ ClusterInv' /\ mongo'.shard = mongo.shard /\ mongo'.data = D
             /\ mongo'.store = mongo.store
    <2>1. /\ mongo'.shard = mongo.shard /\ mongo'.data = D /\ mongo'.store = mongo.store
          /\ Shape'
        BY <1>1 DEF ClusterInv, ClusterOK, Shape
    <2>2. ClusterOK' /\ LeftTheList'
        BY <1>1, <2>1 DEF ClusterInv, ClusterOK, LeftTheList
    <2>3. NothingLost'
        BY <1>1, <2>1 DEF ClusterInv, NothingLost, Abstract!NothingLost
    <2> QED BY <2>1, <2>2, <2>3 DEF ClusterInv
<1>2. ASSUME NEW i \in ShardIds, AppWrites(i) PROVE ClusterInv' /\ Abstract!Next
    <2>1. mongo.data \cup {i} \subseteq {j \in ShardIds : mongo.shard[j] # "absent"}
        BY <1>2, NothingLostMeans DEF AppWrites, ActiveShards, ClusterInv, Absent
    <2>2. /\ ClusterInv' /\ mongo'.shard = mongo.shard /\ mongo'.data = mongo.data \cup {i}
          /\ mongo'.store = mongo.store
        BY <1>1, <1>2, <2>1 DEF AppWrites
    <2>3. Abstract!Write(i)
        BY <2>1, <2>2 DEF Abstract!Write
    <2> QED BY <2>2, <2>3, Zenon DEF Abstract!Next
<1>3. ASSUME NEW i \in ShardIds, NEW j \in ShardIds, Balance(i, j)
      PROVE  ClusterInv' /\ Abstract!Next
    <2>1. (mongo.data \ {i}) \cup {j} \subseteq {k \in ShardIds : mongo.shard[k] # "absent"}
        BY <1>3, NothingLostMeans DEF Balance, ActiveShards, ClusterInv, Absent
    <2>2. /\ ClusterInv' /\ mongo'.shard = mongo.shard
          /\ mongo'.data = (mongo.data \ {i}) \cup {j} /\ mongo'.store = mongo.store
        BY <1>1, <1>3, <2>1 DEF Balance
    <2>3. Abstract!Move(i, j)
        BY <1>3, <2>1, <2>2 DEF Abstract!Move, Balance
    <2> QED BY <2>2, <2>3, Zenon DEF Abstract!Next
<1> QED BY <1>2, <1>3 DEF Balancer

LEMMA StepCluster ==
    ClusterInv /\ [Next]_vars => ClusterInv' /\ [Abstract!Next]_Abstract!vars
<1> SUFFICES ASSUME ClusterInv, [Next]_vars
             PROVE  ClusterInv' /\ [Abstract!Next]_Abstract!vars
    OBVIOUS
<1>1. CASE Elsewhere
    BY <1>1, ElsewhereStep
<1>2. CASE CommitFCV \/ reconcileShardedCollections \/ AppCreatesCollection
    BY <1>2, VersionAndCollectionSteps
<1>3. CASE reconcileConfigServerInit \/ reconcileShardsInit
    BY <1>3, InitiateSteps
<1>4. CASE \E w \in Workloads : PodReady(w)
    BY <1>4, PodReadyStep
<1>5. CASE reconcileScaleIn \/ cleanupShardResources \/ reconcileAddShards
    BY <1>5, ScaleInStep, CleanupStep, AddShardsStep
<1>6. CASE (\E i \in ShardIds : AppWrites(i)) \/ Balancer
    BY <1>6, DataSteps
<1> QED
    BY <1>1, <1>2, <1>3, <1>4, <1>5, <1>6, Zenon DEF Next, Reconcile, Pods, Elsewhere

\* ImplementsShardSet in every behaviour: each step of the reconciler, of the pods and of
\* the balancer is a step of ShardSet or leaves shard list, data and volumes alone.
THEOREM Refinement == Spec => ImplementsShardSet
<1>1. Init => ClusterInv /\ Abstract!Init
    BY InitCluster
<1>2. ClusterInv /\ [Next]_vars => ClusterInv' /\ [Abstract!Next]_Abstract!vars
    BY StepCluster
<1> QED BY <1>1, <1>2, PTL DEF Spec, ImplementsShardSet, Abstract!Spec

\* NothingLost in every behaviour: no scale-in, however often it is interrupted, retried or
\* overtaken by another edit, drops a shard that holds data or deletes a member's volume.
THEOREM DataIsKept == Spec => []NothingLost
<1>1. ClusterInv => NothingLost
    BY DEF ClusterInv
<1>2. ClusterInv /\ [Next]_vars => ClusterInv'
    BY StepCluster
<1> QED BY <1>1, <1>2, InitCluster, PTL DEF Spec

-----------------------------------------------------------------------------
(***************************************************************************)
(* StagedRollout, for any number of shards, edits, faults and conflicts.   *)
(*                                                                         *)
(* The inductive invariant follows the version through one pass: from the  *)
(* config server's step on, what has been given out is the effective       *)
(* version of the copy this reconcile works on.  It also needs a clean-up  *)
(* never to hit mongos, hence that the loop index is a natural number.     *)
(***************************************************************************)

IsObj(o) == o = [spec |-> o.spec, gen |-> o.gen, st |-> o.st] /\ o.spec \in Specs

IsWorkload(r) == r = [t |-> r.t, v |-> r.v, ready |-> r.ready]

Workloaded ==
    wl = [w \in Workloads |-> wl[w]] /\ \A w \in Workloads : IsWorkload(wl[w])

Given(w) == wl[w].t = mdbsh.st.eff

RInv ==
    /\ IsObj(obj) /\ IsObj(mdbsh) /\ idx \in Nat /\ Workloaded
    /\ pc \in {"Shards", "Mongos"} => Given(Cfg)
    /\ pc = "Mongos" => \A i \in Declared(mdbsh) : Given(i)

\* What a status write may look like.
Keeps(o, p) == IsObj(o) /\ o.spec = p.spec

LEMMA StatusOnly ==
    ASSUME NEW o, IsObj(o), NEW s
    PROVE  Keeps([o EXCEPT !.st = s], o)
BY DEF IsObj, Keeps

\* The closures of the status writes change nothing but the status.
LEMMA Closures ==
    ASSUME NEW o, IsObj(o)
    PROVE  /\ Keeps(setFailed(o), o) /\ Keeps(setInitializing(o), o) /\ Keeps(seed(o), o)
           /\ Keeps(clearUpgrade(o), o) /\ Keeps(startUpgrade(o), o)
           /\ Keeps(backupDone(o), o) /\ Keeps(completeUpgrade(o), o)
           /\ Keeps(initiateRollback(o), o) /\ Keeps(giveUp(o), o) /\ Keeps(rollback(o), o)
           /\ Keeps(setValidating(o), o) /\ Keeps(setConfigServerInitialized(o), o)
           /\ Keeps(initializedSnapshot(o), o) /\ Keeps(setAdminUserCreated(o), o)
           /\ Keeps(addedSnapshot(o), o) /\ Keeps(observed(o), o)
           /\ Keeps(setObserved(o), o)
<1>1. Keeps(setFailed(o), o) /\ Keeps(setInitializing(o), o)
    BY StatusOnly DEF setFailed, setInitializing
<1>2. Keeps(clearUpgrade(o), o) /\ Keeps(backupDone(o), o) /\ Keeps(initiateRollback(o), o)
    BY StatusOnly DEF clearUpgrade, backupDone, initiateRollback
<1>3. Keeps(seed(o), o)
    BY StatusOnly, Zenon DEF seed
<1>4. Keeps(startUpgrade(o), o)
    BY StatusOnly, Zenon DEF startUpgrade
<1>5. Keeps(completeUpgrade(o), o)
    BY StatusOnly, Zenon DEF completeUpgrade
<1>6. Keeps(giveUp(o), o) /\ Keeps(rollback(o), o)
    BY StatusOnly, Zenon DEF giveUp, rollback
<1>7. Keeps(setValidating(o), o) /\ Keeps(setConfigServerInitialized(o), o)
    BY StatusOnly DEF setValidating, setConfigServerInitialized
<1>8. Keeps(initializedSnapshot(o), o) /\ Keeps(setAdminUserCreated(o), o)
    BY StatusOnly DEF initializedSnapshot, setAdminUserCreated
<1>9. Keeps(addedSnapshot(o), o) /\ Keeps(setObserved(o), o)
    BY StatusOnly DEF addedSnapshot, setObserved
<1>10. Keeps(observed(o), o)
    BY StatusOnly, Zenon DEF observed
<1> QED BY <1>1, <1>2, <1>3, <1>4, <1>5, <1>6, <1>7, <1>8, <1>9, <1>10

LEMMA BaseIsObj == ASSUME RInv PROVE IsObj(Base)
BY StatusOnly DEF RInv, Base, Keeps

LEMMA NoCopyIsObj == IsObj(NoCopy) /\ IsObj(Created)
BY SpecsAreTyped DEF IsObj, NoCopy, Created

LEMMA CountIsNat == ASSUME NEW o, IsObj(o) PROVE o.spec.count \in Nat
BY SpecsAreTyped, BoundsAreNat DEF IsObj, SpecType

LEMMA InitRollout == Init => RInv
<1> SUFFICES ASSUME Init PROVE RInv
    OBVIOUS
<1>1. IsObj(obj) /\ IsObj(mdbsh) /\ idx \in Nat /\ pc = "Idle"
    BY NoCopyIsObj DEF Init
<1>2. Workloaded
    BY Zenon DEF Init, Workloaded, IsWorkload, NoWorkload
<1> QED BY <1>1, <1>2 DEF RInv

\* A step that gives no workload a version and does not stop between two that do.
Neutral ==
    /\ IsObj(obj') /\ IsObj(mdbsh') /\ idx' \in Nat
    /\ pc' \notin {"Shards", "Mongos"}
    /\ wl' = wl

\* The end of a reconcile, with or without a status write.
LEMMA ReturnIsNeutral ==
    ASSUME Return, IsObj(obj'), wl' = wl
    PROVE  Neutral
BY NoCopyIsObj DEF Return, Neutral

LEMMA FailureIsNeutral ==
    ASSUME RInv, updateStatusError, wl' = wl
    PROVE  Neutral
<1>1. IsObj(obj')
    BY BaseIsObj, Closures DEF updateStatusError, WriteAndReturn, Keeps
<1> QED BY <1>1, ReturnIsNeutral DEF updateStatusError, WriteAndReturn

\* A status write in the middle of a reconcile.
LEMMA WriteIsNeutral ==
    ASSUME RInv, NEW o, IsObj(o), Write(o), idx' = idx, wl' = wl,
           pc' \notin {"Shards", "Mongos"}
    PROVE  Neutral
BY DEF RInv, Write, Neutral

\* A step that writes nothing.
LEMMA SilentIsNeutral ==
    ASSUME RInv, UNCHANGED <<obj, idx, wl>>, IsObj(mdbsh'), pc' \notin {"Shards", "Mongos"}
    PROVE  Neutral
BY DEF RInv, Neutral

LEMMA UpgradeIsNeutral ==
    ASSUME RInv,
           \/ Start \/ SetInitializing \/ Seed \/ NoUpgrade \/ NothingToDecide
           \/ StartUpgrade \/ BackingUp \/ CommitFCV \/ CompleteUpgrade \/ KeepValidating
           \/ ValidationTimedOut \/ RollBack \/ SetValidating
    PROVE  Neutral
<1>0. IsObj(obj) /\ IsObj(mdbsh) /\ IsObj(Base)
    BY BaseIsObj DEF RInv
<1>1. CASE Start
    BY <1>0, <1>1, SilentIsNeutral DEF Start, Goto, env
<1>2. CASE SetInitializing
    <2>1. CASE Write(setInitializing(Base))
        <3>1. IsObj(setInitializing(Base))
            BY <1>0, Closures DEF Keeps
        <3> QED BY <1>2, <2>1, <3>1, WriteIsNeutral DEF SetInitializing, env
    <2>2. CASE UNCHANGED <<obj, mdbsh, fresh>>
        BY <1>0, <1>2, <2>2, SilentIsNeutral DEF SetInitializing, env
    <2> QED BY <1>2, <2>1, <2>2 DEF SetInitializing
<1>3. CASE Seed
    <2>1. CASE Write(seed(Base))
        <3>1. IsObj(seed(Base))
            BY <1>0, Closures DEF Keeps
        <3> QED BY <1>3, <2>1, <3>1, WriteIsNeutral DEF Seed, WriteAndGoto, Goto, env
    <2>2. CASE UNCHANGED <<obj, mdbsh, fresh>>
        BY <1>0, <1>3, <2>2, SilentIsNeutral DEF Seed, WriteAndGoto, Goto, env
    <2> QED BY <1>3, <2>1, <2>2 DEF Seed, WriteAndGoto
<1>4. CASE NoUpgrade
    <2>1. CASE Write(clearUpgrade(Base))
        <3>1. IsObj(clearUpgrade(Base))
            BY <1>0, Closures DEF Keeps
        <3>2. idx' = idx /\ wl' = wl /\ pc' = "Cfg"
            BY <1>4, Zenon DEF NoUpgrade, WriteAndGoto, Goto, env
        <3> QED BY <2>1, <3>1, <3>2, WriteIsNeutral
    <2>2. CASE UNCHANGED <<obj, mdbsh, fresh>>
        <3>1. UNCHANGED <<idx, wl>> /\ pc' = "Cfg"
            BY <1>4, Zenon DEF NoUpgrade, WriteAndGoto, Goto, env
        <3> QED BY <1>0, <2>2, <3>1, SilentIsNeutral
    <2> QED BY <1>4, <2>1, <2>2, Zenon DEF NoUpgrade, WriteAndGoto
<1>5. CASE NothingToDecide \/ CommitFCV
    BY <1>0, <1>5, SilentIsNeutral DEF NothingToDecide, CommitFCV, Goto, env
<1>6. CASE KeepValidating
    BY <1>0, <1>6, ReturnIsNeutral DEF KeepValidating, env
<1>7. ASSUME NEW o, IsObj(o), WriteAndReturn(o), wl' = wl PROVE Neutral
    BY <1>7, ReturnIsNeutral DEF WriteAndReturn
<1>8. CASE StartUpgrade \/ CompleteUpgrade \/ SetValidating
    <2>1. IsObj(startUpgrade(Base)) /\ IsObj(completeUpgrade(Base)) /\ IsObj(setValidating(Base))
        BY <1>0, Closures DEF Keeps
    <2> QED BY <1>7, <1>8, <2>1, Zenon DEF StartUpgrade, CompleteUpgrade, SetValidating, env
<1>9. CASE ValidationTimedOut \/ RollBack
    <2>1. /\ IsObj(initiateRollback(Base)) /\ IsObj(giveUp(Base))
          /\ IsObj(clearUpgrade(Base)) /\ IsObj(rollback(Base))
        BY <1>0, Closures DEF Keeps
    <2> QED BY <1>7, <1>9, <2>1 DEF ValidationTimedOut, RollBack, env
<1>10. CASE BackingUp
    <2>1. IsObj(backupDone(Base)) /\ IsObj(clearUpgrade(Base))
        BY <1>0, Closures DEF Keeps
    <2>2. IsObj(obj')
        BY <1>0, <1>10, <2>1 DEF BackingUp
    <2> QED BY <1>10, <2>2, ReturnIsNeutral DEF BackingUp
<1> QED
    BY <1>1, <1>2, <1>3, <1>4, <1>5, <1>6, <1>8, <1>9, <1>10

LEMMA BootstrapIsNeutral ==
    ASSUME RInv,
           \/ reconcileConfigServerInit \/ reconcileShardsInit \/ WriteShardsInit
           \/ reconcileShardedAdminUser
    PROVE  Neutral
<1>0. IsObj(obj) /\ IsObj(mdbsh) /\ IsObj(Base) /\ idx \in Nat
    BY BaseIsObj DEF RInv
<1>1. CASE reconcileConfigServerInit
    <2>1. IsObj(setConfigServerInitialized(Base))
        BY <1>0, Closures DEF Keeps
    <2>2. CASE updateStatusError
        BY <1>1, <2>2, FailureIsNeutral DEF reconcileConfigServerInit
    <2>3. CASE Write(setConfigServerInitialized(Base)) /\ Goto("ShardsInit")
        BY <1>1, <2>1, <2>3, WriteIsNeutral DEF reconcileConfigServerInit, Goto
    <2>4. CASE Goto("ShardsInit") /\ UNCHANGED <<obj, mdbsh>>
        BY <1>0, <1>1, <2>4, SilentIsNeutral DEF reconcileConfigServerInit, Goto
    <2> QED BY <1>1, <2>2, <2>3, <2>4 DEF reconcileConfigServerInit
<1>2. CASE reconcileShardsInit
    <2>1. IsObj(mdbsh')
        BY <1>0, <1>2, StatusOnly DEF reconcileShardsInit, Keeps
    <2> QED BY <1>2, <2>1, SilentIsNeutral DEF reconcileShardsInit, Goto
<1>3. CASE WriteShardsInit
    <2> DEFINE o == initializedSnapshot(Base)
    <2>1. IsObj(o) /\ IsObj(setFailed(o))
        BY <1>0, Closures DEF Keeps
    <2> HIDE DEF o
    <2>2. CASE WriteAndGoto(o, "Admin")
        BY <2>1, <2>2, WriteIsNeutral DEF WriteAndGoto, Goto, env
    <2>3. CASE WriteAndReturn(setFailed(o)) /\ UNCHANGED <<env, hist>>
        BY <2>1, <2>3, ReturnIsNeutral DEF WriteAndReturn, env
    <2> QED BY <1>3, <2>2, <2>3 DEF WriteShardsInit, o
<1>4. CASE reconcileShardedAdminUser
    <2>0. wl' = wl
        BY <1>4 DEF reconcileShardedAdminUser, env
    <2>1. IsObj(setAdminUserCreated(Base))
        BY <1>0, Closures DEF Keeps
    <2>2. CASE UNCHANGED obj /\ Return
        BY <1>0, <2>0, <2>2, ReturnIsNeutral
    <2>3. CASE updateStatusError
        BY <2>0, <2>3, FailureIsNeutral
    <2>4. CASE /\ UNCHANGED <<obj, mdbsh>> \/ Write(setAdminUserCreated(Base))
               /\ pc' = "ScaleIn" /\ idx' = mdbsh'.spec.count
        <3>1. IsObj(obj') /\ IsObj(mdbsh')
            BY <1>0, <2>1, <2>4 DEF Write
        <3> QED BY <2>0, <2>4, <3>1, CountIsNat DEF Neutral
    <2> QED BY <1>4, <2>2, <2>3, <2>4 DEF reconcileShardedAdminUser
<1> QED BY <1>1, <1>2, <1>3, <1>4

LEMMA ScalingIsNeutral ==
    ASSUME RInv,
           \/ NoScaleIn \/ reconcileScaleIn \/ reconcileAddShards \/ WriteAddShards
           \/ reconcileShardedCollections \/ updateStatus \/ CallFails \/ Crash
    PROVE  Neutral
<1>0. IsObj(obj) /\ IsObj(mdbsh) /\ IsObj(Base) /\ idx \in Nat
    BY BaseIsObj DEF RInv
<1>1. CASE NoScaleIn
    BY <1>0, <1>1 DEF NoScaleIn, Neutral, env
<1>2. CASE reconcileScaleIn
    <2>1. CASE updateStatusError
        BY <1>2, <2>1, FailureIsNeutral DEF reconcileScaleIn
    <2>2. CASE Goto("Cleanup") /\ UNCHANGED <<obj, mdbsh, fresh>>
        BY <1>0, <1>2, <2>2, SilentIsNeutral DEF reconcileScaleIn, Goto
    <2>3. CASE UNCHANGED obj /\ Return
        BY <1>0, <1>2, <2>3, ReturnIsNeutral DEF reconcileScaleIn
    <2> QED BY <1>2, <2>1, <2>2, <2>3 DEF reconcileScaleIn
<1>3. CASE reconcileAddShards
    <2>1. IsObj(mdbsh')
        BY <1>0, <1>3, StatusOnly DEF reconcileAddShards, Keeps
    <2> QED BY <1>3, <2>1, SilentIsNeutral DEF reconcileAddShards, Goto
<1>4. CASE WriteAddShards
    <2> DEFINE o == addedSnapshot(Base)
    <2>1. IsObj(o) /\ IsObj(setFailed(o))
        BY <1>0, Closures DEF Keeps
    <2> HIDE DEF o
    <2>2. CASE WriteAndGoto(o, "Collections")
        BY <2>1, <2>2, WriteIsNeutral DEF WriteAndGoto, Goto, env
    <2>3. CASE WriteAndReturn(setFailed(o)) /\ UNCHANGED <<env, hist>>
        BY <2>1, <2>3, ReturnIsNeutral DEF WriteAndReturn, env
    <2> QED BY <1>4, <2>2, <2>3 DEF WriteAddShards, o
<1>5. CASE reconcileShardedCollections
    <2>1. \/ Return
          \/ Goto("Status") /\ \E d : mdbsh' = [mdbsh EXCEPT !.st.drift = d]
        BY <1>5 DEF reconcileShardedCollections
    <2>2. UNCHANGED <<obj, wl>>
        BY <1>5 DEF reconcileShardedCollections
    <2>3. CASE Return
        BY <1>0, <2>2, <2>3, ReturnIsNeutral
    <2>4. CASE Goto("Status") /\ \E d : mdbsh' = [mdbsh EXCEPT !.st.drift = d]
        <3>1. IsObj(mdbsh')
            BY <1>0, <2>4, StatusOnly DEF Keeps
        <3> QED BY <2>2, <2>4, <3>1, SilentIsNeutral DEF Goto
    <2> QED BY <2>1, <2>3, <2>4
<1>6. CASE updateStatus
    <2>1. IsObj(observed(Base)) /\ IsObj(setObserved(obj))
        BY <1>0, Closures DEF Keeps
    <2>2. IsObj(obj')
        BY <1>0, <1>6, <2>1 DEF updateStatus, WriteAndReturn
    <2> QED BY <1>6, <2>2, ReturnIsNeutral DEF updateStatus, WriteAndReturn
<1>7. CASE CallFails
    BY <1>7, FailureIsNeutral DEF CallFails, env
<1>8. CASE Crash
    BY <1>0, <1>8, ReturnIsNeutral DEF Crash, env
<1> QED BY <1>1, <1>2, <1>3, <1>4, <1>5, <1>6, <1>7, <1>8

\* What StagedRollout asks of a step.
Staged ==
    wl'[Mongos].t # wl[Mongos].t =>
        \A w \in {Cfg} \cup Declared(mdbsh) : wl[w].t = wl'[Mongos].t

LEMMA NeutralStep == ASSUME RInv, Neutral PROVE RInv' /\ Staged
<1>1. Workloaded'
    BY DEF RInv, Neutral, Workloaded, IsWorkload
<1> QED BY <1>1 DEF RInv, Neutral, Staged

\* Cfg, shards and mongos are different workloads.
LEMMA Distinct ==
    /\ Mongos \in Workloads /\ Cfg \in Workloads /\ Cfg # Mongos
    /\ \A i \in ShardIds : i \in Workloads /\ i # Mongos /\ i # Cfg
    /\ \A i \in Nat : i # Mongos /\ i # Cfg
BY BoundsAreNat DEF Mongos, Cfg, Workloads, ShardIds

LEMMA Applied ==
    ASSUME RInv, NEW W, Apply(W)
    PROVE  /\ Workloaded'
           /\ \A w \in Workloads : wl'[w].t = IF w \in W THEN mdbsh.st.eff ELSE wl[w].t
<1>1. ASSUME NEW w \in Workloads
      PROVE  /\ IsWorkload(wl'[w])
             /\ wl'[w].t = IF w \in W THEN mdbsh.st.eff ELSE wl[w].t
    <2>1. wl'[w] = IF w \in W THEN [wl[w] EXCEPT !.t = mdbsh.st.eff] ELSE wl[w]
        BY DEF Apply
    <2>2. IsWorkload(wl[w])
        BY DEF RInv, Workloaded
    <2> QED BY <2>1, <2>2 DEF IsWorkload
<1>2. wl' = [w \in Workloads |-> wl'[w]]
    BY DEF Apply
<1> QED BY <1>1, <1>2 DEF Workloaded

\* Steps 2, 4 and 6 of Reconcile, each of which starts where the one before has ended.
LEMMA RolloutSteps ==
    ASSUME RInv, reconcileConfigServer \/ reconcileShard \/ reconcileMongos
    PROVE  RInv' /\ Staged
<1>0. IsObj(obj) /\ IsObj(mdbsh) /\ idx \in Nat
    BY DEF RInv
<1>1. CASE reconcileConfigServer
    <2>1. UNCHANGED <<obj, mdbsh, idx>> /\ pc' = "Shards" /\ Apply({Cfg})
        BY <1>1 DEF reconcileConfigServer, Goto
    <2>2. Workloaded' /\ wl'[Cfg].t = mdbsh.st.eff /\ wl'[Mongos].t = wl[Mongos].t
        BY <2>1, Applied, Distinct
    <2> QED BY <1>0, <2>1, <2>2 DEF RInv, Given, Staged
<1>2. CASE reconcileShard
    <2>1. CASE Return /\ UNCHANGED <<obj, wl>>
        BY <1>0, <2>1, ReturnIsNeutral, NeutralStep
    <2>2. CASE Apply(Declared(mdbsh)) /\ Goto("Mongos") /\ UNCHANGED <<obj, mdbsh, fresh>>
        <3>1. /\ Workloaded'
              /\ \A w \in Workloads :
                   wl'[w].t = IF w \in Declared(mdbsh) THEN mdbsh.st.eff ELSE wl[w].t
            BY <2>2, Applied
        <3>2. Declared(mdbsh) \subseteq ShardIds /\ Declared(mdbsh') = Declared(mdbsh)
            BY <2>2 DEF Declared
        <3>3. wl[Cfg].t = mdbsh.st.eff
            BY <1>2 DEF RInv, reconcileShard, RunningAt, Given
        <3>4. /\ \A i \in Declared(mdbsh) : wl'[i].t = mdbsh.st.eff
              /\ wl'[Cfg].t = mdbsh.st.eff /\ wl'[Mongos].t = wl[Mongos].t
            BY <3>1, <3>2, <3>3, Distinct
        <3> QED BY <1>0, <2>2, <3>1, <3>2, <3>4 DEF RInv, Given, Staged, Goto
    <2> QED BY <1>2, <2>1, <2>2 DEF reconcileShard
<1>3. CASE reconcileMongos
    <2>1. CASE Return /\ UNCHANGED <<obj, wl>>
        BY <1>0, <2>1, ReturnIsNeutral, NeutralStep
    <2>2. CASE Apply({Mongos}) /\ UNCHANGED <<obj, mdbsh, fresh, idx>>
               /\ pc' \in {"Validating", "CfgInit"}
        <3>1. Workloaded' /\ wl'[Mongos].t = mdbsh.st.eff
            BY <2>2, Applied, Distinct
        <3>2. \A w \in {Cfg} \cup Declared(mdbsh) : wl[w].t = mdbsh.st.eff
            BY <1>3 DEF RInv, reconcileMongos, RunningAt, Given
        <3> QED BY <1>0, <2>2, <3>1, <3>2 DEF RInv, Staged
    <2> QED BY <1>3, <2>1, <2>2 DEF reconcileMongos, Goto
<1> QED BY <1>1, <1>2, <1>3

\* The resources of a shard go, never those of mongos.
LEMMA CleanupSteps ==
    ASSUME RInv, cleanupShardResources \/ CleanupFails
    PROVE  RInv' /\ Staged
<1>0. IsObj(obj) /\ IsObj(mdbsh) /\ IsObj(Base) /\ idx \in Nat /\ Workloaded
    BY BaseIsObj DEF RInv
<1>1. wl' \in {wl, [wl EXCEPT ![idx] = NoWorkload]}
    BY DEF cleanupShardResources, CleanupFails
<1>2. Workloaded'
    <2>1. ASSUME NEW w \in Workloads PROVE IsWorkload(wl'[w])
        <3>1. wl'[w] \in {wl[w], NoWorkload}
            BY <1>0, <1>1 DEF Workloaded
        <3> QED BY <1>0, <3>1 DEF Workloaded, IsWorkload, NoWorkload
    <2>2. wl' = [w \in Workloads |-> wl'[w]]
        BY <1>0, <1>1 DEF Workloaded
    <2> QED BY <2>1, <2>2 DEF Workloaded
<1>3. wl'[Mongos].t = wl[Mongos].t
    BY <1>0, <1>1, Distinct DEF Workloaded
<1>4. IsObj(obj') /\ IsObj(mdbsh') /\ idx' \in Nat /\ pc' \notin {"Shards", "Mongos"}
    <2>1. CASE cleanupShardResources
        <3>1. IsObj(mdbsh')
            BY <1>0, <2>1, StatusOnly DEF cleanupShardResources, Keeps
        <3> QED BY <1>0, <2>1, <3>1 DEF cleanupShardResources
    <2>2. CASE CleanupFails
        <3>1. IsObj(setFailed(Base))
            BY <1>0, Closures DEF Keeps
        <3> QED
            BY <2>2, <3>1, NoCopyIsObj
            DEF CleanupFails, updateStatusError, WriteAndReturn, Return
    <2> QED BY <2>1, <2>2
<1> QED BY <1>2, <1>3, <1>4 DEF RInv, Staged

\* Pods are replaced, come up and go down under the template they were given.
LEMMA PodSteps ==
    ASSUME RInv, NEW w \in Workloads, Roll(w) \/ PodReady(w) \/ PodDown(w)
    PROVE  RInv' /\ Staged
<1>1. PICK v, r : wl' = [wl EXCEPT ![w] = [@ EXCEPT !.v = v, !.ready = r]]
    <2>1. IsWorkload(wl[w])
        BY DEF RInv, Workloaded
    <2>2. CASE Roll(w)
        BY <2>2, Zenon DEF Roll
    <2>3. [wl[w] EXCEPT !.v = wl[w].v] = wl[w]
        BY <2>1 DEF IsWorkload
    <2>4. ASSUME NEW b, wl' = [wl EXCEPT ![w].ready = b]
          PROVE  wl' = [wl EXCEPT ![w] = [@ EXCEPT !.v = wl[w].v, !.ready = b]]
        BY <2>3, <2>4, Zenon
    <2>5. CASE PodReady(w) \/ PodDown(w)
        BY <2>4, <2>5, Zenon DEF PodReady, PodDown
    <2> QED BY <2>2, <2>5, Zenon
<1>2. UNCHANGED <<obj, mdbsh, idx, pc>>
    BY DEF Roll, PodReady, PodDown
<1>3. ASSUME NEW u \in Workloads PROVE IsWorkload(wl'[u]) /\ wl'[u].t = wl[u].t
    <2>1. IsWorkload(wl[u])
        BY DEF RInv, Workloaded
    <2>2. wl'[u] = wl[u] \/ wl'[u] = [wl[u] EXCEPT !.v = v, !.ready = r]
        BY <1>1, Zenon DEF RInv, Workloaded
    <2> QED BY <2>1, <2>2, Zenon DEF IsWorkload
<1>4. wl' = [u \in Workloads |-> wl'[u]]
    BY <1>1 DEF RInv, Workloaded
<1>5. Workloaded'
    BY <1>3, <1>4 DEF Workloaded
<1>6. \A i \in Declared(mdbsh) : i \in Workloads
    BY Distinct DEF Declared
<1>7. Declared(mdbsh)' = Declared(mdbsh)
    BY <1>2 DEF Declared
<1> QED BY <1>2, <1>3, <1>5, <1>6, <1>7, Distinct DEF RInv, Given, Staged

\* Users, applications, the balancer and time leave the reconcile and the workloads alone.
LEMMA OutsideSteps ==
    ASSUME RInv,
           \/ Balancer \/ BackupController \/ Tick \/ AppCreatesCollection \/ Touch
           \/ (\E i \in ShardIds : AppWrites(i)) \/ (\E s \in Specs : EditSpec(s))
           \/ UNCHANGED vars
    PROVE  RInv' /\ Staged
<1>0. IsObj(obj)
    BY DEF RInv
<1>1. UNCHANGED <<mdbsh, pc, idx, wl>>
    BY Zenon DEF Balancer, Balance, BackupController, BackupEnds, Tick, AppCreatesCollection,
           Touch, AppWrites, EditSpec, vars, env
<1>2. IsObj(obj')
    <2>1. CASE obj' = obj
        BY <1>0, <2>1
    <2>2. CASE Tick
        BY <1>0, <2>2, StatusOnly DEF Tick, Keeps
    <2>3. CASE \E s \in Specs : EditSpec(s)
        <3>1. PICK s \in Specs : obj' = [obj EXCEPT !.spec = s, !.gen = @ + 1]
            BY <2>3, Zenon DEF EditSpec
        <3> QED BY <1>0, <3>1, Zenon DEF IsObj
    <2> QED
        BY <2>1, <2>2, <2>3 DEF Balancer, Balance, BackupController, BackupEnds,
           AppCreatesCollection, Touch, AppWrites, vars
<1>3. Workloaded' /\ Declared(mdbsh)' = Declared(mdbsh)
    BY <1>1 DEF RInv, Workloaded, IsWorkload, Declared
<1> QED BY <1>1, <1>2, <1>3 DEF RInv, Given, Staged

LEMMA StepRollout == RInv /\ [Next]_vars => RInv' /\ Staged
<1> SUFFICES ASSUME RInv, [Next]_vars PROVE RInv' /\ Staged
    OBVIOUS
<1>1. CASE Reconcile
    BY <1>1, UpgradeIsNeutral, BootstrapIsNeutral, ScalingIsNeutral, NeutralStep,
       RolloutSteps, CleanupSteps DEF Reconcile
<1>2. CASE Faults \/ Pods
    BY <1>2, ScalingIsNeutral, NeutralStep, CleanupSteps, PodSteps DEF Faults, Pods
<1>3. CASE ~(Reconcile \/ Faults \/ Pods)
    BY <1>3, OutsideSteps DEF Next
<1> QED BY <1>1, <1>2, <1>3

\* StagedRollout in every behaviour: mongos is given a version by a pass that has given it
\* to the config server and to every declared shard, and nothing between the three steps
\* changes what the pass works from.
THEOREM StagedRolloutHolds == Spec => StagedRollout
<1>1. RInv /\ [Next]_vars => [Staged]_vars
    BY StepRollout
<1>2. RInv /\ [Next]_vars => RInv'
    BY StepRollout
<1> HIDE DEF Staged
<1>3. Spec => [][Staged]_vars
    BY <1>1, <1>2, InitRollout, PTL DEF Spec
<1> QED BY <1>3 DEF StagedRollout, Staged

-----------------------------------------------------------------------------
(***************************************************************************)
(* The shape of the state: the types TypeOK gives, grouped for the proofs, *)
(* and the facts about them the rest of the theorems need.                 *)
(***************************************************************************)

\* Every spec declares at least one shard and runs a version that is a
\* positive number.
LEMMA SpecFacts ==
    /\ \A s \in Specs : s.version \in Versions /\ s.count \in 1 .. MaxShards
    /\ Versions \subseteq Nat \ {0}
BY SpecsAreTyped DEF SpecType, Versions

\* The parts of a resource are typed.
LEMMA ResourceParts ==
    ASSUME NEW o \in Resource
    PROVE  o.spec \in Specs /\ o.gen \in 1 .. MaxGen /\ o.st \in StatusType
BY DEF Resource

\* A closure that writes a typed status yields a resource.
LEMMA StatusWrite ==
    ASSUME NEW o \in Resource, NEW s \in StatusType
    PROVE  [o EXCEPT !.st = s] \in Resource
BY DEF Resource

\* The types the conjuncts of TypeOK give the history, the workloads, the
\* MongoDB cluster and the backups.
HistType ==
    [faults : 0 .. MaxFaults, touches : 0 .. MaxTouches, flakes : 0 .. MaxFlakes,
     started : SUBSET (1 .. MaxGen), deep : BOOLEAN, hasty : BOOLEAN]

WorkloadType == [t : Versions \cup {NoVersion}, v : Versions \cup {NoVersion}, ready : BOOLEAN]

ClusterType ==
    [shard : [ShardIds -> {"absent", "active", "draining"}], data : SUBSET ShardIds,
     store : [ShardIds \cup {Cfg} -> {"none", "rs", "shard"}],
     admin : BOOLEAN, coll : {"missing", "plain"} \cup Keys, fcv : Nat]

BackupType == [Versions -> {"none", "Running", "Completed", "Failed"}]

\* TypeOK, grouped: what the pass does not write alone, and what it does.
\* The last conjunct of PassOK is what makes TypeOK inductive: the shard
\* whose resources are cleaned up next is one status.shards still counts.
EnvOK ==
    /\ wl \in [Workloads -> WorkloadType] /\ mongo \in ClusterType
    /\ hpa \in BOOLEAN /\ backups \in BackupType

PassOK ==
    /\ obj \in Resource /\ mdbsh \in Resource /\ fresh \in BOOLEAN
    /\ idx \in 0 .. MaxShards /\ desired \in Versions \cup {NoVersion}
    /\ pc = "Cleanup" => idx < mdbsh.st.n

TInv == PassOK /\ EnvOK /\ hist \in HistType

\* What UpdateWithRetry starts from is a resource.
LEMMA BaseType == ASSUME obj \in Resource, mdbsh \in Resource PROVE Base \in Resource
BY StatusWrite, ResourceParts DEF Base

\* The two closures that copy the flags of the pass keep the type of the
\* resource.
LEMMA SnapshotTypes ==
    ASSUME mdbsh \in Resource, NEW o \in Resource
    PROVE  initializedSnapshot(o) \in Resource /\ addedSnapshot(o) \in Resource
<1>0. o.st \in StatusType /\ mdbsh.st \in StatusType
    BY ResourceParts
<1>1. mdbsh.st.inited \in [ShardIds -> BOOLEAN] /\ mdbsh.st.added \in [ShardIds -> BOOLEAN]
    BY <1>0, Zenon DEF StatusType
<1>2. [o.st EXCEPT !.inited = mdbsh.st.inited] \in StatusType
    BY <1>0, <1>1, Zenon DEF StatusType
<1>3. [o.st EXCEPT !.added = mdbsh.st.added] \in StatusType
    BY <1>0, <1>1, Zenon DEF StatusType
<1> QED BY <1>2, <1>3, StatusWrite DEF initializedSnapshot, addedSnapshot

\* The parts of the MongoDB cluster are typed.
LEMMA ClusterParts ==
    ASSUME NEW c \in ClusterType
    PROVE  /\ c.shard \in [ShardIds -> {"absent", "active", "draining"}] /\ c.data \in SUBSET ShardIds
           /\ c.store \in [ShardIds \cup {Cfg} -> {"none", "rs", "shard"}]
           /\ c.admin \in BOOLEAN /\ c.coll \in {"missing", "plain"} \cup Keys /\ c.fcv \in Nat
BY DEF ClusterType

\* The minor release of a version, or of none, is a number.
LEMMA MinorIsNat == \A v \in Versions \cup {NoVersion} : MajorMinor(v) \in Nat /\ fcvMajorMinor(v) \in Nat
BY SpecFacts DEF fcvMajorMinor, MajorMinor, NoVersion

\* The only step of a pass the history records is the start of an upgrade.
LEMMA PassKeepsHist == ASSUME Reconcile, ~ StartUpgrade PROVE hist' = hist
<1> USE DEF WriteAndGoto, env
<1>1. CASE Start \/ SetInitializing \/ Seed \/ NoUpgrade \/ NothingToDecide
    BY <1>1, Zenon DEF Start, SetInitializing, Seed, NoUpgrade, NothingToDecide
<1>2. CASE \/ BackingUp \/ CommitFCV \/ CompleteUpgrade \/ KeepValidating
           \/ ValidationTimedOut \/ RollBack
    BY <1>2, Zenon DEF BackingUp, CommitFCV, CompleteUpgrade, KeepValidating,
       ValidationTimedOut, RollBack
<1>3. CASE \/ reconcileConfigServer \/ reconcileShard \/ reconcileMongos \/ SetValidating
           \/ reconcileConfigServerInit \/ reconcileShardsInit
    BY <1>3, Zenon DEF reconcileConfigServer, reconcileShard, reconcileMongos,
       SetValidating, reconcileConfigServerInit, reconcileShardsInit
<1>4. CASE WriteShardsInit \/ WriteAddShards
    BY <1>4, Zenon DEF WriteShardsInit, WriteAddShards
<1>5. CASE \/ reconcileShardedAdminUser \/ NoScaleIn \/ reconcileScaleIn
           \/ cleanupShardResources \/ reconcileAddShards
           \/ reconcileShardedCollections \/ updateStatus
    BY <1>5, Zenon DEF reconcileShardedAdminUser, NoScaleIn, reconcileScaleIn,
       cleanupShardResources, reconcileAddShards, reconcileShardedCollections,
       updateStatus
<1> QED BY <1>1, <1>2, <1>3, <1>4, <1>5, Zenon DEF Reconcile

-----------------------------------------------------------------------------
(***************************************************************************)
(* Type correctness.  The one conjunct that is not a type is in PassOK: a  *)
(* pass at Cleanup removes the last shard of status.shards, so that the    *)
(* count it then writes does not fall below zero.                          *)
(***************************************************************************)

\* The bound on the clock is a number.
LEMMA MaxTimeNat == MaxTime \in Nat
<1>1. (1 + MaxShards) * Budget \in Nat
    BY BoundsAreNat
<1> QED BY <1>1, BoundsAreNat DEF MaxTime

\* status.shards lists at most the declared shards.
LEMMA PresentCount ==
    ASSUME NEW o, o.spec \in Specs
    PROVE  /\ Cardinality(Present(o)) \in 0 .. MaxShards
           /\ Cardinality(Present(o)) <= o.spec.count
<1>1. o.spec.count \in 1 .. MaxShards
    BY SpecFacts
<1>2. Present(o) \subseteq 0 .. o.spec.count - 1
    BY <1>1, BoundsAreNat DEF Present, Declared, ShardIds
<1>3. /\ IsFiniteSet(0 .. o.spec.count - 1)
      /\ Cardinality(0 .. o.spec.count - 1) = o.spec.count
    <2> DEFINE c == o.spec.count - 1
    <2>1. c \in Nat /\ c + 1 = o.spec.count
        BY <1>1, BoundsAreNat
    <2> HIDE DEF c
    <2>2. IsFiniteSet(0 .. c) /\ Cardinality(0 .. c) = IF 0 > c THEN 0 ELSE c - 0 + 1
        <3>1. 0 \in Int /\ c \in Int
            BY <2>1
        <3> QED BY <3>1, FS_Interval, Zenon
    <2>3. Cardinality(0 .. c) = c + 1
        BY <2>1, <2>2
    <2> QED BY <2>1, <2>2, <2>3 DEF c
<1>4. IsFiniteSet(Present(o)) /\ Cardinality(Present(o)) <= o.spec.count
    BY <1>2, <1>3, FS_Subset, Zenon
<1>5. Cardinality(Present(o)) \in Nat
    BY <1>4, FS_CardinalityType
<1> QED BY <1>1, <1>4, <1>5, BoundsAreNat

\* The resource starts typed.
LEMMA CreatedType == Created \in Resource /\ NoCopy \in Resource
<1>1. NoTime \in NoTime .. MaxTime /\ 0 \in 0 .. MaxShards /\ 0 \in 0 .. MaxGen /\ 1 \in 1 .. MaxGen
    BY MaxTimeNat, BoundsAreNat DEF NoTime
<1>2. EmptyStatus \in StatusType
    BY <1>1 DEF EmptyStatus, StatusType, NoVersion
<1> QED BY <1>1, <1>2, SpecsAreTyped DEF Created, NoCopy, Resource

\* Every closure the controller hands to UpdateWithRetry keeps the type of
\* the resource: the flags and phases, the upgrade record, the scaling
\* status.
LEMMA SimpleClosures ==
    ASSUME NEW o \in Resource
    PROVE  /\ setFailed(o) \in Resource /\ setInitializing(o) \in Resource
           /\ backupDone(o) \in Resource /\ initiateRollback(o) \in Resource
           /\ setConfigServerInitialized(o) \in Resource /\ setAdminUserCreated(o) \in Resource
           /\ setObserved(o) \in Resource
<1>0. o.st \in StatusType /\ o.gen \in 0 .. MaxGen
    BY ResourceParts, BoundsAreNat
<1>1. [o.st EXCEPT !.phase = "Failed"] \in StatusType /\ [o.st EXCEPT !.phase = "Initializing"] \in StatusType
    BY <1>0, Zenon DEF StatusType
<1>2. [o.st EXCEPT !.up = "Upgrading"] \in StatusType /\ [o.st EXCEPT !.up = "RollingBack"] \in StatusType
    BY <1>0, Zenon DEF StatusType
<1>3. [o.st EXCEPT !.cfgInit = TRUE] \in StatusType /\ [o.st EXCEPT !.admin = TRUE] \in StatusType
    BY <1>0, Zenon DEF StatusType
<1>4. [o.st EXCEPT !.gen = o.gen] \in StatusType
    BY <1>0, Zenon DEF StatusType
<1> QED BY <1>1, <1>2, <1>3, <1>4, StatusWrite, Zenon
    DEF setFailed, setInitializing, backupDone, initiateRollback, setConfigServerInitialized,
        setAdminUserCreated, setObserved

LEMMA UpgradeClosures ==
    ASSUME TypeOK, NEW o \in Resource
    PROVE  /\ seed(o) \in Resource /\ clearUpgrade(o) \in Resource
           /\ startUpgrade(o) \in Resource /\ completeUpgrade(o) \in Resource
           /\ giveUp(o) \in Resource /\ rollback(o) \in Resource /\ setValidating(o) \in Resource
<1>0. /\ o.st \in StatusType /\ o.gen \in 0 .. MaxGen
      /\ desired \in Versions \cup {NoVersion}
      /\ mdbsh.st \in StatusType
    BY ResourceParts, BoundsAreNat DEF TypeOK
<1>00. NoTime \in NoTime .. MaxTime /\ 0 \in NoTime .. MaxTime
    BY MaxTimeNat DEF NoTime
<1>1. seed(o) \in Resource
    <2> DEFINE e == IF o.st.eff = NoVersion THEN desired ELSE o.st.eff
               v == IF o.st.version = NoVersion THEN e ELSE o.st.version
    <2>1. e \in Versions \cup {NoVersion} /\ v \in Versions \cup {NoVersion}
        BY <1>0, Zenon DEF StatusType
    <2>2. seed(o) = [o EXCEPT !.st = [o.st EXCEPT !.eff = e, !.version = v]]
        BY DEF seed
    <2> HIDE DEF e, v
    <2>3. [o.st EXCEPT !.eff = e, !.version = v] \in StatusType
        BY <1>0, <2>1, Zenon DEF StatusType
    <2> QED BY <2>2, <2>3, StatusWrite
<1>2. clearUpgrade(o) \in Resource
    <2>1. [o.st EXCEPT !.up = "", !.start = NoTime] \in StatusType
        BY <1>0, <1>00, Zenon DEF StatusType
    <2> QED BY <2>1, StatusWrite DEF clearUpgrade
<1>3. startUpgrade(o) \in Resource
    <2> DEFINE u == IF o.spec.backup THEN "BackingUp" ELSE "Upgrading"
               s == [o.st EXCEPT !.prev = mdbsh.st.version, !.eff = desired, !.rb = FALSE,
                                 !.start = 0, !.up = u]
    <2>1. u \in {"", "BackingUp", "Upgrading", "Validating", "RollingBack"}
          /\ mdbsh.st.version \in Versions \cup {NoVersion}
        BY <1>0, Zenon DEF StatusType
    <2> HIDE DEF u
    <2>2. s \in StatusType
        BY <1>0, <1>00, <2>1, ZenonT(30) DEF StatusType
    <2>3. startUpgrade(o) = [o EXCEPT !.st = s]
        BY Zenon DEF startUpgrade, u
    <2> QED BY <2>2, <2>3, StatusWrite
<1>4. completeUpgrade(o) \in Resource
    <2> DEFINE f == fcvMajorMinor(desired)
               s == [o.st EXCEPT !.version = desired, !.eff = desired, !.fcv = f, !.rb = FALSE,
                                 !.up = "", !.start = NoTime, !.upGen = o.gen]
    <2>1. f \in Nat
        BY <1>0, SpecFacts DEF fcvMajorMinor, MajorMinor, NoVersion
    <2> HIDE DEF f
    <2>2. s \in StatusType
        BY <1>0, <1>00, <2>1, Zenon DEF StatusType
    <2>3. completeUpgrade(o) = [o EXCEPT !.st = s]
        BY Zenon DEF completeUpgrade, f
    <2> QED BY <2>2, <2>3, StatusWrite
<1>5. giveUp(o) \in Resource
    <2>1. [o.st EXCEPT !.up = "", !.start = NoTime, !.upGen = o.gen] \in StatusType
        BY <1>0, <1>00, Zenon DEF StatusType
    <2> QED BY <2>1, StatusWrite DEF giveUp
<1>6. rollback(o) \in Resource
    <2>0. mdbsh.st.prev \in Versions \cup {NoVersion}
        BY <1>0, Zenon DEF StatusType
    <2>1. [o.st EXCEPT !.eff = mdbsh.st.prev, !.rb = TRUE, !.up = "", !.start = NoTime,
                       !.upGen = o.gen] \in StatusType
        BY <1>0, <1>00, <2>0, Zenon DEF StatusType
    <2> QED BY <2>1, StatusWrite DEF rollback
<1>7. setValidating(o) \in Resource
    <2> DEFINE t == IF o.st.start = NoTime THEN 0 ELSE o.st.start
    <2>0. t \in NoTime .. MaxTime
        BY <1>0, <1>00, Zenon DEF StatusType
    <2>1. setValidating(o) = [o EXCEPT !.st = [o.st EXCEPT !.up = "Validating", !.start = t]]
        BY DEF setValidating
    <2> HIDE DEF t
    <2>2. [o.st EXCEPT !.up = "Validating", !.start = t] \in StatusType
        BY <1>0, <2>0, Zenon DEF StatusType
    <2> QED BY <2>1, <2>2, StatusWrite
<1> QED BY <1>1, <1>2, <1>3, <1>4, <1>5, <1>6, <1>7

LEMMA ScalingClosures ==
    ASSUME TypeOK, NEW o \in Resource
    PROVE  /\ initializedSnapshot(o) \in Resource /\ addedSnapshot(o) \in Resource
           /\ observed(o) \in Resource
<1>0. o.st \in StatusType /\ o.gen \in 0 .. MaxGen /\ o.spec \in Specs /\ mdbsh.st \in StatusType
    BY ResourceParts, BoundsAreNat DEF TypeOK
<1>2. initializedSnapshot(o) \in Resource /\ addedSnapshot(o) \in Resource
    BY SnapshotTypes DEF TypeOK
<1>3. observed(o) \in Resource
    <2> DEFINE up == \A w \in Present(o) \cup {Cfg, Mongos} : wl[w].ready
               n == Cardinality(Present(o))
               p == IF up /\ n = o.spec.count THEN "Running" ELSE "Initializing"
               s == [o.st EXCEPT !.n = n, !.ready = up, !.gen = o.gen, !.phase = p]
    <2>1. n \in 0 .. MaxShards
        BY <1>0, PresentCount
    <2>2. p \in {"Pending", "Initializing", "Running", "Failed"} /\ up \in BOOLEAN
        OBVIOUS
    <2>3. observed(o) = [o EXCEPT !.st = s]
        BY Zenon DEF observed
    <2> HIDE DEF up, n, p
    <2>4. s \in StatusType
        BY <1>0, <2>1, <2>2, Zenon DEF StatusType
    <2> QED BY <2>3, <2>4, StatusWrite
<1> QED BY <1>2, <1>3

\* The inductive form implies TypeOK.
LEMMA TypeMeans == TInv => TypeOK
BY DEF TInv, PassOK, EnvOK, HistType, WorkloadType, ClusterType, BackupType, TypeOK

\* A fault spends one of the faults the run allows.
LEMMA FaultType ==
    ASSUME TInv, Fault
    PROVE  hist' \in HistType /\ hist'.faults # 0 /\ hist'.started = hist.started
<1> DEFINE f == hist.faults + 1
<1>1. f \in 0 .. MaxFaults /\ f # 0
    BY BoundsAreNat DEF TInv, Fault, HistType
<1>2. hist' = [hist EXCEPT !.faults = f]
    BY DEF Fault
<1> HIDE DEF f
<1> QED BY <1>1, <1>2 DEF TInv, HistType

\* The ways a step leaves the pass typed: a return, a failure, a write, and
\* no write at all.
LEMMA ReturnType == ASSUME obj' \in Resource, Return PROVE PassOK'
BY CreatedType, BoundsAreNat DEF Return, PassOK

LEMMA FailureType == ASSUME TInv, updateStatusError PROVE PassOK'
<1>1. setFailed(Base) \in Resource
    BY BaseType, SimpleClosures DEF TInv, PassOK
<1> QED BY <1>1, ReturnType DEF updateStatusError, WriteAndReturn

LEMMA WriteType ==
    ASSUME TInv, NEW o \in Resource, Write(o), UNCHANGED <<idx, desired>>, pc' # "Cleanup"
    PROVE  PassOK'
BY DEF TInv, PassOK, Write

LEMMA SilentType ==
    ASSUME TInv, UNCHANGED <<obj, fresh, idx, desired>>, mdbsh' \in Resource, pc' # "Cleanup"
    PROVE  PassOK'
BY DEF TInv, PassOK

\* The steps that decide about an upgrade leave the pass typed.
LEMMA UpgradeTypes ==
    ASSUME TInv,
           \/ Start \/ SetInitializing \/ Seed \/ NoUpgrade \/ NothingToDecide
           \/ StartUpgrade \/ BackingUp \/ CommitFCV \/ CompleteUpgrade \/ KeepValidating
           \/ ValidationTimedOut \/ RollBack \/ SetValidating
    PROVE  PassOK'
<1>0. TypeOK /\ obj \in Resource /\ mdbsh \in Resource /\ Base \in Resource
    BY TypeMeans, BaseType DEF TInv, PassOK
<1>1. CASE Start
    BY <1>0, <1>1 DEF Start, Goto, TInv, PassOK
<1>2. CASE SetInitializing
    <2>1. obj' \in Resource /\ mdbsh' \in Resource /\ fresh' \in BOOLEAN
        BY <1>0, <1>2, SimpleClosures, Zenon DEF SetInitializing, Write, TInv, PassOK
    <2>2. mdbsh'.spec.version \in Versions
        BY <2>1, ResourceParts, SpecFacts
    <2> QED BY <1>2, <2>1, <2>2 DEF SetInitializing, TInv, PassOK
<1>3. CASE Seed
    <2>1. CASE Write(seed(Base)) /\ Goto("Upgrade")
        BY <1>0, <2>1, UpgradeClosures, WriteType DEF Goto
    <2>2. CASE UNCHANGED <<obj, mdbsh, fresh>> /\ Goto("Upgrade")
        BY <1>0, <2>2, SilentType DEF Goto
    <2> QED BY <1>3, <2>1, <2>2 DEF Seed, WriteAndGoto
<1>4. CASE NoUpgrade
    <2>1. CASE Write(clearUpgrade(Base)) /\ Goto("Cfg")
        BY <1>0, <2>1, UpgradeClosures, WriteType DEF Goto
    <2>2. CASE UNCHANGED <<obj, mdbsh, fresh>> /\ Goto("Cfg")
        BY <1>0, <2>2, SilentType DEF Goto
    <2> QED BY <1>4, <2>1, <2>2, Zenon DEF NoUpgrade, WriteAndGoto
<1>5. CASE NothingToDecide \/ CommitFCV
    BY <1>0, <1>5, SilentType DEF NothingToDecide, CommitFCV, Goto
<1>6. CASE KeepValidating
    BY <1>0, <1>6, ReturnType DEF KeepValidating
<1>7. ASSUME NEW o \in Resource, WriteAndReturn(o) PROVE PassOK'
    BY <1>7, ReturnType DEF WriteAndReturn
<1>8. CASE StartUpgrade \/ CompleteUpgrade \/ SetValidating
    <2>1. startUpgrade(Base) \in Resource /\ completeUpgrade(Base) \in Resource /\ setValidating(Base) \in Resource
        BY <1>0, UpgradeClosures
    <2> QED BY <1>7, <1>8, <2>1, Zenon DEF StartUpgrade, CompleteUpgrade, SetValidating
<1>9. CASE ValidationTimedOut \/ RollBack
    <2>1. /\ initiateRollback(Base) \in Resource /\ giveUp(Base) \in Resource
          /\ clearUpgrade(Base) \in Resource /\ rollback(Base) \in Resource
        BY <1>0, SimpleClosures, UpgradeClosures
    <2> QED BY <1>7, <1>9, <2>1 DEF ValidationTimedOut, RollBack
<1>10. CASE BackingUp
    <2>1. backupDone(Base) \in Resource /\ clearUpgrade(Base) \in Resource
        BY <1>0, SimpleClosures, UpgradeClosures
    <2>2. obj' \in Resource
        BY <1>0, <1>10, <2>1 DEF BackingUp
    <2> QED BY <1>10, <2>2, ReturnType DEF BackingUp
<1> QED BY <1>1, <1>2, <1>3, <1>4, <1>5, <1>6, <1>8, <1>9, <1>10, Zenon

\* So do the steps that apply workloads and initiate replica sets.
LEMMA BootstrapTypes ==
    ASSUME TInv,
           \/ reconcileConfigServer \/ reconcileShard \/ reconcileMongos
           \/ reconcileConfigServerInit \/ reconcileShardsInit \/ WriteShardsInit
           \/ reconcileShardedAdminUser
    PROVE  PassOK'
<1>0. TypeOK /\ obj \in Resource /\ mdbsh \in Resource /\ Base \in Resource
    BY TypeMeans, BaseType DEF TInv, PassOK
<1>1. CASE reconcileConfigServer \/ reconcileShard \/ reconcileMongos
    <2>1. CASE UNCHANGED <<obj, mdbsh, fresh, idx, desired>> /\ pc' # "Cleanup"
        BY <1>0, <2>1, SilentType
    <2>2. CASE obj' = obj /\ Return
        BY <1>0, <2>2, ReturnType
    <2> QED
        BY <1>1, <2>1, <2>2 DEF reconcileConfigServer, reconcileShard, reconcileMongos, Goto
<1>2. CASE reconcileConfigServerInit
    <2>1. CASE updateStatusError
        BY <2>1, FailureType
    <2>2. CASE Write(setConfigServerInitialized(Base)) /\ Goto("ShardsInit")
        BY <1>0, <2>2, SimpleClosures, WriteType DEF Goto
    <2>3. CASE Goto("ShardsInit") /\ UNCHANGED <<obj, mdbsh, fresh>>
        BY <1>0, <2>3, SilentType DEF Goto
    <2> QED BY <1>2, <2>1, <2>2, <2>3 DEF reconcileConfigServerInit
<1>3. CASE reconcileShardsInit
    <2> DEFINE f == [i \in ShardIds |-> mdbsh.st.inited[i]
                        \/ (i \in Declared(mdbsh) /\ (Initiated(i) \/ AnonymousAdmin))]
    <2>1. mdbsh' = [mdbsh EXCEPT !.st = [mdbsh.st EXCEPT !.inited = f]]
        BY <1>3 DEF reconcileShardsInit
    <2>2. f \in [ShardIds -> BOOLEAN] /\ mdbsh.st \in StatusType
        BY <1>0, ResourceParts
    <2> HIDE DEF f
    <2>3. [mdbsh.st EXCEPT !.inited = f] \in StatusType
        BY <2>2, Zenon DEF StatusType
    <2>4. mdbsh' \in Resource
        BY <1>0, <2>1, <2>3, StatusWrite
    <2> QED BY <1>3, <2>4, SilentType DEF reconcileShardsInit, Goto
<1>4. CASE WriteShardsInit
    <2>1. initializedSnapshot(Base) \in Resource /\ setFailed(initializedSnapshot(Base)) \in Resource
        BY <1>0, ScalingClosures, SimpleClosures
    <2>2. CASE WriteAndGoto(initializedSnapshot(Base), "Admin")
        BY <2>1, <2>2, WriteType DEF WriteAndGoto, Goto
    <2>3. CASE WriteAndReturn(setFailed(initializedSnapshot(Base)))
        BY <2>1, <2>3, ReturnType DEF WriteAndReturn
    <2> QED BY <1>4, <2>2, <2>3 DEF WriteShardsInit
<1>5. CASE reconcileShardedAdminUser
    <2>1. CASE UNCHANGED obj /\ Return
        BY <1>0, <2>1, ReturnType
    <2>2. CASE updateStatusError
        BY <2>2, FailureType
    <2>3. CASE /\ IF mdbsh.st.admin THEN UNCHANGED <<obj, mdbsh, fresh>>
                                    ELSE Write(setAdminUserCreated(Base))
               /\ pc' = "ScaleIn" /\ idx' = mdbsh'.spec.count /\ UNCHANGED desired
        <3>1. obj' \in Resource /\ mdbsh' \in Resource /\ fresh' \in BOOLEAN
            BY <1>0, <2>3, SimpleClosures, Zenon DEF Write, TInv, PassOK
        <3>2. mdbsh'.spec.count \in 0 .. MaxShards
            BY <3>1, ResourceParts, SpecFacts, BoundsAreNat
        <3> QED BY <2>3, <3>1, <3>2 DEF TInv, PassOK
    <2> QED BY <1>5, <2>1, <2>2, <2>3 DEF reconcileShardedAdminUser
<1> QED BY <1>1, <1>2, <1>3, <1>4, <1>5

\* So do the steps that scale, add shards, shard collections and report.
LEMMA ScalingTypes ==
    ASSUME TInv,
           \/ NoScaleIn \/ reconcileScaleIn \/ cleanupShardResources
           \/ reconcileAddShards \/ WriteAddShards \/ reconcileShardedCollections \/ updateStatus
    PROVE  PassOK'
<1>0. /\ TypeOK /\ obj \in Resource /\ mdbsh \in Resource /\ Base \in Resource
      /\ mdbsh.st \in StatusType /\ fresh \in BOOLEAN /\ desired \in Versions \cup {NoVersion}
    BY TypeMeans, BaseType, ResourceParts DEF TInv, PassOK
<1>1. CASE NoScaleIn
    BY <1>0, <1>1, BoundsAreNat DEF NoScaleIn, PassOK
<1>2. CASE reconcileScaleIn
    <2>1. CASE updateStatusError
        BY <2>1, FailureType
    <2>2. CASE Goto("Cleanup") /\ UNCHANGED <<obj, mdbsh, fresh>>
        BY <1>0, <1>2, <2>2 DEF reconcileScaleIn, Goto, TInv, PassOK
    <2>3. CASE UNCHANGED obj /\ Return
        BY <1>0, <2>3, ReturnType
    <2> QED BY <1>2, <2>1, <2>2, <2>3 DEF reconcileScaleIn
<1>3. CASE cleanupShardResources
    <2> DEFINE a == [mdbsh.st.added EXCEPT ![idx] = FALSE]
               b == [mdbsh.st.inited EXCEPT ![idx] = FALSE]
               e == [mdbsh.st EXCEPT !.added = a]
    <2>1. a \in [ShardIds -> BOOLEAN] /\ b \in [ShardIds -> BOOLEAN]
        BY <1>0, Zenon DEF StatusType
    <2>2. mdbsh.st.n \in 0 .. MaxShards
        BY <1>0, Zenon DEF StatusType
    <2>3. idx + 1 \in 0 .. MaxShards
        BY <1>3, <2>2, BoundsAreNat DEF cleanupShardResources, RunningAt, TInv, PassOK
    <2>4. e \in StatusType /\ e.inited = mdbsh.st.inited
        <3> HIDE DEF a
        <3> QED BY <1>0, <2>1, Zenon DEF StatusType
    <2>5. mdbsh' = [mdbsh EXCEPT !.st = [e EXCEPT !.inited = b]]
        <3>1. mdbsh' = [mdbsh EXCEPT !.st = [e EXCEPT !.inited = [e.inited EXCEPT ![idx] = FALSE]]]
            BY <1>3, Zenon DEF cleanupShardResources
        <3> HIDE DEF e
        <3> QED BY <2>4, <3>1
    <2>6. [e EXCEPT !.inited = b] \in StatusType
        <3> HIDE DEF a, b, e
        <3> QED BY <2>1, <2>4, Zenon DEF StatusType
    <2>7. mdbsh' \in Resource
        BY <1>0, <2>5, <2>6, StatusWrite
    <2> QED BY <1>0, <1>3, <2>3, <2>7 DEF cleanupShardResources, PassOK
<1>4. CASE reconcileAddShards
    <2>1. CASE UNCHANGED mdbsh
        BY <1>0, <1>4, <2>1, SilentType DEF reconcileAddShards, Goto
    <2>2. CASE mdbsh' # mdbsh
        <3> DEFINE f == [i \in ShardIds |-> mdbsh.st.added[i] \/ i \in ToAdd]
        <3>1. mdbsh' = [mdbsh EXCEPT !.st = [mdbsh.st EXCEPT !.added = f]]
            BY <1>4, <2>2 DEF reconcileAddShards
        <3>2. f \in [ShardIds -> BOOLEAN]
            OBVIOUS
        <3> HIDE DEF f
        <3>3. [mdbsh.st EXCEPT !.added = f] \in StatusType
            BY <1>0, <3>2, Zenon DEF StatusType
        <3>4. mdbsh' \in Resource
            BY <1>0, <3>1, <3>3, StatusWrite
        <3> QED BY <1>4, <3>4, SilentType DEF reconcileAddShards, Goto
    <2> QED BY <2>1, <2>2
<1>5. CASE WriteAddShards
    <2>1. addedSnapshot(Base) \in Resource /\ setFailed(addedSnapshot(Base)) \in Resource
        BY <1>0, ScalingClosures, SimpleClosures
    <2>2. CASE WriteAndGoto(addedSnapshot(Base), "Collections")
        BY <2>1, <2>2, WriteType DEF WriteAndGoto, Goto
    <2>3. CASE WriteAndReturn(setFailed(addedSnapshot(Base)))
        BY <2>1, <2>3, ReturnType DEF WriteAndReturn
    <2> QED BY <1>5, <2>2, <2>3 DEF WriteAddShards
<1>6. CASE reconcileShardedCollections
    <2>1. \/ Return
          \/ Goto("Status") /\ fresh' = fresh
             /\ \E d \in BOOLEAN : mdbsh' = [mdbsh EXCEPT !.st = [mdbsh.st EXCEPT !.drift = d]]
        BY <1>6, Zenon DEF reconcileShardedCollections
    <2>2. obj' = obj
        BY <1>6 DEF reconcileShardedCollections
    <2>3. CASE Return
        BY <1>0, <2>2, <2>3, ReturnType
    <2>4. ASSUME NEW d \in BOOLEAN, mdbsh' = [mdbsh EXCEPT !.st = [mdbsh.st EXCEPT !.drift = d]],
                 Goto("Status"), fresh' = fresh
          PROVE  PassOK'
        <3>1. [mdbsh.st EXCEPT !.drift = d] \in StatusType
            BY <1>0, <2>4, Zenon DEF StatusType
        <3>2. mdbsh' \in Resource
            BY <1>0, <2>4, <3>1, StatusWrite
        <3> QED BY <2>2, <2>4, <3>2, SilentType DEF Goto
    <2> QED BY <2>1, <2>3, <2>4
<1>7. CASE updateStatus
    <2>1. observed(Base) \in Resource /\ setObserved(obj) \in Resource
        BY <1>0, ScalingClosures, SimpleClosures
    <2>2. obj' \in Resource
        BY <1>7, <2>1 DEF updateStatus, WriteAndReturn
    <2> QED BY <1>7, <2>2, ReturnType DEF updateStatus, WriteAndReturn
<1> QED BY <1>1, <1>2, <1>3, <1>4, <1>5, <1>6, <1>7

\* So does everything outside a pass, and a crash in one.
LEMMA OutsideTypes ==
    ASSUME TInv,
           \/ Faults \/ Pods \/ Balancer \/ BackupController \/ Tick \/ AppCreatesCollection
           \/ Touch \/ (\E i \in ShardIds : AppWrites(i)) \/ (\E s \in Specs : EditSpec(s))
           \/ UNCHANGED vars
    PROVE  PassOK'
<1>0. TypeOK /\ obj \in Resource /\ mdbsh \in Resource /\ obj.st \in StatusType
    BY TypeMeans, ResourceParts DEF TInv, PassOK
<1>1. ASSUME UNCHANGED <<mdbsh, pc, idx, desired>>, obj' \in Resource, fresh' \in BOOLEAN
      PROVE  PassOK'
    BY <1>1 DEF TInv, PassOK
<1>2. CASE UNCHANGED <<obj, fresh, mdbsh, pc, idx, desired>>
    BY <1>0, <1>1, <1>2 DEF TInv, PassOK
<1>3. CASE Faults
    <2>1. CASE updateStatusError
        BY <2>1, FailureType
    <2>2. CASE UNCHANGED obj /\ Return
        BY <1>0, <2>2, ReturnType
    <2> QED
        BY <1>2, <1>3, <2>1, <2>2 DEF Faults, CleanupFails, CallFails, Crash, PodDown
<1>4. CASE Tick
    <2> DEFINE t == obj.st.start + 1
    <2>1. t \in NoTime .. MaxTime
        <3>1. obj.st.start \in NoTime .. MaxTime
            BY <1>0, Zenon DEF StatusType
        <3>2. obj.st.start # NoTime /\ obj.st.start < MaxTime
            BY <1>4 DEF Tick
        <3> QED BY <3>1, <3>2, MaxTimeNat DEF NoTime
    <2>2. obj' = [obj EXCEPT !.st = [obj.st EXCEPT !.start = t]]
        BY <1>4 DEF Tick
    <2> HIDE DEF t
    <2>3. [obj.st EXCEPT !.start = t] \in StatusType
        BY <1>0, <2>1, Zenon DEF StatusType
    <2>4. obj' \in Resource
        BY <1>0, <2>2, <2>3, StatusWrite
    <2> QED BY <1>1, <1>4, <2>4 DEF Tick, TInv, PassOK
<1>5. ASSUME NEW s \in Specs, EditSpec(s) PROVE PassOK'
    <2> DEFINE g == obj.gen + 1
    <2>1. g \in 1 .. MaxGen
        <3>1. obj.gen \in 1 .. MaxGen
            BY <1>0, ResourceParts
        <3>2. obj.gen < MaxGen
            BY <1>5, Zenon DEF EditSpec
        <3> QED BY <3>1, <3>2, BoundsAreNat
    <2>2. obj' = [obj EXCEPT !.spec = s, !.gen = g]
        BY <1>5, Zenon DEF EditSpec
    <2> HIDE DEF g
    <2>3. obj' \in Resource
        BY <1>0, <2>1, <2>2, Zenon DEF Resource
    <2>4. fresh' \in BOOLEAN
        <3>1. fresh' = (pc = "Idle")
            BY <1>5, Zenon DEF EditSpec, RunningAt
        <3> QED BY <3>1, Zenon
    <2> QED BY <1>1, <1>5, <2>3, <2>4, Zenon DEF EditSpec
<1>6. CASE Touch
    BY <1>0, <1>1, <1>6, Zenon DEF Touch
<1>7. CASE \/ Pods \/ Balancer \/ BackupController \/ AppCreatesCollection
           \/ (\E i \in ShardIds : AppWrites(i)) \/ UNCHANGED vars
    BY <1>2, <1>7, Zenon DEF Pods, Roll, PodReady, Balancer, Balance, BackupController, BackupEnds,
       AppCreatesCollection, AppWrites, vars
<1> QED BY <1>3, <1>4, <1>5, <1>6, <1>7

\* So does every step.
LEMMA PassTypes == ASSUME TInv, [Next]_vars PROVE PassOK'
BY UpgradeTypes, BootstrapTypes, ScalingTypes, OutsideTypes DEF Next, Reconcile

\* The history, the workloads, the MongoDB cluster, the autoscaler and the
\* backups stay typed.
LEMMA HistTypes ==
    ASSUME TInv, [Next]_vars
    PROVE  hist' \in HistType /\ (StartUpgrade \/ hist'.started = hist.started)
<1>0. hist \in HistType
    BY DEF TInv
<1>1. CASE UNCHANGED hist
    BY <1>0, <1>1
<1>2. CASE Fault
    BY <1>2, FaultType
<1>3. CASE StartUpgrade
    <2> DEFINE S == hist.started \cup {mdbsh.gen}
    <2>1. S \in SUBSET (1 .. MaxGen)
        BY <1>0, ResourceParts DEF HistType, TInv, PassOK
    <2>2. hist' = [hist EXCEPT !.started = S]
        BY <1>3, Zenon DEF StartUpgrade
    <2> HIDE DEF S
    <2> QED BY <1>0, <1>3, <2>1, <2>2, Zenon DEF HistType
<1>4. CASE Touch
    <2> DEFINE n == hist.touches + 1
    <2>1. n \in 0 .. MaxTouches
        BY <1>0, <1>4, BoundsAreNat DEF Touch, HistType
    <2>2. hist' = [hist EXCEPT !.touches = n]
        BY <1>4 DEF Touch
    <2> HIDE DEF n
    <2> QED BY <1>0, <2>1, <2>2, Zenon DEF HistType
<1>5. ASSUME NEW w \in Workloads, PodReady(w)
      PROVE  hist' \in HistType /\ hist'.started = hist.started
    <2>1. CASE hist' # hist
        <3> DEFINE n == hist.flakes + 1
        <3>1. n \in 0 .. MaxFlakes
            BY <1>0, <1>5, <2>1, BoundsAreNat DEF PodReady, HistType
        <3>2. hist' = [hist EXCEPT !.flakes = n]
            BY <1>5, <2>1 DEF PodReady
        <3> HIDE DEF n
        <3> QED BY <1>0, <3>1, <3>2, Zenon DEF HistType
    <2> QED BY <1>1, <2>1
<1>6. ASSUME NEW s \in Specs, EditSpec(s)
      PROVE  hist' \in HistType /\ hist'.started = hist.started
    <2> DEFINE n == IF RunningAt("Idle") THEN hist.touches ELSE hist.touches + 1
               d == hist.deep \/ Deep(s)
               h == hist.hasty \/ Hasty(s)
    <2>1. n \in 0 .. MaxTouches
        BY <1>0, <1>6, BoundsAreNat DEF EditSpec, HistType
    <2>2. hist' = [hist EXCEPT !.touches = n, !.deep = d, !.hasty = h]
        <3>1. hist = [faults |-> hist.faults, touches |-> hist.touches, flakes |-> hist.flakes,
                      started |-> hist.started, deep |-> hist.deep, hasty |-> hist.hasty]
            BY <1>0 DEF HistType
        <3> QED BY <1>6, <3>1 DEF EditSpec
    <2>3. d \in BOOLEAN /\ h \in BOOLEAN
        OBVIOUS
    <2> HIDE DEF n, d, h
    <2> QED BY <1>0, <2>1, <2>2, <2>3, Zenon DEF HistType
<1>7. CASE \/ Reconcile /\ ~StartUpgrade
           \/ Balancer \/ BackupController \/ Tick \/ AppCreatesCollection
           \/ (\E i \in ShardIds : AppWrites(i)) \/ (\E w \in Workloads : Roll(w)) \/ UNCHANGED vars
    <2>1. UNCHANGED hist
        BY <1>7, PassKeepsHist, Zenon DEF Balancer, Balance, BackupController, BackupEnds, Tick,
           AppCreatesCollection, AppWrites, Roll, vars
    <2> QED BY <1>1, <2>1
<1> QED
    BY <1>2, <1>3, <1>4, <1>5, <1>6, <1>7
    DEF Next, Faults, Pods, CleanupFails, CallFails, Crash, PodDown

LEMMA WorkloadsTyped == ASSUME TInv, [Next]_vars PROVE wl' \in [Workloads -> WorkloadType]
<1>0. wl \in [Workloads -> WorkloadType]
    BY DEF TInv, EnvOK
<1>1. CASE UNCHANGED wl
    BY <1>0, <1>1
<1>2. ASSUME NEW W, Apply(W) PROVE wl' \in [Workloads -> WorkloadType]
    <2>1. mdbsh.st.eff \in Versions \cup {NoVersion}
        BY ResourceParts, Zenon DEF TInv, PassOK, StatusType
    <2>2. ASSUME NEW w \in Workloads PROVE [wl[w] EXCEPT !.t = mdbsh.st.eff] \in WorkloadType
        BY <1>0, <2>1 DEF WorkloadType
    <2> QED BY <1>0, <1>2, <2>2 DEF Apply
<1>3. CASE wl' = [wl EXCEPT ![idx] = NoWorkload]
    BY <1>0, <1>3, Zenon DEF NoWorkload, WorkloadType
<1>4. ASSUME NEW w \in Workloads, NEW b \in BOOLEAN, wl' = [wl EXCEPT ![w].ready = b]
      PROVE  wl' \in [Workloads -> WorkloadType]
    <2>1. [wl[w] EXCEPT !.ready = b] \in WorkloadType
        BY <1>0, <1>4 DEF WorkloadType
    <2> QED BY <1>0, <1>4, <2>1
<1>5. ASSUME NEW w \in Workloads, Roll(w) PROVE wl' \in [Workloads -> WorkloadType]
    <2> DEFINE e == [wl[w] EXCEPT !.v = wl[w].t]
    <2>1. wl[w] \in WorkloadType /\ wl[w].t \in Versions \cup {NoVersion}
        BY <1>0 DEF WorkloadType
    <2>2. e \in WorkloadType
        BY <2>1, Zenon DEF WorkloadType
    <2>3. [e EXCEPT !.ready = FALSE] \in WorkloadType
        <3> HIDE DEF e
        <3> QED BY <2>2, Zenon DEF WorkloadType
    <2>4. wl' = [wl EXCEPT ![w] = [e EXCEPT !.ready = FALSE]]
        <3>1. /\ wl[w].t # wl[w].v
              /\ wl' = [[wl EXCEPT ![w] = e] EXCEPT ![w] = [[wl EXCEPT ![w] = e][w] EXCEPT !.ready = FALSE]]
            BY <1>5, Zenon DEF Roll
        <3> HIDE DEF e
        <3>2. [wl EXCEPT ![w] = e][w] = e
            BY <1>0
        <3> QED BY <1>0, <3>1, <3>2, Zenon
    <2> HIDE DEF e
    <2> QED BY <1>0, <2>3, <2>4
<1>6. CASE UNCHANGED vars
    BY <1>1, <1>6 DEF vars
<1>7. CASE reconcileConfigServer \/ reconcileShard \/ reconcileMongos
    BY <1>1, <1>2, <1>7 DEF reconcileConfigServer, reconcileShard, reconcileMongos
<1>8. CASE cleanupShardResources \/ CleanupFails
    BY <1>1, <1>3, <1>8 DEF cleanupShardResources, CleanupFails
<1>9. ASSUME NEW w \in Workloads, PodReady(w) \/ PodDown(w)
      PROVE  wl' \in [Workloads -> WorkloadType]
    BY <1>4, <1>9, Zenon DEF PodReady, PodDown
<1>10. CASE \/ Start \/ SetInitializing \/ Seed \/ NoUpgrade \/ NothingToDecide
    BY <1>1, <1>10, Zenon DEF Start, SetInitializing, Seed, NoUpgrade, NothingToDecide, env,
       WriteAndGoto
<1>11. CASE \/ StartUpgrade \/ BackingUp \/ CommitFCV \/ CompleteUpgrade \/ KeepValidating
            \/ ValidationTimedOut \/ RollBack \/ SetValidating
    BY <1>1, <1>11, Zenon DEF StartUpgrade, BackingUp, CommitFCV, CompleteUpgrade, KeepValidating,
       ValidationTimedOut, RollBack, SetValidating, env
<1>12. CASE \/ reconcileConfigServerInit \/ reconcileShardsInit \/ reconcileShardedAdminUser
            \/ NoScaleIn \/ reconcileScaleIn \/ reconcileAddShards \/ reconcileShardedCollections
            \/ updateStatus \/ CallFails \/ Crash
    BY <1>1, <1>12, Zenon DEF reconcileConfigServerInit, reconcileShardsInit,
       reconcileShardedAdminUser, NoScaleIn, reconcileScaleIn, reconcileAddShards,
       reconcileShardedCollections, updateStatus, CallFails, Crash, env
<1>13. CASE WriteShardsInit \/ WriteAddShards
    BY <1>1, <1>13, Zenon DEF WriteShardsInit, WriteAddShards, WriteAndGoto, env
<1>14. CASE \/ Balancer \/ BackupController \/ Tick \/ AppCreatesCollection \/ Touch
            \/ (\E i \in ShardIds : AppWrites(i)) \/ (\E s \in Specs : EditSpec(s))
    BY <1>1, <1>14, Zenon DEF Balancer, Balance, BackupController, BackupEnds, Tick,
       AppCreatesCollection, Touch, AppWrites, EditSpec, env
<1> QED
    BY <1>5, <1>6, <1>7, <1>8, <1>9, <1>10, <1>11, <1>12, <1>13, <1>14, Zenon
    DEF Next, Reconcile, Faults, Pods

\* A write of one field of the MongoDB cluster keeps its type.
LEMMA ClusterWrite ==
    ASSUME NEW c \in ClusterType
    PROVE  /\ \A x \in [ShardIds -> {"absent", "active", "draining"}] : [c EXCEPT !.shard = x] \in ClusterType
           /\ \A x \in SUBSET ShardIds : [c EXCEPT !.data = x] \in ClusterType
           /\ \A x \in [ShardIds \cup {Cfg} -> {"none", "rs", "shard"}] : [c EXCEPT !.store = x] \in ClusterType
           /\ \A x \in BOOLEAN : [c EXCEPT !.admin = x] \in ClusterType
           /\ \A x \in {"missing", "plain"} \cup Keys : [c EXCEPT !.coll = x] \in ClusterType
           /\ \A x \in Nat : [c EXCEPT !.fcv = x] \in ClusterType
BY Zenon DEF ClusterType

LEMMA ClusterTyped == ASSUME TInv, [Next]_vars PROVE mongo' \in ClusterType
<1>0. /\ mongo \in ClusterType /\ wl \in [Workloads -> WorkloadType] /\ Cfg \in Workloads
      /\ desired \in Versions \cup {NoVersion}
      /\ mdbsh.spec \in Specs
    BY ResourceParts DEF TInv, EnvOK, PassOK, Workloads
<1>00. \A w \in Workloads : MajorMinor(wl[w].v) \in Nat
    BY <1>0, MinorIsNat DEF WorkloadType
<1>1. CASE UNCHANGED mongo
    BY <1>0, <1>1
<1>2. CASE CommitFCV
    <2>1. fcvMajorMinor(desired) \in Nat
        BY <1>0, MinorIsNat
    <2> QED BY <1>0, <1>2, <2>1, ClusterWrite DEF CommitFCV, commitShardedFCV
<1>3. ASSUME NEW W, Initiate(W) PROVE mongo' \in ClusterType
    <2> DEFINE new == {w \in W : AnonymousAdmin /\ ~ Initiated(w)}
               x == [w \in DOMAIN mongo.store |-> IF w \in new THEN "rs" ELSE mongo.store[w]]
               c == [mongo EXCEPT !.store = x]
               f == IF Cfg \in new THEN MajorMinor(wl[Cfg].v) ELSE mongo.fcv
    <2>1. x \in [ShardIds \cup {Cfg} -> {"none", "rs", "shard"}] /\ f \in Nat
        BY <1>0, <1>00, ClusterParts
    <2>2. mongo' = [c EXCEPT !.fcv = f]
        <3>1. c.fcv = mongo.fcv
            <4> HIDE DEF x
            <4> QED BY <1>0 DEF ClusterType
        <3>2. mongo' = [c EXCEPT !.fcv = IF Cfg \in new THEN MajorMinor(wl[Cfg].v) ELSE c.fcv]
            BY <1>3, Zenon DEF Initiate
        <3> HIDE DEF c, new
        <3> QED BY <3>1, <3>2
    <2> HIDE DEF x, f
    <2>3. c \in ClusterType
        BY <1>0, <2>1, ClusterWrite, Zenon
    <2> HIDE DEF c
    <2> QED BY <2>1, <2>2, <2>3, ClusterWrite, Zenon
<1>4. CASE reconcileConfigServerInit \/ reconcileShardsInit
    BY <1>1, <1>3, <1>4 DEF reconcileConfigServerInit, reconcileShardsInit
<1>5. CASE reconcileScaleIn
    <2> DEFINE x == [mongo.shard EXCEPT ![idx] = ShardAfterRemove(idx)]
    <2>1. x \in [ShardIds -> {"absent", "active", "draining"}]
        BY <1>0, ClusterParts, Zenon DEF ShardAfterRemove
    <2>2. mongo' = [mongo EXCEPT !.shard = x]
        BY <1>5, Zenon DEF reconcileScaleIn
    <2> HIDE DEF x
    <2> QED BY <1>0, <2>1, <2>2, ClusterWrite
<1>6. CASE cleanupShardResources
    <2> DEFINE x == [mongo.store EXCEPT ![idx] = "none"]
    <2>1. x \in [ShardIds \cup {Cfg} -> {"none", "rs", "shard"}]
        BY <1>0, ClusterParts, Zenon
    <2>2. mongo' = [mongo EXCEPT !.store = x]
        BY <1>6, Zenon DEF cleanupShardResources
    <2> HIDE DEF x
    <2> QED BY <1>0, <2>1, <2>2, ClusterWrite, Zenon
<1>7. CASE reconcileAddShards
    <2> DEFINE x == [i \in ShardIds |-> IF i \in ToAdd /\ mongo.shard[i] = "absent" THEN "active" ELSE mongo.shard[i]]
               y == [w \in DOMAIN mongo.store |-> IF w \in ToAdd THEN "shard" ELSE mongo.store[w]]
               c == [mongo EXCEPT !.shard = x]
    <2>1. /\ x \in [ShardIds -> {"absent", "active", "draining"}]
          /\ y \in [ShardIds \cup {Cfg} -> {"none", "rs", "shard"}]
        BY <1>0, ClusterParts
    <2>2. mongo' = mongo \/ mongo' = [c EXCEPT !.store = y]
        <3>1. c.store = mongo.store
            <4> HIDE DEF x
            <4> QED BY <1>0 DEF ClusterType
        <3>2. \/ mongo' = mongo
              \/ mongo' = [c EXCEPT !.store = [w \in DOMAIN c.store |-> IF w \in ToAdd THEN "shard" ELSE c.store[w]]]
            BY <1>7, Zenon DEF reconcileAddShards
        <3> HIDE DEF c
        <3> QED BY <3>1, <3>2
    <2> HIDE DEF x, y
    <2>3. c \in ClusterType
        BY <1>0, <2>1, ClusterWrite
    <2> HIDE DEF c
    <2> QED BY <1>0, <2>1, <2>2, <2>3, ClusterWrite, Zenon
<1>8. CASE reconcileShardedCollections
    <2> DEFINE k == mdbsh.spec.key
               x == IF mongo.coll = "plain" THEN k ELSE mongo.coll
    <2>1. mongo' = mongo \/ (k # NoKey /\ mongo' = [mongo EXCEPT !.coll = x])
        BY <1>8 DEF reconcileShardedCollections
    <2>2. k # NoKey => k \in Keys
        BY <1>0, SpecsAreTyped DEF SpecType
    <2>3. k # NoKey => x \in {"missing", "plain"} \cup Keys
        BY <1>0, <2>2, ClusterParts
    <2> HIDE DEF k, x
    <2> QED BY <1>0, <2>1, <2>3, ClusterWrite
<1>9. ASSUME NEW w \in Workloads, PodReady(w), mongo' # mongo PROVE mongo' \in ClusterType
    <2> DEFINE x == [mongo.store EXCEPT ![w] = "rs"]
               c == [mongo EXCEPT !.store = x]
               d == [c EXCEPT !.admin = mongo.admin \/ w = Cfg]
               f == IF w = Cfg THEN MajorMinor(wl[w].v) ELSE mongo.fcv
    <2>1. x \in [ShardIds \cup {Cfg} -> {"none", "rs", "shard"}] /\ f \in Nat
        BY <1>0, <1>00, ClusterParts, Zenon
    <2>2. c \in ClusterType /\ c.fcv = mongo.fcv /\ c.admin = mongo.admin
        <3> HIDE DEF x
        <3> QED BY <1>0, <2>1, ClusterWrite, Zenon DEF ClusterType
    <2>3. d \in ClusterType /\ d.fcv = mongo.fcv
        <3>1. (mongo.admin \/ w = Cfg) \in BOOLEAN
            OBVIOUS
        <3> HIDE DEF c
        <3>2. d \in ClusterType
            BY <2>2, <3>1, ClusterWrite, Zenon
        <3>3. d.fcv = c.fcv
            BY <2>2, Zenon DEF ClusterType
        <3> QED BY <2>2, <3>2, <3>3
    <2>4. mongo' = [d EXCEPT !.fcv = f]
        <3> DEFINE g == [c EXCEPT !.admin = c.admin \/ w = Cfg]
        <3>1. mongo' = [g EXCEPT !.fcv = IF w = Cfg THEN MajorMinor(wl[w].v) ELSE g.fcv]
            BY <1>9, Zenon DEF PodReady
        <3>2. g = d
            <4> HIDE DEF c
            <4> QED BY <2>2
        <3> HIDE DEF g, d
        <3> QED BY <2>3, <3>1, <3>2
    <2> HIDE DEF d, f
    <2> QED BY <2>1, <2>3, <2>4, ClusterWrite
<1>10. CASE Balancer
    <2> PICK i \in ShardIds, j \in ShardIds : Balance(i, j)
        BY <1>10 DEF Balancer
    <2> DEFINE x == (mongo.data \ {i}) \cup {j}
    <2>1. x \in SUBSET ShardIds
        BY <1>0, ClusterParts
    <2>2. mongo' = [mongo EXCEPT !.data = x]
        BY Zenon DEF Balance
    <2> HIDE DEF x
    <2> QED BY <1>0, <2>1, <2>2, ClusterWrite
<1>11. ASSUME NEW i \in ShardIds, AppWrites(i) PROVE mongo' \in ClusterType
    <2> DEFINE x == mongo.data \cup {i}
    <2>1. x \in SUBSET ShardIds
        BY <1>0, ClusterParts
    <2>2. mongo' = [mongo EXCEPT !.data = x]
        BY <1>11, Zenon DEF AppWrites
    <2> HIDE DEF x
    <2> QED BY <1>0, <2>1, <2>2, ClusterWrite
<1>12. CASE AppCreatesCollection
    BY <1>0, <1>12, ClusterWrite DEF AppCreatesCollection
<1>13. CASE \/ Start \/ SetInitializing \/ Seed \/ NoUpgrade \/ NothingToDecide
            \/ StartUpgrade \/ BackingUp \/ CompleteUpgrade \/ KeepValidating
    BY <1>1, <1>13, Zenon DEF Start, SetInitializing, Seed, NoUpgrade, NothingToDecide, env,
       WriteAndGoto, StartUpgrade, BackingUp, CompleteUpgrade, KeepValidating
<1>14. CASE \/ ValidationTimedOut \/ RollBack \/ SetValidating
            \/ reconcileConfigServer \/ reconcileShard \/ reconcileMongos
    BY <1>1, <1>14, Zenon DEF reconcileConfigServer, reconcileShard, reconcileMongos,
       ValidationTimedOut, RollBack, SetValidating, env
<1>15. CASE WriteShardsInit \/ WriteAddShards
    BY <1>1, <1>15, Zenon DEF WriteShardsInit, WriteAddShards, WriteAndGoto, env
<1>16. CASE reconcileShardedAdminUser \/ NoScaleIn \/ updateStatus \/ CallFails \/ Crash \/ CleanupFails
    BY <1>1, <1>16, Zenon DEF reconcileShardedAdminUser, NoScaleIn, updateStatus, CallFails, Crash,
       CleanupFails, env
<1>17. CASE \/ BackupController \/ Tick \/ Touch \/ (\E s \in Specs : EditSpec(s)) \/ UNCHANGED vars
            \/ (\E w \in Workloads : Roll(w) \/ PodDown(w))
    BY <1>1, <1>17, Zenon DEF BackupController, BackupEnds, Tick, Touch, EditSpec, env, vars,
       Roll, PodDown
<1> QED
    BY <1>1, <1>2, <1>4, <1>5, <1>6, <1>7, <1>8, <1>9, <1>10, <1>11, <1>12, <1>13, <1>14, <1>15,
       <1>16, <1>17, SMTT(30)
    DEF Next, Reconcile, Faults, Pods

LEMMA RestTyped ==
    ASSUME TInv, [Next]_vars
    PROVE  /\ hpa' \in BOOLEAN /\ backups' \in BackupType
           /\ \A v \in Versions : backups[v] = "Failed" => backups'[v] = "Failed"
<1>0. hpa \in BOOLEAN /\ backups \in BackupType /\ mdbsh.spec \in Specs
    BY ResourceParts DEF TInv, EnvOK, PassOK
<1>1. CASE UNCHANGED <<hpa, backups>>
    BY <1>0, <1>1
<1>2. CASE updateStatus
    <2>1. mdbsh.spec.hpa \in BOOLEAN
        BY <1>0, SpecsAreTyped DEF SpecType
    <2> QED BY <1>0, <1>2, <2>1 DEF updateStatus
<1>3. CASE BackingUp
    BY <1>0, <1>3, Zenon DEF BackingUp, BackupType
<1>4. CASE BackupController
    BY <1>0, <1>4 DEF BackupController, BackupEnds, BackupType
<1>5. CASE \/ Start \/ SetInitializing \/ Seed \/ NoUpgrade \/ NothingToDecide
           \/ StartUpgrade \/ CommitFCV \/ CompleteUpgrade \/ KeepValidating
    BY <1>1, <1>5, Zenon DEF Start, SetInitializing, Seed, NoUpgrade, NothingToDecide, env,
       WriteAndGoto, StartUpgrade, CommitFCV, CompleteUpgrade, KeepValidating
<1>6. CASE \/ ValidationTimedOut \/ RollBack \/ SetValidating
           \/ reconcileConfigServer \/ reconcileShard \/ reconcileMongos
    BY <1>1, <1>6, Zenon DEF reconcileConfigServer, reconcileShard, reconcileMongos,
       ValidationTimedOut, RollBack, SetValidating, env
<1>7. CASE WriteShardsInit \/ WriteAddShards
    BY <1>1, <1>7, Zenon DEF WriteShardsInit, WriteAddShards, WriteAndGoto, env
<1>8. CASE \/ reconcileShardedAdminUser \/ NoScaleIn \/ CallFails \/ Crash \/ CleanupFails
           \/ reconcileConfigServerInit \/ reconcileShardsInit
    BY <1>1, <1>8, Zenon DEF reconcileShardedAdminUser, NoScaleIn, CallFails, Crash,
       CleanupFails, reconcileConfigServerInit, reconcileShardsInit, env
<1>9. CASE \/ reconcileScaleIn \/ cleanupShardResources \/ reconcileAddShards
           \/ reconcileShardedCollections
    BY <1>1, <1>9, Zenon DEF reconcileScaleIn, cleanupShardResources, reconcileAddShards,
       reconcileShardedCollections
<1>10. CASE \/ Pods \/ Balancer \/ Tick \/ Touch \/ (\E s \in Specs : EditSpec(s)) \/ UNCHANGED vars
            \/ AppCreatesCollection \/ (\E i \in ShardIds : AppWrites(i))
            \/ (\E w \in Workloads : PodDown(w))
    BY <1>1, <1>10, Zenon DEF Pods, Balancer, Balance, Tick, Touch, EditSpec, env, vars,
       Roll, PodDown, PodReady, AppCreatesCollection, AppWrites
<1> QED
    BY <1>2, <1>3, <1>4, <1>5, <1>6, <1>7, <1>8, <1>9, <1>10, Zenon DEF Next, Reconcile, Faults

\* Every step preserves the inductive form of TypeOK, and it holds at the
\* start.
LEMMA TypeInductive == ASSUME TInv, [Next]_vars PROVE TInv'
BY PassTypes, HistTypes, WorkloadsTyped, ClusterTyped, RestTyped DEF TInv, EnvOK

LEMMA TypeInit == Init => TInv
<1> SUFFICES ASSUME Init PROVE TInv
    OBVIOUS
<1>0. /\ 0 \in 0 .. MaxShards /\ 0 \in 0 .. MaxFaults
      /\ 0 \in 0 .. MaxTouches /\ 0 \in 0 .. MaxFlakes
    BY BoundsAreNat
<1>1. PassOK
    BY <1>0, CreatedType, Zenon DEF Init, PassOK
<1>2. hist \in HistType
    BY <1>0, Zenon DEF Init, HistType
<1>3. wl \in [Workloads -> WorkloadType]
    BY Zenon DEF Init, NoWorkload, WorkloadType
<1>4. mongo \in ClusterType
    BY Zenon DEF Init, ClusterType
<1>5. hpa \in BOOLEAN /\ backups \in BackupType
    BY Zenon DEF Init, BackupType
<1> QED BY <1>1, <1>2, <1>3, <1>4, <1>5, Zenon DEF TInv, EnvOK

\* TypeCorrect.  Every reachable state has the shape TypeOK gives.
THEOREM TypeCorrect == Spec => []TypeOK
<1>1. TInv /\ [Next]_vars => TInv'
    BY TypeInductive
<1> QED BY <1>1, TypeInit, TypeMeans, PTL DEF Spec

-----------------------------------------------------------------------------
(***************************************************************************)
(* What the closures of the upgrade write, and what they leave alone.      *)
(***************************************************************************)

\* The version the pass is working for.
Wanted == IF pc = "Phase" THEN mdbsh.spec.version ELSE desired

\* What the upgrade steps keep of the status.
Rest(o, p) ==
    /\ o.st.version = p.st.version /\ o.st.eff = p.st.eff /\ o.st.prev = p.st.prev
    /\ o.st.fcv = p.st.fcv /\ o.st.ready = p.st.ready /\ o.st.cfgInit = p.st.cfgInit
    /\ o.spec = p.spec

\* The closures that write the upgrade phase alone.
LEMMA PhaseClosures ==
    ASSUME NEW o \in Resource
    PROVE  /\ Rest(clearUpgrade(o), o) /\ clearUpgrade(o).st.up = "" /\ clearUpgrade(o).st.upGen = o.st.upGen
           /\ Rest(backupDone(o), o) /\ backupDone(o).st.up = "Upgrading" /\ backupDone(o).st.upGen = o.st.upGen
           /\ Rest(giveUp(o), o) /\ giveUp(o).st.up = ""
           /\ Rest(initiateRollback(o), o) /\ initiateRollback(o).st.up = "RollingBack"
           /\ initiateRollback(o).st.upGen = o.st.upGen
           /\ Rest(setValidating(o), o) /\ setValidating(o).st.up = "Validating"
           /\ setValidating(o).st.upGen = o.st.upGen
<1>0. o.st \in StatusType
    BY ResourceParts
<1> DEFINE Kept(s) == /\ s.version = o.st.version /\ s.eff = o.st.eff /\ s.prev = o.st.prev
                      /\ s.fcv = o.st.fcv /\ s.ready = o.st.ready /\ s.cfgInit = o.st.cfgInit
<1>1. ASSUME NEW s, Kept(s) PROVE Rest([o EXCEPT !.st = s], o) /\ [o EXCEPT !.st = s].st = s
    BY <1>1 DEF Rest, Resource
<1>2. Rest(clearUpgrade(o), o) /\ clearUpgrade(o).st.up = "" /\ clearUpgrade(o).st.upGen = o.st.upGen
    <2> DEFINE s == [o.st EXCEPT !.up = "", !.start = NoTime]
    <2>1. Kept(s) /\ s.up = "" /\ s.upGen = o.st.upGen
        BY <1>0, Zenon DEF StatusType
    <2>2. clearUpgrade(o) = [o EXCEPT !.st = s]
        BY DEF clearUpgrade
    <2> HIDE DEF s, Kept
    <2> QED BY <1>1, <2>1, <2>2, Zenon
<1>3. Rest(backupDone(o), o) /\ backupDone(o).st.up = "Upgrading" /\ backupDone(o).st.upGen = o.st.upGen
    <2> DEFINE s == [o.st EXCEPT !.up = "Upgrading"]
    <2>1. Kept(s) /\ s.up = "Upgrading" /\ s.upGen = o.st.upGen
        BY <1>0, Zenon DEF StatusType
    <2>2. backupDone(o) = [o EXCEPT !.st = s]
        BY DEF backupDone
    <2> HIDE DEF s, Kept
    <2> QED BY <1>1, <2>1, <2>2
<1>4. Rest(giveUp(o), o) /\ giveUp(o).st.up = ""
    <2> DEFINE s == [o.st EXCEPT !.up = "", !.start = NoTime, !.upGen = o.gen]
    <2>1. Kept(s) /\ s.up = ""
        BY <1>0, Zenon DEF StatusType
    <2>2. giveUp(o) = [o EXCEPT !.st = s]
        BY DEF giveUp
    <2> HIDE DEF s, Kept
    <2> QED BY <1>1, <2>1, <2>2, Zenon
<1>5. Rest(initiateRollback(o), o) /\ initiateRollback(o).st.up = "RollingBack" /\ initiateRollback(o).st.upGen = o.st.upGen
    <2> DEFINE s == [o.st EXCEPT !.up = "RollingBack"]
    <2>1. Kept(s) /\ s.up = "RollingBack" /\ s.upGen = o.st.upGen
        BY <1>0, Zenon DEF StatusType
    <2>2. initiateRollback(o) = [o EXCEPT !.st = s]
        BY DEF initiateRollback
    <2> HIDE DEF s, Kept
    <2> QED BY <1>1, <2>1, <2>2
<1>6. /\ Rest(setValidating(o), o) /\ setValidating(o).st.up = "Validating"
      /\ setValidating(o).st.upGen = o.st.upGen
    <2> DEFINE t == IF o.st.start = NoTime THEN 0 ELSE o.st.start
               s == [o.st EXCEPT !.up = "Validating", !.start = t]
    <2>1. Kept(s) /\ s.up = "Validating" /\ s.upGen = o.st.upGen
        <3> HIDE DEF t
        <3> QED BY <1>0, Zenon DEF StatusType
    <2>2. setValidating(o) = [o EXCEPT !.st = s]
        BY DEF setValidating
    <2> HIDE DEF s, Kept
    <2> QED BY <1>1, <2>1, <2>2
<1> HIDE DEF Kept
<1> QED BY <1>2, <1>3, <1>4, <1>5, <1>6, Zenon

\* What a closure that replaces the status leaves alone.
LEMMA StatusField ==
    ASSUME NEW o \in Resource, NEW s PROVE [o EXCEPT !.st = s].st = s /\ [o EXCEPT !.st = s].spec = o.spec
BY DEF Resource

\* What a rollback, the start of an upgrade, its completion, the seeding of
\* the version and the initiation of the config server write.
LEMMA RollbackFields ==
    ASSUME NEW o \in Resource
    PROVE  LET p == rollback(o)
           IN  /\ p.spec = o.spec /\ p.st.version = o.st.version /\ p.st.eff = mdbsh.st.prev
               /\ p.st.prev = o.st.prev /\ p.st.up = "" /\ p.st.fcv = o.st.fcv
               /\ p.st.ready = o.st.ready /\ p.st.cfgInit = o.st.cfgInit
<1> DEFINE s == [o.st EXCEPT !.eff = mdbsh.st.prev, !.rb = TRUE, !.up = "", !.start = NoTime, !.upGen = o.gen]
<1>1. /\ s.version = o.st.version /\ s.eff = mdbsh.st.prev
      /\ s.prev = o.st.prev /\ s.up = "" /\ s.fcv = o.st.fcv
      /\ s.ready = o.st.ready /\ s.cfgInit = o.st.cfgInit
    BY ResourceParts, ZenonT(30) DEF StatusType
<1>2. rollback(o) = [o EXCEPT !.st = s]
    BY DEF rollback
<1> HIDE DEF s
<1>4. rollback(o).st = s /\ rollback(o).spec = o.spec
    BY <1>2, StatusField
<1> QED BY <1>1, <1>4, Zenon

LEMMA StartFields ==
    ASSUME NEW o \in Resource
    PROVE  LET p == startUpgrade(o)
           IN  /\ p.spec = o.spec /\ p.st.version = o.st.version /\ p.st.eff = desired
               /\ p.st.prev = mdbsh.st.version /\ p.st.up \in {"BackingUp", "Upgrading"}
               /\ p.st.fcv = o.st.fcv /\ p.st.upGen = o.st.upGen
               /\ p.st.ready = o.st.ready /\ p.st.cfgInit = o.st.cfgInit
<1>3. o.st \in StatusType
    BY ResourceParts
<1> DEFINE u == IF o.spec.backup THEN "BackingUp" ELSE "Upgrading"
           s == [o.st EXCEPT !.prev = mdbsh.st.version, !.eff = desired, !.rb = FALSE, !.start = 0, !.up = u]
<1>0. u \in {"BackingUp", "Upgrading"}
    OBVIOUS
<1>1. /\ s.version = o.st.version /\ s.eff = desired /\ s.prev = mdbsh.st.version
      /\ s.up = u /\ s.fcv = o.st.fcv /\ s.upGen = o.st.upGen
      /\ s.ready = o.st.ready /\ s.cfgInit = o.st.cfgInit
    <2> HIDE DEF u
    <2> QED BY <1>3, Zenon DEF StatusType
<1>2. startUpgrade(o) = [o EXCEPT !.st = s]
    BY DEF startUpgrade
<1> HIDE DEF s, u
<1>4. startUpgrade(o).st = s /\ startUpgrade(o).spec = o.spec
    BY <1>2, StatusField
<1> QED BY <1>0, <1>1, <1>4, Zenon

LEMMA CompleteFields ==
    ASSUME NEW o \in Resource
    PROVE  LET p == completeUpgrade(o)
           IN  /\ p.spec = o.spec /\ p.st.version = desired /\ p.st.eff = desired
               /\ p.st.up = "" /\ p.st.fcv = fcvMajorMinor(desired)
<1> DEFINE s == [o.st EXCEPT !.version = desired, !.eff = desired, !.fcv = fcvMajorMinor(desired),
                             !.rb = FALSE, !.up = "", !.start = NoTime, !.upGen = o.gen]
<1>1. s.version = desired /\ s.eff = desired /\ s.up = "" /\ s.fcv = fcvMajorMinor(desired)
    BY ResourceParts, Zenon DEF StatusType
<1>2. completeUpgrade(o) = [o EXCEPT !.st = s]
    BY DEF completeUpgrade
<1> HIDE DEF s
<1>4. completeUpgrade(o).st = s /\ completeUpgrade(o).spec = o.spec
    BY <1>2, StatusField
<1> QED BY <1>1, <1>4, Zenon

LEMMA SeedFields ==
    ASSUME NEW o \in Resource
    PROVE  LET p == seed(o)
           IN  /\ p.spec = o.spec
               /\ p.st.eff = (IF o.st.eff = NoVersion THEN desired ELSE o.st.eff)
               /\ p.st.version = (IF o.st.version = NoVersion THEN p.st.eff ELSE o.st.version)
               /\ p.st.prev = o.st.prev /\ p.st.up = o.st.up /\ p.st.fcv = o.st.fcv
               /\ p.st.upGen = o.st.upGen /\ p.st.ready = o.st.ready /\ p.st.cfgInit = o.st.cfgInit
<1>3. o.st \in StatusType
    BY ResourceParts
<1> DEFINE e == IF o.st.eff = NoVersion THEN desired ELSE o.st.eff
           v == IF o.st.version = NoVersion THEN e ELSE o.st.version
           s == [o.st EXCEPT !.eff = e, !.version = v]
<1>1. /\ s.eff = e /\ s.version = v /\ s.prev = o.st.prev /\ s.up = o.st.up /\ s.fcv = o.st.fcv
      /\ s.upGen = o.st.upGen /\ s.ready = o.st.ready /\ s.cfgInit = o.st.cfgInit
    <2> HIDE DEF e, v
    <2> QED BY <1>3, Zenon DEF StatusType
<1>2. seed(o) = [o EXCEPT !.st = s]
    BY DEF seed
<1> HIDE DEF s
<1>4. seed(o).st = s /\ seed(o).spec = o.spec
    BY <1>2, StatusField
<1> QED BY <1>1, <1>4

LEMMA CfgInitFields ==
    ASSUME NEW o \in Resource
    PROVE  LET p == setConfigServerInitialized(o)
           IN  /\ p.spec = o.spec /\ p.st.version = o.st.version /\ p.st.eff = o.st.eff
               /\ p.st.prev = o.st.prev /\ p.st.up = o.st.up /\ p.st.fcv = o.st.fcv
               /\ p.st.upGen = o.st.upGen /\ p.st.ready = o.st.ready
<1> DEFINE s == [o.st EXCEPT !.cfgInit = TRUE]
<1>1. /\ s.version = o.st.version /\ s.eff = o.st.eff /\ s.prev = o.st.prev /\ s.up = o.st.up
      /\ s.fcv = o.st.fcv /\ s.upGen = o.st.upGen /\ s.ready = o.st.ready
    BY ResourceParts, Zenon DEF StatusType
<1>2. setConfigServerInitialized(o) = [o EXCEPT !.st = s]
    BY DEF setConfigServerInitialized
<1> HIDE DEF s
<1>4. setConfigServerInitialized(o).st = s /\ setConfigServerInitialized(o).spec = o.spec
    BY <1>2, StatusField
<1> QED BY <1>1, <1>4
=============================================================================
