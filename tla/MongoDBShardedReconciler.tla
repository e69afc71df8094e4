---------------------- MODULE MongoDBShardedReconciler ----------------------
(***************************************************************************)
(* The MongoDBSharded controller: internal/controller/                     *)
(* mongodbsharded_controller.go and sharded_upgrade.go, with the commands  *)
(* of internal/mongodb/sharding.go.                                        *)
(*                                                                         *)
(* A reconcile is a sequence of steps (pc) over an in-memory copy (mdbsh)  *)
(* of the custom resource (obj); users, pods, the balancer and the backup  *)
(* controller act between any two steps.  Config server, shards and mongos *)
(* have one member each.                                                   *)
(***************************************************************************)
EXTENDS VersionPath

CONSTANTS
    MaxShards,      \* bound on spec.shards.count
    Specs,          \* the spec values a user may write: records of SpecType
    InitSpec,       \* the spec the resource is created with
    Keys,           \* shard keys
    BadVersions,    \* versions whose pods never become ready
    AnonymousAdmin, \* may the operator run rs.initiate on a fresh mongod?
    SettledEdits,   \* are users patient: an edit waits for a Running, idle cluster?
    Interval,       \* spec.upgradeStrategy.validationInterval, in ticks
    Budget,         \* perMemberRolloutBudget, in ticks
    MaxGen,         \* bound: generations
    MaxFaults,      \* bound: crashes and failed calls
    MaxTouches,     \* bound: foreign writes to the resource during a reconcile
    MaxFlakes       \* bound: postStart hooks that give up

ASSUME BoundsAreNat ==
    /\ MaxShards \in Nat \ {0} /\ MaxGen \in Nat \ {0} /\ MaxFaults \in Nat
    /\ MaxTouches \in Nat /\ MaxFlakes \in Nat /\ Interval \in Nat /\ Budget \in Nat

ShardIds == 0 .. MaxShards - 1

Cfg == -1

Mongos == -2

Workloads == ShardIds \cup {Cfg, Mongos}

NoKey == "none"

SpecType ==
    [count : 1 .. MaxShards, version : Nat \ {0}, backup : BOOLEAN, rollback : BOOLEAN,
     hpa : BOOLEAN, key : Keys \cup {NoKey}]

ASSUME SpecsAreTyped == InitSpec \in Specs /\ Specs \subseteq SpecType

VARIABLES
    obj,     \* the resource in the API server: spec, generation, status
    mdbsh,   \* the reconciler's copy of it
    fresh,   \* no one wrote obj since mdbsh was read: the next update has no conflict
    pc,      \* the step of the reconcile under way
    idx,     \* reconcileScaleIn's loop index
    desired, \* reconcileShardedUpgrade's desiredVersion
    wl,      \* StatefulSets and Deployment: template, running version, readiness
    mongo,   \* the MongoDB cluster
    hpa,     \* the mongos HorizontalPodAutoscaler exists
    backups, \* pre-upgrade backups by version
    hist     \* bounds and history

vars == <<obj, mdbsh, fresh, pc, idx, desired, wl, mongo, hpa, backups, hist>>

env == <<wl, mongo, hpa, backups>>

NoTime == -1

Versions == {s.version : s \in Specs}

MaxTime == Interval + (1 + MaxShards) * Budget

StatusType ==
    [phase : {"Pending", "Initializing", "Running", "Failed"},
     cfgInit : BOOLEAN, admin : BOOLEAN, drift : BOOLEAN,
     inited : [ShardIds -> BOOLEAN], added : [ShardIds -> BOOLEAN],
     n : 0 .. MaxShards,     \* len(status.shards)
     ready : BOOLEAN,        \* ready >= total in every component of the status
     version : Versions \cup {NoVersion}, eff : Versions \cup {NoVersion},
     prev : Versions \cup {NoVersion},
     up : {"", "BackingUp", "Upgrading", "Validating", "RollingBack"},
     start : NoTime .. MaxTime, upGen : 0 .. MaxGen, rb : BOOLEAN, fcv : Nat,
     gen : 0 .. MaxGen]      \* observedGeneration

EmptyStatus ==
    [phase |-> "Pending", cfgInit |-> FALSE, admin |-> FALSE, drift |-> FALSE,
     inited |-> [i \in ShardIds |-> FALSE], added |-> [i \in ShardIds |-> FALSE],
     n |-> 0, ready |-> TRUE, version |-> NoVersion, eff |-> NoVersion, prev |-> NoVersion,
     up |-> "", start |-> NoTime, upGen |-> 0, rb |-> FALSE, fcv |-> 0, gen |-> 0]

NoWorkload == [t |-> NoVersion, v |-> NoVersion, ready |-> FALSE]

Created == [spec |-> InitSpec, gen |-> 1, st |-> EmptyStatus]

\* The reconciler's copy between two reconciles: nothing is carried over.
NoCopy == Created

Init ==
    /\ obj = Created /\ mdbsh = NoCopy /\ fresh = TRUE /\ pc = "Idle" /\ idx = 0
    /\ desired = NoVersion
    /\ wl = [w \in Workloads |-> NoWorkload]
    /\ mongo = [shard |-> [i \in ShardIds |-> "absent"], data |-> {},
                store |-> [w \in ShardIds \cup {Cfg} |-> "none"],
                admin |-> FALSE, coll |-> "missing", fcv |-> 0]
    /\ hpa = FALSE
    /\ backups = [v \in Versions |-> "none"]
    /\ hist = [faults |-> 0, touches |-> 0, flakes |-> 0, started |-> {},
               deep |-> FALSE, hasty |-> FALSE]

(***************************************************************************)
(* External: the API server as commonsstatus.UpdateWithRetry uses it.      *)
(* Without a conflict the whole in-memory status is written; after one the *)
(* newest object is read back and only the closure is applied to it, so    *)
(* fields assigned outside the closure are lost.                           *)
(***************************************************************************)
Base == IF fresh THEN [obj EXCEPT !.st = mdbsh.st] ELSE obj

Write(o) == obj' = o /\ mdbsh' = o /\ fresh' = TRUE

Goto(step) == pc' = step /\ UNCHANGED <<idx, desired>>

Return ==
    pc' = "Idle" /\ idx' = 0 /\ desired' = NoVersion /\ mdbsh' = NoCopy /\ fresh' = TRUE

WriteAndGoto(o, step) == Write(o) /\ Goto(step) /\ UNCHANGED <<env, hist>>

WriteAndReturn(o) == obj' = o /\ Return

RunningAt(step) == pc = step

Fault == hist.faults < MaxFaults /\ hist' = [hist EXCEPT !.faults = @ + 1]

\* External: commonsreconcile.ApplyErrorCondition records the failure and returns it.
setFailed(o) == [o EXCEPT !.st.phase = "Failed"]

updateStatusError == WriteAndReturn(setFailed(Base))

(***************************************************************************)
(* The step guards and closures of Reconcile.                              *)
(***************************************************************************)
Start ==
    /\ RunningAt("Idle")
    /\ mdbsh' = obj /\ fresh' = TRUE /\ Goto("Phase")
    /\ UNCHANGED <<obj, env, hist>>

setInitializing(o) == [o EXCEPT !.st.phase = "Initializing"]

SetInitializing ==
    /\ RunningAt("Phase")
    /\ IF mdbsh.st.phase = "Pending" THEN Write(setInitializing(Base))
                                     ELSE UNCHANGED <<obj, mdbsh, fresh>>
    /\ pc' = "Seed" /\ desired' = mdbsh'.spec.version
    /\ UNCHANGED <<idx, env, hist>>

(***************************************************************************)
(* reconcileShardedUpgrade.                                                *)
(***************************************************************************)
seed(o) ==
    LET e == IF o.st.eff = NoVersion THEN desired ELSE o.st.eff
        v == IF o.st.version = NoVersion THEN e ELSE o.st.version
    IN  [o EXCEPT !.st = [@ EXCEPT !.eff = e, !.version = v]]

Seed ==
    /\ RunningAt("Seed")
    /\ IF mdbsh.st.eff = NoVersion \/ mdbsh.st.version = NoVersion
       THEN WriteAndGoto(seed(Base), "Upgrade")
       ELSE Goto("Upgrade") /\ UNCHANGED <<obj, mdbsh, fresh, env, hist>>

Unchanged == mdbsh.st.version = desired

\* Mutant: the terminal result of a generation is not remembered.
alreadyTerminal_Never == FALSE

alreadyTerminal == mdbsh.st.up = "" /\ mdbsh.st.upGen = mdbsh.gen

clearUpgrade(o) == [o EXCEPT !.st = [@ EXCEPT !.up = "", !.start = NoTime]]

NoUpgrade ==
    /\ RunningAt("Upgrade")
    /\ Unchanged
    /\ IF mdbsh.st.up # "" THEN WriteAndGoto(clearUpgrade(Base), "Cfg")
                           ELSE Goto("Cfg") /\ UNCHANGED <<obj, mdbsh, fresh, env, hist>>

\* A terminal result for this generation, or a rollout under way: reconcile the workloads.
NothingToDecide ==
    /\ RunningAt("Upgrade")
    /\ ~ Unchanged
    /\ alreadyTerminal \/ mdbsh.st.up = "Upgrading"
    /\ Goto("Cfg")
    /\ UNCHANGED <<obj, mdbsh, fresh, env, hist>>

UpgradeAt(phase) ==
    RunningAt("Upgrade") /\ ~ Unchanged /\ ~ alreadyTerminal /\ mdbsh.st.up = phase

\* Mutant: the effective version does not move.
startUpgrade_KeepsEffective(o) ==
    [o EXCEPT !.st = [@ EXCEPT !.prev = mdbsh.st.version, !.rb = FALSE, !.start = 0,
                               !.up = IF o.spec.backup THEN "BackingUp" ELSE "Upgrading"]]

startUpgrade(o) ==
    [o EXCEPT !.st = [@ EXCEPT !.prev = mdbsh.st.version, !.eff = desired, !.rb = FALSE,
                               !.start = 0,
                               !.up = IF o.spec.backup THEN "BackingUp" ELSE "Upgrading"]]

StartUpgrade ==
    /\ UpgradeAt("")
    /\ WriteAndReturn(startUpgrade(Base))
    /\ hist' = [hist EXCEPT !.started = @ \cup {mdbsh.gen}]
    /\ UNCHANGED env

backupDone(o) == [o EXCEPT !.st.up = "Upgrading"]

BackingUp ==
    /\ UpgradeAt("BackingUp")
    /\ LET b == backups[desired]
       IN  /\ \/ b \in {"none", "Running"} /\ UNCHANGED obj
              \/ b = "Completed" /\ obj' = backupDone(Base)
              \/ b = "Failed" /\ obj' = clearUpgrade(Base)
           /\ backups' = [backups EXCEPT ![desired] = IF b = "none" THEN "Running" ELSE b]
    /\ Return
    /\ UNCHANGED <<wl, mongo, hpa, hist>>

validationTimeout == Interval + (1 + mdbsh.spec.count) * Budget

\* The counts the last updateStatus recorded, not the workloads.
allReady == mdbsh.st.ready

Initiated(w) == mongo.store[w] # "none"

\* External: mongos forwards setFeatureCompatibilityVersion to every member of the cluster.
FCVAccepted(f) ==
    /\ wl[Mongos].ready /\ Initiated(Cfg)
    /\ \A w \in {Cfg} \cup {i \in ShardIds : mongo.shard[i] # "absent"} :
          wl[w].ready /\ (f = mongo.fcv \/ MajorMinor(wl[w].v) = f)

commitShardedFCV(f) ==
    \/ mdbsh.st.fcv = f /\ UNCHANGED mongo
    \/ mdbsh.st.fcv # f /\ FCVAccepted(f) /\ mongo' = [mongo EXCEPT !.fcv = f]

completeUpgrade(o) ==
    [o EXCEPT !.st = [@ EXCEPT !.version = desired, !.eff = desired,
                               !.fcv = fcvMajorMinor(desired), !.rb = FALSE,
                               !.up = "", !.start = NoTime, !.upGen = o.gen]]

initiateRollback(o) == [o EXCEPT !.st.up = "RollingBack"]

giveUp(o) == [o EXCEPT !.st = [@ EXCEPT !.up = "", !.start = NoTime, !.upGen = o.gen]]

Validated == mdbsh.st.start >= Interval /\ allReady

\* Between the commit and the write the FCV is raised but not recorded.
CommitFCV ==
    /\ UpgradeAt("Validating") /\ Validated
    /\ commitShardedFCV(fcvMajorMinor(desired))
    /\ Goto("Complete")
    /\ UNCHANGED <<obj, mdbsh, fresh, wl, hpa, backups, hist>>

CompleteUpgrade ==
    /\ RunningAt("Complete")
    /\ WriteAndReturn(completeUpgrade(Base))
    /\ UNCHANGED <<env, hist>>

\* Too early, not ready yet, or the FCV was refused: come back later.
KeepValidating ==
    /\ UpgradeAt("Validating")
    /\ \/ mdbsh.st.start < Interval
       \/ ~ allReady /\ mdbsh.st.start < validationTimeout
       \/ Validated /\ mdbsh.st.fcv # fcvMajorMinor(desired)
          /\ ~ FCVAccepted(fcvMajorMinor(desired))
    /\ Return
    /\ UNCHANGED <<obj, env, hist>>

\* Mutant: the timeout is looked at before readiness.
ValidationTimedOut_First ==
    /\ UpgradeAt("Validating")
    /\ mdbsh.st.start >= validationTimeout
    /\ WriteAndReturn(IF mdbsh.spec.rollback THEN initiateRollback(Base) ELSE giveUp(Base))
    /\ UNCHANGED <<env, hist>>

ValidationTimedOut ==
    /\ UpgradeAt("Validating")
    /\ ~ allReady /\ mdbsh.st.start >= validationTimeout
    /\ WriteAndReturn(IF mdbsh.spec.rollback THEN initiateRollback(Base) ELSE giveUp(Base))
    /\ UNCHANGED <<env, hist>>

rollback(o) ==
    [o EXCEPT !.st = [@ EXCEPT !.eff = mdbsh.st.prev, !.rb = TRUE,
                               !.up = "", !.start = NoTime, !.upGen = o.gen]]

RollBack ==
    /\ UpgradeAt("RollingBack")
    /\ WriteAndReturn(CASE mdbsh.st.prev = NoVersion -> clearUpgrade(Base)
                        [] mdbsh.st.prev # NoVersion /\ ~ mdbsh.spec.rollback -> giveUp(Base)
                        [] OTHER -> rollback(Base))
    /\ UNCHANGED <<env, hist>>

(***************************************************************************)
(* The workloads, in the order config server, shards, mongos.              *)
(***************************************************************************)
Apply(W) ==
    wl' = [w \in Workloads |-> IF w \in W THEN [wl[w] EXCEPT !.t = mdbsh.st.eff] ELSE wl[w]]

Declared(o) == {i \in ShardIds : i < o.spec.count}

reconcileConfigServer ==
    /\ RunningAt("Cfg")
    /\ Apply({Cfg})
    /\ Goto("Shards")
    /\ UNCHANGED <<obj, mdbsh, fresh, mongo, hpa, backups, hist>>

isConfigServerReady == wl[Cfg].ready

\* Mutant: shards keep their template.
reconcileShard_Skips ==
    /\ RunningAt("Shards")
    /\ IF isConfigServerReady
       THEN /\ Apply({i \in Declared(mdbsh) : wl[i].t = NoVersion})
            /\ Goto("Mongos") /\ UNCHANGED <<mdbsh, fresh>>
       ELSE Return /\ UNCHANGED wl
    /\ UNCHANGED <<obj, mongo, hpa, backups, hist>>

reconcileShard ==
    /\ RunningAt("Shards")
    /\ IF isConfigServerReady THEN Apply(Declared(mdbsh)) /\ Goto("Mongos") /\ UNCHANGED <<mdbsh, fresh>>
                              ELSE Return /\ UNCHANGED wl
    /\ UNCHANGED <<obj, mongo, hpa, backups, hist>>

\* Mutant: one shard too many is waited for.
areShardsReady_OneMore == \A i \in {j \in ShardIds : j <= mdbsh.spec.count} : wl[i].ready

areShardsReady == \A i \in Declared(mdbsh) : wl[i].ready

reconcileMongos ==
    /\ RunningAt("Mongos")
    /\ IF areShardsReady
       THEN /\ Apply({Mongos})
            /\ Goto(IF mdbsh.st.up = "Upgrading" THEN "Validating" ELSE "CfgInit")
            /\ UNCHANGED <<mdbsh, fresh>>
       ELSE Return /\ UNCHANGED wl
    /\ UNCHANGED <<obj, mongo, hpa, backups, hist>>

setValidating(o) ==
    LET start == IF o.st.start = NoTime THEN 0 ELSE o.st.start
    IN  [o EXCEPT !.st = [@ EXCEPT !.up = "Validating", !.start = start]]

SetValidating ==
    /\ RunningAt("Validating")
    /\ WriteAndReturn(setValidating(Base))
    /\ UNCHANGED <<env, hist>>

(***************************************************************************)
(* Replica set initiation, the admin user and the shard list.              *)
(***************************************************************************)
\* External: rs.initiate, refused to a client that cannot authenticate yet.
Initiate(W) ==
    LET new == {w \in W : AnonymousAdmin /\ ~ Initiated(w)}
    IN  mongo' = [mongo EXCEPT !.store = [w \in DOMAIN @ |-> IF w \in new THEN "rs" ELSE @[w]],
                               !.fcv = IF Cfg \in new THEN MajorMinor(wl[Cfg].v) ELSE @]

setConfigServerInitialized(o) == [o EXCEPT !.st.cfgInit = TRUE]

reconcileConfigServerInit ==
    /\ RunningAt("CfgInit")
    /\ IF mdbsh.st.cfgInit
       THEN Goto("ShardsInit") /\ UNCHANGED <<obj, mdbsh, fresh, mongo>>
       ELSE /\ Initiate({Cfg})
            /\ IF Initiated(Cfg) \/ AnonymousAdmin
               THEN Write(setConfigServerInitialized(Base)) /\ Goto("ShardsInit")
               ELSE updateStatusError
    /\ UNCHANGED <<wl, hpa, backups, hist>>

\* The loop of reconcileShardsInit: check, else initiate, and set the flag in memory.
reconcileShardsInit ==
    /\ RunningAt("ShardsInit")
    /\ Initiate({i \in Declared(mdbsh) : ~ mdbsh.st.inited[i]})
    /\ mdbsh' = [mdbsh EXCEPT !.st.inited =
                    [i \in ShardIds |-> @[i] \/ (i \in Declared(mdbsh) /\ (Initiated(i) \/ AnonymousAdmin))]]
    /\ Goto("InitWrite")
    /\ UNCHANGED <<obj, fresh, wl, hpa, backups, hist>>

initializedSnapshot(o) == [o EXCEPT !.st.inited = mdbsh.st.inited]

\* The flags are always persisted; a shard that failed then fails the reconcile.
WriteShardsInit ==
    /\ RunningAt("InitWrite")
    /\ IF \A i \in Declared(mdbsh) : mdbsh.st.inited[i]
       THEN WriteAndGoto(initializedSnapshot(Base), "Admin")
       ELSE WriteAndReturn(setFailed(initializedSnapshot(Base))) /\ UNCHANGED <<env, hist>>

setAdminUserCreated(o) == [o EXCEPT !.st.admin = TRUE]

\* isMongosReady, then the admin user is verified through mongos.
reconcileShardedAdminUser ==
    /\ RunningAt("Admin")
    /\ CASE ~ wl[Mongos].ready -> UNCHANGED obj /\ Return
         [] wl[Mongos].ready /\ ~ mdbsh.st.admin /\ ~ mongo.admin -> updateStatusError
         [] OTHER ->
              /\ IF mdbsh.st.admin THEN UNCHANGED <<obj, mdbsh, fresh>>
                                   ELSE Write(setAdminUserCreated(Base))
              /\ pc' = "ScaleIn" /\ idx' = mdbsh'.spec.count
              /\ UNCHANGED desired
    /\ UNCHANGED <<env, hist>>

(***************************************************************************)
(* reconcileScaleIn: drain, remove and clean up the surplus shards.        *)
(***************************************************************************)
\* External: removeShard.  "notFound" is a server error.
RemoveShardWithStatus(i) ==
    CASE mongo.shard[i] = "absent" -> "notFound"
      [] mongo.shard[i] = "active" -> "started"
      [] mongo.shard[i] = "draining" /\ i \in mongo.data -> "ongoing"
      [] OTHER -> "completed"

ShardAfterRemove(i) ==
    CASE RemoveShardWithStatus(i) = "started"   -> "draining"
      [] RemoveShardWithStatus(i) = "completed" -> "absent"
      [] OTHER -> mongo.shard[i]

NoScaleIn ==
    /\ RunningAt("ScaleIn") /\ idx >= mdbsh.st.n
    /\ pc' = "AddShards" /\ idx' = 0 /\ UNCHANGED desired
    /\ UNCHANGED <<obj, mdbsh, fresh, env, hist>>

\* Mutant: the state of the drain is not looked at.
reconcileScaleIn_NoWait ==
    /\ RunningAt("ScaleIn") /\ idx < mdbsh.st.n
    /\ mongo' = [mongo EXCEPT !.shard[idx] = ShardAfterRemove(idx)]
    /\ IF RemoveShardWithStatus(idx) = "notFound"
       THEN updateStatusError
       ELSE Goto("Cleanup") /\ UNCHANGED <<obj, mdbsh, fresh>>
    /\ UNCHANGED <<wl, hpa, backups, hist>>

reconcileScaleIn ==
    /\ RunningAt("ScaleIn") /\ idx < mdbsh.st.n
    /\ mongo' = [mongo EXCEPT !.shard[idx] = ShardAfterRemove(idx)]
    /\ CASE RemoveShardWithStatus(idx) = "notFound"  -> updateStatusError
         [] RemoveShardWithStatus(idx) = "completed" -> Goto("Cleanup") /\ UNCHANGED <<obj, mdbsh, fresh>>
         [] OTHER -> UNCHANGED obj /\ Return
    /\ UNCHANGED <<wl, hpa, backups, hist>>

\* Mutants: the flags are not reset; the shard before it is cleaned up.
cleanupShardResources_KeepsFlags ==
    /\ RunningAt("Cleanup")
    /\ wl' = [wl EXCEPT ![idx] = NoWorkload]
    /\ mongo' = [mongo EXCEPT !.store[idx] = "none"]
    /\ pc' = "ScaleIn" /\ idx' = idx + 1
    /\ UNCHANGED <<obj, mdbsh, fresh, desired, hpa, backups, hist>>

cleanupShardResources_OffByOne ==
    /\ RunningAt("Cleanup")
    /\ wl' = [wl EXCEPT ![idx - 1] = NoWorkload]
    /\ mongo' = [mongo EXCEPT !.store[idx - 1] = "none"]
    /\ mdbsh' = [mdbsh EXCEPT !.st = [@ EXCEPT !.added[idx] = FALSE, !.inited[idx] = FALSE]]
    /\ pc' = "ScaleIn" /\ idx' = idx + 1
    /\ UNCHANGED <<obj, fresh, desired, hpa, backups, hist>>

\* Volumes go last; the two flags are reset in memory only.
cleanupShardResources ==
    /\ RunningAt("Cleanup")
    /\ wl' = [wl EXCEPT ![idx] = NoWorkload]
    /\ mongo' = [mongo EXCEPT !.store[idx] = "none"]
    /\ mdbsh' = [mdbsh EXCEPT !.st = [@ EXCEPT !.added[idx] = FALSE, !.inited[idx] = FALSE]]
    /\ pc' = "ScaleIn" /\ idx' = idx + 1
    /\ UNCHANGED <<obj, fresh, desired, hpa, backups, hist>>

\* A failed delete: the workload may be gone, the volume and the flags stay.
CleanupFails ==
    /\ RunningAt("Cleanup") /\ Fault
    /\ wl' \in {wl, [wl EXCEPT ![idx] = NoWorkload]}
    /\ updateStatusError
    /\ UNCHANGED <<mongo, hpa, backups>>

(***************************************************************************)
(* reconcileAddShards, reconcileShardedCollections, the HPA, updateStatus. *)
(***************************************************************************)
Reachable(i) == wl[i].ready /\ Initiated(i)

ToAdd == {i \in Declared(mdbsh) : ~ mdbsh.st.added[i] /\ Reachable(i)}

\* Mutant: the flag after the last one is looked at.
areShardsInitialized_OneMore(o) == \A i \in 0 .. o.spec.count : i \in ShardIds /\ o.st.inited[i]

areShardsInitialized(o) == \A i \in Declared(o) : o.st.inited[i]

\* addShard is idempotent: a shard already in the list is a success.
reconcileAddShards ==
    /\ RunningAt("AddShards")
    /\ IF areShardsInitialized(mdbsh)
       THEN /\ mongo' = [mongo EXCEPT
                   !.shard = [i \in ShardIds |-> IF i \in ToAdd /\ @[i] = "absent" THEN "active" ELSE @[i]],
                   !.store = [w \in DOMAIN @ |-> IF w \in ToAdd THEN "shard" ELSE @[w]]]
            /\ mdbsh' = [mdbsh EXCEPT !.st.added = [i \in ShardIds |-> @[i] \/ i \in ToAdd]]
            /\ Goto("AddWrite")
       ELSE Goto("Collections") /\ UNCHANGED <<mdbsh, mongo>>
    /\ UNCHANGED <<obj, fresh, wl, hpa, backups, hist>>

addedSnapshot(o) == [o EXCEPT !.st.added = mdbsh.st.added]

WriteAddShards ==
    /\ RunningAt("AddWrite")
    /\ IF \A i \in Declared(mdbsh) : mdbsh.st.added[i]
       THEN WriteAndGoto(addedSnapshot(Base), "Collections")
       ELSE WriteAndReturn(setFailed(addedSnapshot(Base))) /\ UNCHANGED <<env, hist>>

\* The declared collection cannot be sharded yet: shards or the collection are missing.
CollectionMustWait ==
    \/ ~ wl[Mongos].ready
    \/ \E i \in Declared(mdbsh) : ~ mdbsh.st.added[i]
    \/ mongo.coll = "missing"

\* EnsureShardedCollection: shard it, accept the same key, report another one.
reconcileShardedCollections ==
    /\ RunningAt("Collections")
    /\ LET k == mdbsh.spec.key
       IN  CASE k = NoKey ->
                   /\ mdbsh' = [mdbsh EXCEPT !.st.drift = FALSE]
                   /\ Goto("Status") /\ UNCHANGED <<obj, fresh, mongo>>
             [] k # NoKey /\ CollectionMustWait -> Return /\ UNCHANGED <<obj, mongo>>
             [] OTHER ->
                   /\ mongo' = [mongo EXCEPT !.coll = IF @ = "plain" THEN k ELSE @]
                   /\ mdbsh' = [mdbsh EXCEPT !.st.drift = mongo'.coll # k]
                   /\ Goto("Status") /\ UNCHANGED <<obj, fresh>>
    /\ UNCHANGED <<wl, hpa, backups, hist>>

hpaGate(o) == o.st.cfgInit /\ areShardsInitialized(o)

Present(o) == {i \in Declared(o) : wl[i].t # NoVersion}

\* Mutants: status.shards never shrinks; it counts one too many.
observed_NeverShrinks(o) ==
    LET up == \A w \in Present(o) \cup {Cfg, Mongos} : wl[w].ready
        n == Cardinality(Present(o))
    IN  [o EXCEPT !.st = [@ EXCEPT
             !.n = IF @ > n THEN @ ELSE n, !.ready = up, !.gen = o.gen,
             !.phase = IF up /\ n = o.spec.count THEN "Running" ELSE "Initializing"]]

observed_OneMore(o) == [o EXCEPT !.st.n = Cardinality(Present(o)) + 1]

setObserved(o) == [o EXCEPT !.st.gen = o.gen]

\* Counts and phase are assigned outside the closure: a conflict drops them.
observed(o) ==
    LET up == \A w \in Present(o) \cup {Cfg, Mongos} : wl[w].ready
        n == Cardinality(Present(o))
    IN  [o EXCEPT !.st = [@ EXCEPT
             !.n = n, !.ready = up, !.gen = o.gen,
             !.phase = IF up /\ n = o.spec.count THEN "Running" ELSE "Initializing"]]

updateStatus ==
    /\ RunningAt("Status")
    /\ hpa' = IF hpaGate(mdbsh) THEN mdbsh.spec.hpa ELSE hpa
    /\ WriteAndReturn(IF fresh THEN observed(Base) ELSE setObserved(obj))
    /\ UNCHANGED <<wl, mongo, backups, hist>>

(***************************************************************************)
(* Faults: any call may fail, the operator may restart.                    *)
(***************************************************************************)
CallFails ==
    /\ ~ RunningAt("Idle") /\ Fault
    /\ updateStatusError
    /\ UNCHANGED env

Crash ==
    /\ ~ RunningAt("Idle") /\ Fault
    /\ Return
    /\ UNCHANGED <<obj, env>>

(***************************************************************************)
(* The environment.                                                        *)
(***************************************************************************)
Settled == RunningAt("Idle") /\ obj.st.phase = "Running" /\ obj.st.up = "" /\ obj.st.n = obj.spec.count

\* The shard count is lowered by two or more at once.
Deep(s) == s.count + 1 < obj.st.n

\* The next minor is asked for although the status does not report the current version yet.
Hasty(s) ==
    MajorMinor(s.version) # MajorMinor(obj.spec.version) /\ obj.st.version # obj.spec.version

\* A write while a reconcile is under way makes the reconciler's copy stale.
EditSpec(s) ==
    /\ obj.gen < MaxGen /\ s # obj.spec
    /\ IsValidUpgradePath(obj.spec.version, s.version)
    /\ SettledEdits => Settled
    /\ RunningAt("Idle") \/ hist.touches < MaxTouches
    /\ obj' = [obj EXCEPT !.spec = s, !.gen = @ + 1]
    /\ fresh' = RunningAt("Idle")
    /\ hist' = [hist EXCEPT !.touches = IF RunningAt("Idle") THEN @ ELSE @ + 1,
                            !.deep = @ \/ Deep(s), !.hasty = @ \/ Hasty(s)]
    /\ UNCHANGED <<mdbsh, pc, idx, desired, env>>

\* A label, an annotation or a managed field changes while a reconcile is under way.
Touch ==
    /\ ~ RunningAt("Idle") /\ fresh /\ hist.touches < MaxTouches
    /\ fresh' = FALSE
    /\ hist' = [hist EXCEPT !.touches = @ + 1]
    /\ UNCHANGED <<obj, mdbsh, pc, idx, desired, env>>

Roll(w) ==
    /\ wl[w].t # wl[w].v
    /\ wl' = [wl EXCEPT ![w].v = wl[w].t, ![w].ready = FALSE]
    /\ UNCHANGED <<obj, mdbsh, fresh, pc, idx, desired, mongo, hpa, backups, hist>>

\* mongod starts on its data files: not on those of a shard the cluster no longer knows.
Starts(w) ==
    /\ wl[w].v \notin BadVersions
    /\ w \in ShardIds /\ mongo.store[w] = "shard" => mongo.shard[w] # "absent"
    /\ w = Cfg /\ Initiated(Cfg) => BinaryRunsAtFCV(wl[w].v, mongo.fcv)
    /\ w \in ShardIds /\ mongo.shard[w] # "absent" => BinaryRunsAtFCV(wl[w].v, mongo.fcv)

\* postStart runs before readiness: a fresh mongod initiates itself, and the
\* config server creates the admin user; a hook that gives up leaves both undone.
PodReady(w) ==
    /\ wl[w].v # NoVersion /\ ~ wl[w].ready /\ wl[w].t = wl[w].v /\ Starts(w)
    /\ wl' = [wl EXCEPT ![w].ready = TRUE]
    /\ IF w # Mongos /\ mongo.store[w] = "none"
       THEN \/ /\ mongo' = [mongo EXCEPT !.store[w] = "rs", !.admin = @ \/ w = Cfg,
                                         !.fcv = IF w = Cfg THEN MajorMinor(wl[w].v) ELSE @]
               /\ UNCHANGED hist
            \/ /\ hist.flakes < MaxFlakes
               /\ hist' = [hist EXCEPT !.flakes = @ + 1]
               /\ UNCHANGED mongo
       ELSE UNCHANGED <<mongo, hist>>
    /\ UNCHANGED <<obj, mdbsh, fresh, pc, idx, desired, hpa, backups>>

PodDown(w) ==
    /\ wl[w].ready /\ Fault
    /\ wl' = [wl EXCEPT ![w].ready = FALSE]
    /\ UNCHANGED <<obj, mdbsh, fresh, pc, idx, desired, mongo, hpa, backups>>

ActiveShards == {i \in ShardIds : mongo.shard[i] = "active"}

\* Where data lies is followed only when it can lie in two places.
AppWrites(i) ==
    /\ MaxShards > 1
    /\ i \in ActiveShards \ mongo.data
    /\ mongo' = [mongo EXCEPT !.data = @ \cup {i}]
    /\ UNCHANGED <<obj, mdbsh, fresh, pc, idx, desired, wl, hpa, backups, hist>>

Balance(i, j) ==
    /\ mongo.shard[i] = "draining" /\ i \in mongo.data /\ j \in ActiveShards
    /\ mongo' = [mongo EXCEPT !.data = (@ \ {i}) \cup {j}]
    /\ UNCHANGED <<obj, mdbsh, fresh, pc, idx, desired, wl, hpa, backups, hist>>

AppCreatesCollection ==
    /\ mongo.coll = "missing" /\ ActiveShards # {} /\ \E s \in Specs : s.key # NoKey
    /\ mongo' = [mongo EXCEPT !.coll = "plain"]
    /\ UNCHANGED <<obj, mdbsh, fresh, pc, idx, desired, wl, hpa, backups, hist>>

BackupEnds(v, how) ==
    /\ backups[v] = "Running"
    /\ backups' = [backups EXCEPT ![v] = how]
    /\ UNCHANGED <<obj, mdbsh, fresh, pc, idx, desired, wl, mongo, hpa, hist>>

Tick ==
    /\ RunningAt("Idle") /\ obj.st.start # NoTime /\ obj.st.start < MaxTime
    /\ obj' = [obj EXCEPT !.st.start = @ + 1]
    /\ UNCHANGED <<mdbsh, fresh, pc, idx, desired, env, hist>>

(***************************************************************************)
(* One reconcile runs at a time per resource: its steps are one process.   *)
(***************************************************************************)
Reconcile ==
    \/ Start \/ SetInitializing \/ Seed \/ NoUpgrade \/ NothingToDecide
    \/ StartUpgrade \/ BackingUp \/ CommitFCV \/ CompleteUpgrade \/ KeepValidating
    \/ ValidationTimedOut \/ RollBack
    \/ reconcileConfigServer \/ reconcileShard \/ reconcileMongos \/ SetValidating
    \/ reconcileConfigServerInit \/ reconcileShardsInit \/ WriteShardsInit
    \/ reconcileShardedAdminUser \/ NoScaleIn \/ reconcileScaleIn \/ cleanupShardResources
    \/ reconcileAddShards \/ WriteAddShards \/ reconcileShardedCollections \/ updateStatus

Faults == CleanupFails \/ CallFails \/ Crash \/ \E w \in Workloads : PodDown(w)

Pods == \E w \in Workloads : Roll(w) \/ PodReady(w)

Balancer == \E i, j \in ShardIds : Balance(i, j)

BackupController == \E v \in Versions, how \in {"Completed", "Failed"} : BackupEnds(v, how)

Next ==
    \/ Reconcile \/ Faults \/ Pods \/ Balancer \/ BackupController \/ Tick
    \/ AppCreatesCollection \/ Touch
    \/ \E i \in ShardIds : AppWrites(i)
    \/ \E s \in Specs : EditSpec(s)

Spec == Init /\ [][Next]_vars

(***************************************************************************)
(* The work queue retries, time passes, pods of a workload are replaced    *)
(* and start where they can, the balancer drains, and backups end.  Users, *)
(* applications and faults are never obliged to act.                       *)
(***************************************************************************)
FairSpec ==
    /\ Spec
    /\ WF_vars(Reconcile) /\ WF_vars(Pods) /\ WF_vars(Balancer) /\ WF_vars(BackupController)
    /\ SF_vars(Tick)

(***************************************************************************)
(* Properties.                                                             *)
(***************************************************************************)

(***************************************************************************)
(* TypeOK.  The shape of the state.                                        *)
(***************************************************************************)
Resource == [spec : Specs, gen : 1 .. MaxGen, st : StatusType]

TypeOK ==
    /\ obj \in Resource /\ mdbsh \in Resource
    /\ fresh \in BOOLEAN /\ hpa \in BOOLEAN
    /\ idx \in 0 .. MaxShards /\ desired \in Versions \cup {NoVersion}
    /\ wl \in [Workloads -> [t : Versions \cup {NoVersion}, v : Versions \cup {NoVersion},
                              ready : BOOLEAN]]
    /\ mongo \in [shard : [ShardIds -> {"absent", "active", "draining"}], data : SUBSET ShardIds,
                   store : [ShardIds \cup {Cfg} -> {"none", "rs", "shard"}],
                   admin : BOOLEAN, coll : {"missing", "plain"} \cup Keys, fcv : Nat]
    /\ backups \in [Versions -> {"none", "Running", "Completed", "Failed"}]
    /\ hist \in [faults : 0 .. MaxFaults, touches : 0 .. MaxTouches, flakes : 0 .. MaxFlakes,
                  started : SUBSET (1 .. MaxGen), deep : BOOLEAN, hasty : BOOLEAN]

\* The cluster seen as a shard set: members, holders of user data, shards with a volume.
Abstract == INSTANCE ShardSet WITH
    Shards  <- ShardIds,
    members <- {i \in ShardIds : mongo.shard[i] # "absent"},
    holders <- mongo.data,
    volumes <- {i \in ShardIds : mongo.store[i] # "none"}

(***************************************************************************)
(* ImplementsShardSet.  Whatever crashes, fails, conflicts or is edited    *)
(* half-way, the cluster only ever moves as ShardSet allows: a shard that  *)
(* holds data never leaves the shard list, and no volume of a member is    *)
(* deleted (reconcileScaleIn, cleanupShardResources, reconcileAddShards).  *)
(***************************************************************************)
ImplementsShardSet == Abstract!Spec

(***************************************************************************)
(* NothingLost.  User data is only on shards that are in the shard list,   *)
(* and each of these still has its volume (cleanupShardResources deletes   *)
(* what reconcileScaleIn found drained, and nothing else).                 *)
(***************************************************************************)
NothingLost == Abstract!NothingLost

\* Nothing has failed and nobody else wrote to the resource.
Undisturbed == hist.faults = 0 /\ hist.touches = 0 /\ hist.flakes = 0

Member(i) == mongo.shard[i] # "absent"

(***************************************************************************)
(* FlagsTruthful.  Between two reconciles, as long as nothing went wrong   *)
(* and shards are taken away one at a time, ShardsInitialized and          *)
(* ShardsAdded are what the cluster is: no flag outlives the shard whose   *)
(* resources cleanupShardResources deleted.  (With two surplus shards      *)
(* reconcileScaleIn cleans up one, starts to drain the next and returns    *)
(* without a write.)                                                       *)
(***************************************************************************)
FlagsAgree ==
    \A i \in ShardIds : /\ obj.st.added[i] => Member(i)
                        /\ obj.st.inited[i] => mongo.store[i] # "none"

FlagsTruthful == Undisturbed /\ ~ hist.deep /\ pc = "Idle" => FlagsAgree

(***************************************************************************)
(* RunningMeansBuilt.  A resource that reports Running for its generation  *)
(* (observedGeneration) has every declared shard in the shard list and an  *)
(* admin user (updateStatus comes after reconcileAddShards), as long as    *)
(* nothing went wrong and shards are taken away one at a time.             *)
(***************************************************************************)
RunningMeansBuilt ==
    Undisturbed /\ ~ hist.deep /\ obj.st.phase = "Running" /\ obj.st.gen = obj.gen =>
        mongo.admin /\ \A i \in Declared(obj) : Member(i)

(***************************************************************************)
(* StatusTruthful.  While nothing goes wrong, the status says of the       *)
(* cluster what is so: the flags of each shard (WriteShardsInit,           *)
(* WriteAddShards, cleanupShardResources), and phase Running.              *)
(***************************************************************************)
StatusTruthful == FlagsTruthful /\ RunningMeansBuilt

(***************************************************************************)
(* ScaleOutSettles.  When no scale-in is pending and the flags agree with  *)
(* the cluster as a reconcile starts, the declared shard count is reached, *)
(* or a scale-in is asked for, whatever crashes and conflicts happen on    *)
(* the way (reconcileShardsInit, reconcileAddShards).  A declared          *)
(* collection the application has yet to create holds up the report:       *)
(* reconcileShardedCollections requeues before updateStatus.               *)
(***************************************************************************)
AwaitsApplication == obj.spec.key # NoKey /\ mongo.coll = "missing"

Scaled(c) ==
    /\ {i \in ShardIds : Member(i)} = 0 .. c - 1
    /\ obj.st.n = c /\ obj.st.phase = "Running"

NoSurplus == obj.st.n <= obj.spec.count /\ \A i \in ShardIds : Member(i) => i < obj.spec.count

ScaleOutSettles ==
    (pc = "Idle" /\ FlagsAgree /\ NoSurplus)
        ~> (Scaled(obj.spec.count) \/ ~ NoSurplus \/ AwaitsApplication \/ hist.flakes > 0)

(***************************************************************************)
(* ScaleInSettles.  An undisturbed scale-in by one shard drains it,        *)
(* removes it and reports the smaller cluster (reconcileScaleIn), unless   *)
(* the count is raised again.                                              *)
(***************************************************************************)
ScaleInSettles ==
    (obj.st.n = obj.spec.count + 1)
        ~> (obj.st.n <= obj.spec.count \/ AwaitsApplication \/ ~ Undisturbed)

(***************************************************************************)
(* ScalingSettles.  Scaling out and scaling in by one shard come to an     *)
(* end (reconcileShardsInit, reconcileAddShards, reconcileScaleIn).        *)
(***************************************************************************)
ScalingSettles == ScaleOutSettles /\ ScaleInSettles

(***************************************************************************)
(* StagedRollout.  mongos is given a version only when the config server   *)
(* and every declared shard were given it before: the order of steps 2, 4  *)
(* and 6 survives conflicts, restarts and rollbacks.                       *)
(***************************************************************************)
StagedRollout ==
    [][wl'[Mongos].t # wl[Mongos].t =>
          \A w \in {Cfg} \cup Declared(mdbsh) : wl[w].t = wl'[Mongos].t]_vars

(***************************************************************************)
(* AttemptedOnce.  A generation's upgrade is started a second time only    *)
(* when its backup failed (the generation guard of reconcileShardedUpgrade *)
(* is not written on that path).                                           *)
(***************************************************************************)
AttemptedOnce ==
    [][obj.st.up = "" /\ obj'.st.up \in {"BackingUp", "Upgrading"} /\ mdbsh.gen \in hist.started =>
          backups[desired] = "Failed"]_vars

(***************************************************************************)
(* FCVNeverStrands.  No member of the cluster is ever given a binary that  *)
(* cannot run at the feature compatibility version: a rollback does not go *)
(* back behind commitShardedFCV, even when the operator dies before        *)
(* recording it, and an upgrade does not run ahead of it, as long as no    *)
(* edit asks for the next minor before the status reports the current      *)
(* version (the webhook compares the two specs only).                      *)
(***************************************************************************)
FCVNeverStrands ==
    ~ hist.hasty /\ mongo.fcv # 0 =>
        \A w \in {Cfg} \cup {i \in ShardIds : Member(i)} : BinaryRunsAtFCV(wl[w].t, mongo.fcv)

(***************************************************************************)
(* UpgradeConverges.  An upgrade from a version that runs to one that runs *)
(* ends: it is complete and every workload runs it, or it was given up for *)
(* this generation, or its backup failed.  (From a rollout that hangs on a *)
(* broken version no edit leads out: the effective version stays.  An edit *)
(* to the next minor while the current one is being validated leaves the   *)
(* upgrade in Validating: the FCV of a version nobody runs is refused.)    *)
(***************************************************************************)
RunsEverywhere(v) ==
    obj.st.version = v /\ \A w \in {Cfg, Mongos} \cup Declared(obj) : wl[w].v = v /\ wl[w].ready

GivenUp == obj.st.upGen = obj.gen /\ obj.st.version # obj.spec.version

UpgradeConverges ==
    (pc = "Idle" /\ obj.spec.version \notin BadVersions /\ obj.st.eff \notin BadVersions)
        ~> \/ RunsEverywhere(obj.spec.version) \/ GivenUp
           \/ obj.spec.version \in BadVersions \/ backups[obj.spec.version] = "Failed"
           \/ hist.hasty

(***************************************************************************)
(* FailedUpgradeRollsBack.  common_types.go: with rollbackOnFailure the    *)
(* controller rolls back automatically when validation fails.  Read as: an *)
(* upgrade to a version whose pods never become ready does not last.       *)
(***************************************************************************)
FailedUpgradeRollsBack ==
    \A v \in BadVersions :
        (obj.spec.version = v /\ obj.spec.rollback /\ obj.st.eff = v /\ obj.st.prev # NoVersion)
            ~> (obj.st.rb \/ obj.spec.version # v)

(***************************************************************************)
(* RemovedShardIsHandled.  sharding.go: removeShard of a shard that is     *)
(* already removed is answered "shard not found", which the caller         *)
(* handles.  Read as: a scale-in that begins undisturbed comes to an end.  *)
(***************************************************************************)
RemovedShardIsHandled == (obj.st.n > obj.spec.count) ~> (obj.st.n <= obj.spec.count)
=============================================================================
