-------------------- MODULE MongoDBShardedStatus_proofs ----------------------
(***************************************************************************)
(* What the status of a sharded cluster says, for any number of shards,    *)
(* edits, faults and conflicts: that it is true, and that by its record no *)
(* generation's upgrade is attempted twice.                                *)
(***************************************************************************)
EXTENDS MongoDBShardedReconciler_proofs

-----------------------------------------------------------------------------
(***************************************************************************)
(* StatusTruthful.  A Running phase that observed the current generation   *)
(* is true because the pass that wrote it saw every flag set, and a flag   *)
(* is true because it was set after the cluster did what it records.  Both *)
(* have to hold of the copy the pass works on as well as of what is        *)
(* stored, and the stored flags are behind the cluster in the middle of a  *)
(* removal, so SInv says of each stage which of the two tells the truth.   *)
(***************************************************************************)

\* While no fault has happened and no edit has taken two shards away at once.
Calm == Undisturbed /\ ~ hist.deep

\* The flags of the status st over the shards D tell the truth about the
\* cluster c: an added shard is in the shard list, an initialized one has a
\* replica set, and the administrator exists.
Good(st, D, c) ==
    /\ \A i \in D : /\ st.added[i] => c.shard[i] # "absent"
                    /\ st.inited[i] => c.store[i] # "none"
    /\ st.admin => c.admin

\* The cluster c is what the spec of o declares.
Built(o, c) == c.admin /\ \A i \in Declared(o) : c.shard[i] # "absent"

\* The report in the status of o is true of c: a Running phase that observed
\* this generation is about a built cluster, and status.shards counts at most
\* one shard too many.
Report(o, c) ==
    /\ o.st.n <= o.spec.count + 1 /\ o.st.gen <= o.gen
    /\ o.st.phase = "Running" /\ o.st.gen = o.gen => Built(o, c)

\* The stages of a pass from the removal of surplus shards to the write of
\* the added ones, and the two after it.
Adding == {"ScaleIn", "Cleanup", "AddShards", "AddWrite"}

Done == {"Collections", "Status"}

\* The stored status tells the truth.  While a pass is between sh.removeShard
\* and the write of status.shards the stored flags may name a shard that has
\* left: that write is what makes them true again.
ObjTrue ==
    /\ fresh = TRUE
    /\ Report(obj, mongo)
    /\ (pc \notin Adding) \/ (pc = "ScaleIn" /\ idx < mdbsh.st.n) => Good(obj.st, ShardIds, mongo)

\* So does the copy the pass works on, but for the shard it has just removed.
CopyTrue ==
    /\ mdbsh.spec = obj.spec /\ mdbsh.gen = obj.gen /\ Report(mdbsh, mongo)
    /\ pc # "Cleanup" => Good(mdbsh.st, ShardIds, mongo)
    /\ pc = "Cleanup" => Good(mdbsh.st, ShardIds \ {idx}, mongo)

\* What the pass has established on its way: it only removes surplus shards,
\* it comes to the shard list with every shard initialized, and to the report
\* with every shard added and the administrator created.
PassTrue ==
    /\ pc \in {"ScaleIn", "Cleanup"} => idx >= mdbsh.spec.count
    /\ pc \in Adding \cup {"Admin"} => areShardsInitialized(mdbsh)
    /\ pc \in Done => \A i \in Declared(mdbsh) : mdbsh.st.added[i]
    /\ pc \in Adding \cup Done => mongo.admin

\* The strengthening of StatusTruthful that the steps preserve.
STrue == ObjTrue /\ (pc # "Idle" => CopyTrue) /\ PassTrue

SInv == Calm => STrue

\* From c to d no shard leaves, no replica set disappears and the
\* administrator stays.
Grows(c, d) ==
    /\ \A i \in ShardIds : /\ c.shard[i] # "absent" => d.shard[i] # "absent"
                           /\ c.store[i] # "none" => d.store[i] # "none"
    /\ c.admin => d.admin

\* o and p report the same, but for a phase that may fall from Running.
Same(o, p) ==
    /\ o.spec = p.spec /\ o.gen = p.gen
    /\ o.st.inited = p.st.inited /\ o.st.added = p.st.added /\ o.st.admin = p.st.admin
    /\ o.st.n = p.st.n /\ o.st.gen = p.st.gen
    /\ o.st.phase = "Running" => p.st.phase = "Running"

\* True flags stay true while the cluster grows, and so does a true report.
LEMMA GoodGrows ==
    ASSUME NEW st, NEW D \in SUBSET ShardIds, NEW c, NEW d, Good(st, D, c), Grows(c, d)
    PROVE  Good(st, D, d)
BY DEF Good, Grows

LEMMA ReportGrows ==
    ASSUME NEW o, NEW c, NEW d, Report(o, c), Grows(c, d)
    PROVE  Report(o, d)
BY DEF Report, Grows, Built, Declared

\* Truth carries over from a status to one that reports the same.
LEMMA SameReport ==
    ASSUME NEW o, NEW p, NEW c, Same(o, p), Report(p, c)
    PROVE  Report(o, c)
BY DEF Report, Same, Built, Declared

LEMMA SameGood ==
    ASSUME NEW o, NEW p, NEW c, NEW D, Same(o, p), Good(p.st, D, c)
    PROVE  Good(o.st, D, c)
BY DEF Same, Good

\* A cluster that stays is one that grows.
LEMMA GrowsRefl == \A c : Grows(c, c)
BY DEF Grows

\* In the absence of faults UpdateWithRetry starts from the very copy of the
\* pass.
LEMMA BaseIsCopy == ASSUME TInv, STrue, pc # "Idle" PROVE Base = mdbsh
<1>1. obj \in Resource /\ mdbsh \in Resource /\ fresh = TRUE /\ mdbsh.spec = obj.spec /\ mdbsh.gen = obj.gen
    BY DEF TInv, PassOK, STrue, ObjTrue, CopyTrue
<1> QED BY <1>1 DEF Base, Resource

\* The closures of the upgrade, and those of the phases and of the config
\* server, report nothing about shards.
LEMMA SameClosures ==
    ASSUME NEW o \in Resource
    PROVE  /\ Same(setFailed(o), o) /\ Same(setInitializing(o), o) /\ Same(seed(o), o)
           /\ Same(clearUpgrade(o), o) /\ Same(startUpgrade(o), o) /\ Same(backupDone(o), o)
           /\ Same(completeUpgrade(o), o) /\ Same(initiateRollback(o), o) /\ Same(giveUp(o), o)
           /\ Same(rollback(o), o) /\ Same(setValidating(o), o)
           /\ Same(setConfigServerInitialized(o), o)
<1>0. o.st \in StatusType
    BY ResourceParts
<1> DEFINE Flags(s) == /\ s.inited = o.st.inited /\ s.added = o.st.added /\ s.admin = o.st.admin
                       /\ s.n = o.st.n /\ s.gen = o.st.gen
                       /\ s.phase = "Running" => o.st.phase = "Running"
<1>1. ASSUME NEW s, Flags(s) PROVE Same([o EXCEPT !.st = s], o)
    BY <1>1 DEF Same, Resource
<1>2. Same(setFailed(o), o) /\ Same(setInitializing(o), o)
    <2>1. Flags([o.st EXCEPT !.phase = "Failed"]) /\ Flags([o.st EXCEPT !.phase = "Initializing"])
        BY <1>0, Zenon DEF StatusType
    <2> HIDE DEF Flags
    <2> QED BY <1>1, <2>1 DEF setFailed, setInitializing
<1>3. Same(seed(o), o)
    <2> DEFINE e == IF o.st.eff = NoVersion THEN desired ELSE o.st.eff
               v == IF o.st.version = NoVersion THEN e ELSE o.st.version
    <2>1. seed(o) = [o EXCEPT !.st = [o.st EXCEPT !.eff = e, !.version = v]]
        BY DEF seed
    <2> HIDE DEF e, v
    <2>2. Flags([o.st EXCEPT !.eff = e, !.version = v])
        BY <1>0, Zenon DEF StatusType
    <2> HIDE DEF Flags
    <2> QED BY <1>1, <2>1, <2>2
<1>4. Same(clearUpgrade(o), o)
    <2>1. Flags([o.st EXCEPT !.up = "", !.start = NoTime])
        BY <1>0, Zenon DEF StatusType
    <2> HIDE DEF Flags
    <2> QED BY <1>1, <2>1 DEF clearUpgrade
<1>5. Same(startUpgrade(o), o)
    <2> DEFINE u == IF o.spec.backup THEN "BackingUp" ELSE "Upgrading"
               s == [o.st EXCEPT !.prev = mdbsh.st.version, !.eff = desired, !.rb = FALSE,
                                 !.start = 0, !.up = u]
    <2>1. startUpgrade(o) = [o EXCEPT !.st = s]
        BY Zenon DEF startUpgrade
    <2> HIDE DEF u
    <2>2. Flags(s)
        BY <1>0, Zenon DEF StatusType
    <2> HIDE DEF Flags, s
    <2> QED BY <1>1, <2>1, <2>2
<1>6. Same(backupDone(o), o) /\ Same(initiateRollback(o), o)
    <2>1. Flags([o.st EXCEPT !.up = "Upgrading"]) /\ Flags([o.st EXCEPT !.up = "RollingBack"])
        BY <1>0, Zenon DEF StatusType
    <2> HIDE DEF Flags
    <2> QED BY <1>1, <2>1 DEF backupDone, initiateRollback
<1>7. Same(completeUpgrade(o), o)
    <2> DEFINE f == fcvMajorMinor(desired)
               s == [o.st EXCEPT !.version = desired, !.eff = desired, !.fcv = f, !.rb = FALSE,
                                 !.up = "", !.start = NoTime, !.upGen = o.gen]
    <2>1. completeUpgrade(o) = [o EXCEPT !.st = s]
        BY Zenon DEF completeUpgrade
    <2> HIDE DEF f
    <2>2. Flags(s)
        BY <1>0, Zenon DEF StatusType
    <2> HIDE DEF Flags, s
    <2> QED BY <1>1, <2>1, <2>2
<1>8. Same(giveUp(o), o)
    <2>1. Flags([o.st EXCEPT !.up = "", !.start = NoTime, !.upGen = o.gen])
        BY <1>0, Zenon DEF StatusType
    <2> HIDE DEF Flags
    <2> QED BY <1>1, <2>1 DEF giveUp
<1>9. Same(rollback(o), o)
    <2>1. Flags([o.st EXCEPT !.eff = mdbsh.st.prev, !.rb = TRUE, !.up = "", !.start = NoTime,
                             !.upGen = o.gen])
        BY <1>0, Zenon DEF StatusType
    <2> HIDE DEF Flags
    <2> QED BY <1>1, <2>1 DEF rollback
<1>10. Same(setValidating(o), o)
    <2> DEFINE t == IF o.st.start = NoTime THEN 0 ELSE o.st.start
    <2>1. setValidating(o) = [o EXCEPT !.st = [o.st EXCEPT !.up = "Validating", !.start = t]]
        BY DEF setValidating
    <2> HIDE DEF t
    <2>2. Flags([o.st EXCEPT !.up = "Validating", !.start = t])
        BY <1>0, Zenon DEF StatusType
    <2> HIDE DEF Flags
    <2> QED BY <1>1, <2>1, <2>2
<1>11. Same(setConfigServerInitialized(o), o)
    <2>1. Flags([o.st EXCEPT !.cfgInit = TRUE])
        BY <1>0, Zenon DEF StatusType
    <2> HIDE DEF Flags
    <2> QED BY <1>1, <2>1, Zenon DEF setConfigServerInitialized
<1> QED BY <1>2, <1>3, <1>4, <1>5, <1>6, <1>7, <1>8, <1>9, <1>10, <1>11, SMTT(30)

\* A step that ends the pass.
LEMMA TrueReturn ==
    ASSUME STrue, pc # "Idle", pc # "Cleanup", Return, Grows(mongo, mongo'),
           \/ Same(obj', mdbsh)
           \/ obj' = obj /\ (pc \notin Adding \/ (pc = "ScaleIn" /\ idx < mdbsh.st.n))
    PROVE  STrue'
<1>1. pc' = "Idle" /\ fresh' = TRUE
    BY DEF Return
<1>2. Report(obj', mongo') /\ Good(obj'.st, ShardIds, mongo')
    <2>1. CASE Same(obj', mdbsh)
        <3>1. Report(obj', mongo) /\ Good(obj'.st, ShardIds, mongo)
            BY <2>1, SameReport, SameGood DEF STrue, CopyTrue
        <3> QED BY <3>1, ReportGrows, GoodGrows
    <2>2. CASE obj' = obj /\ (pc \notin Adding \/ (pc = "ScaleIn" /\ idx < mdbsh.st.n))
        <3>1. Report(obj', mongo) /\ Good(obj'.st, ShardIds, mongo)
            BY <2>2 DEF STrue, ObjTrue
        <3> QED BY <3>1, ReportGrows, GoodGrows
    <2> QED BY <2>1, <2>2, SMTT(30)
<1> QED BY <1>1, <1>2 DEF STrue, ObjTrue, CopyTrue, PassTrue, Adding, Done

\* The stages of a pass before it creates the administrator.
Plain == pc \notin Adding \cup Done \cup {"Admin", "Idle"}

\* A step that writes nothing and stays before the shard list.
LEMMA TrueSilent ==
    ASSUME STrue, Plain, Plain', Grows(mongo, mongo'), UNCHANGED <<obj, fresh>>, mdbsh' = mdbsh
    PROVE  STrue'
<1>1. Report(obj, mongo') /\ Report(mdbsh, mongo')
    BY ReportGrows DEF STrue, ObjTrue, CopyTrue, Plain
<1>2. Good(obj.st, ShardIds, mongo') /\ Good(mdbsh.st, ShardIds, mongo')
    BY GoodGrows DEF STrue, ObjTrue, CopyTrue, Plain, Adding
<1> QED BY <1>1, <1>2 DEF STrue, ObjTrue, CopyTrue, PassTrue, Adding, Done, Plain

\* A write before the shard list.
LEMMA TrueWrite ==
    ASSUME STrue, Plain, Plain', Grows(mongo, mongo'), NEW o, Write(o), Same(o, mdbsh)
    PROVE  STrue'
<1>1. Report(o, mongo') /\ Good(o.st, ShardIds, mongo')
    <2>1. Report(o, mongo) /\ Good(o.st, ShardIds, mongo)
        BY SameReport, SameGood DEF STrue, CopyTrue, Plain, Adding
    <2> QED BY <2>1, ReportGrows, GoodGrows, SMTT(30)
<1> QED BY <1>1 DEF STrue, ObjTrue, CopyTrue, PassTrue, Adding, Done, Plain, Write

\* The steps that decide about an upgrade change no report.
LEMMA TrueUpgrade ==
    ASSUME TInv, STrue,
           \/ SetInitializing \/ Seed \/ NoUpgrade \/ NothingToDecide
           \/ StartUpgrade \/ BackingUp \/ CommitFCV \/ CompleteUpgrade \/ KeepValidating
           \/ ValidationTimedOut \/ RollBack \/ SetValidating
    PROVE  STrue'
<1>0. /\ Plain /\ pc # "Idle" /\ pc \notin Adding /\ pc # "Cleanup"
    BY Zenon DEF SetInitializing, Seed, NoUpgrade, NothingToDecide, StartUpgrade, BackingUp, CommitFCV,
       CompleteUpgrade, KeepValidating, ValidationTimedOut, RollBack, SetValidating, UpgradeAt,
       RunningAt, Plain, Adding, Done
<1>1. Grows(mongo, mongo')
    <2>1. mongo \in ClusterType
        BY DEF TInv, EnvOK
    <2>2. mongo' = mongo \/ (\E f : mongo' = [mongo EXCEPT !.fcv = f])
        BY Zenon DEF SetInitializing, Seed, NoUpgrade, NothingToDecide, StartUpgrade, BackingUp,
           CommitFCV, commitShardedFCV, CompleteUpgrade, KeepValidating, ValidationTimedOut,
           RollBack, SetValidating, WriteAndGoto, env
    <2> QED BY <2>1, <2>2, GrowsRefl DEF Grows, ClusterType
<1>2. Base = mdbsh /\ mdbsh \in Resource
    BY <1>0, BaseIsCopy DEF TInv, PassOK
<1> DEFINE Closure(o) == \/ o = setInitializing(mdbsh) \/ o = seed(mdbsh) \/ o = clearUpgrade(mdbsh)
                         \/ o = startUpgrade(mdbsh) \/ o = backupDone(mdbsh)
                         \/ o = completeUpgrade(mdbsh) \/ o = initiateRollback(mdbsh)
                         \/ o = giveUp(mdbsh) \/ o = rollback(mdbsh) \/ o = setValidating(mdbsh)
<1>3. ASSUME NEW o, Closure(o) PROVE Same(o, mdbsh)
    BY <1>2, <1>3, SameClosures, SMTT(30)
<1>4. ASSUME NEW o, Closure(o), WriteAndReturn(o) PROVE STrue'
    BY <1>0, <1>1, <1>3, <1>4, TrueReturn DEF WriteAndReturn
<1>5. ASSUME NEW o, Closure(o), Write(o), Plain' PROVE STrue'
    BY <1>0, <1>1, <1>3, <1>5, TrueWrite
<1>6. ASSUME UNCHANGED <<obj, mdbsh, fresh>>, Plain' PROVE STrue'
    BY <1>0, <1>1, <1>6, TrueSilent
<1>7. ASSUME obj' = obj, Return PROVE STrue'
    BY <1>0, <1>1, <1>7, TrueReturn, SMTT(30)
<1>8. CASE SetInitializing
    <2>1. Plain'
        BY <1>8 DEF SetInitializing, Plain, Adding, Done
    <2> QED BY <1>2, <1>5, <1>6, <1>8, <2>1, SMTT(30) DEF SetInitializing
<1>9. CASE Seed \/ NoUpgrade \/ NothingToDecide \/ CommitFCV
    <2>1. Plain'
        BY <1>9, Zenon DEF Seed, NoUpgrade, NothingToDecide, CommitFCV, WriteAndGoto, Goto, Plain, Adding, Done
    <2> QED BY <1>2, <1>5, <1>6, <1>9, <2>1, Zenon DEF Seed, NoUpgrade, NothingToDecide, CommitFCV, WriteAndGoto
<1>10. CASE StartUpgrade \/ CompleteUpgrade \/ ValidationTimedOut \/ SetValidating
    BY <1>2, <1>4, <1>10, Zenon DEF StartUpgrade, CompleteUpgrade, ValidationTimedOut, SetValidating
<1>11. CASE RollBack
    BY <1>2, <1>4, <1>11 DEF RollBack
<1>12. CASE KeepValidating
    BY <1>7, <1>12 DEF KeepValidating
<1>13. CASE BackingUp
    BY <1>2, <1>4, <1>7, <1>13 DEF BackingUp, WriteAndReturn
<1> QED BY <1>8, <1>9, <1>10, <1>11, <1>12, <1>13, SMTT(30)

\* rs.initiate only adds replica sets, and adds those it is asked for.
LEMMA InitiateGrows ==
    ASSUME TInv, NEW W, Initiate(W)
    PROVE  /\ Grows(mongo, mongo')
           /\ \A i \in ShardIds : i \in W /\ AnonymousAdmin => mongo'.store[i] # "none"
<1> DEFINE new == {w \in W : AnonymousAdmin /\ ~ Initiated(w)}
           x == [w \in DOMAIN mongo.store |-> IF w \in new THEN "rs" ELSE mongo.store[w]]
           c == [mongo EXCEPT !.store = x]
<1>1. mongo \in ClusterType
    BY DEF TInv, EnvOK
<1>2. \E f : mongo' = [c EXCEPT !.fcv = f]
    BY Zenon DEF Initiate
<1>3. c.shard = mongo.shard /\ c.store = x /\ c.admin = mongo.admin /\ c \in [DOMAIN mongo -> {c[k] : k \in DOMAIN c}]
    <2> HIDE DEF x
    <2> QED BY <1>1 DEF ClusterType
<1>4. mongo'.shard = mongo.shard /\ mongo'.store = x /\ mongo'.admin = mongo.admin
    <2> HIDE DEF c, x
    <2> QED BY <1>1, <1>2, <1>3 DEF ClusterType
<1>5. \A i \in ShardIds : /\ mongo.store[i] # "none" => x[i] # "none"
                          /\ i \in W /\ AnonymousAdmin => x[i] # "none"
    BY <1>1, ClusterParts DEF Initiated
<1> HIDE DEF x
<1> QED BY <1>4, <1>5 DEF Grows

\* The steps up to the administrator keep the truth.
LEMMA TrueBootstrap ==
    ASSUME TInv, STrue,
           \/ reconcileConfigServer \/ reconcileShard \/ reconcileMongos
           \/ reconcileConfigServerInit \/ reconcileShardsInit \/ WriteShardsInit
           \/ reconcileShardedAdminUser
    PROVE  STrue'
<1>0. pc # "Idle" /\ pc \notin Adding /\ pc # "Cleanup" /\ (reconcileShardedAdminUser \/ Plain)
    BY DEF reconcileConfigServer, reconcileShard, reconcileMongos, reconcileConfigServerInit,
       reconcileShardsInit, WriteShardsInit, reconcileShardedAdminUser, RunningAt, Plain, Adding, Done
<1>2. Base = mdbsh /\ mdbsh \in Resource /\ mdbsh.st \in StatusType
    BY <1>0, BaseIsCopy, ResourceParts, SMTT(30) DEF TInv, PassOK
<1>00. /\ ObjTrue /\ CopyTrue /\ Good(obj.st, ShardIds, mongo) /\ Good(mdbsh.st, ShardIds, mongo)
       /\ Report(obj, mongo) /\ Report(mdbsh, mongo) /\ fresh = TRUE
    BY <1>0 DEF STrue, ObjTrue, CopyTrue
<1>3. CASE reconcileConfigServer \/ reconcileShard \/ reconcileMongos
    <2>1. mongo' = mongo
        BY <1>3, SMTT(30) DEF reconcileConfigServer, reconcileShard, reconcileMongos
    <2>2. \/ UNCHANGED <<obj, mdbsh, fresh>> /\ Plain'
          \/ obj' = obj /\ Return
        BY <1>3 DEF reconcileConfigServer, reconcileShard, reconcileMongos, Goto, Plain, Adding, Done
    <2> QED BY <1>0, <1>3, <2>1, <2>2, GrowsRefl, TrueSilent, TrueReturn, Zenon
            DEF reconcileShardedAdminUser, reconcileConfigServer, reconcileShard, reconcileMongos,
                RunningAt, Plain, Adding, Done
<1>4. CASE reconcileConfigServerInit
    <2>0. Plain
        BY <1>4, SMTT(30) DEF reconcileConfigServerInit, RunningAt, Plain, Adding, Done
    <2>1. Grows(mongo, mongo')
        BY <1>4, InitiateGrows, GrowsRefl, SMTT(30) DEF reconcileConfigServerInit
    <2>2. CASE updateStatusError
        BY <1>0, <1>2, <2>1, <2>2, SameClosures, TrueReturn DEF updateStatusError, WriteAndReturn
    <2>3. CASE Goto("ShardsInit")
        <3>1. Plain'
            BY <2>3 DEF Goto, Plain, Adding, Done
        <3>2. UNCHANGED <<obj, mdbsh, fresh>> \/ Write(setConfigServerInitialized(mdbsh))
            BY <1>2, <1>4, <2>3 DEF reconcileConfigServerInit, updateStatusError, WriteAndReturn, Return, Goto
        <3> QED BY <1>2, <2>0, <2>1, <3>1, <3>2, SameClosures, TrueSilent, TrueWrite
    <2> QED BY <1>4, <2>2, <2>3 DEF reconcileConfigServerInit
<1>5. CASE reconcileShardsInit
    <2> DEFINE W == {i \in Declared(mdbsh) : ~ mdbsh.st.inited[i]}
               f == [i \in ShardIds |-> mdbsh.st.inited[i]
                        \/ (i \in Declared(mdbsh) /\ (Initiated(i) \/ AnonymousAdmin))]
    <2>1. /\ Grows(mongo, mongo')
          /\ \A i \in ShardIds : i \in W /\ AnonymousAdmin => mongo'.store[i] # "none"
        BY <1>5, InitiateGrows DEF reconcileShardsInit
    <2>2. mdbsh' = [mdbsh EXCEPT !.st = [mdbsh.st EXCEPT !.inited = f]]
        BY <1>5 DEF reconcileShardsInit
    <2>3. /\ mdbsh'.spec = mdbsh.spec /\ mdbsh'.gen = mdbsh.gen /\ mdbsh'.st.inited = f
          /\ mdbsh'.st.added = mdbsh.st.added /\ mdbsh'.st.admin = mdbsh.st.admin
          /\ mdbsh'.st.n = mdbsh.st.n /\ mdbsh'.st.gen = mdbsh.st.gen /\ mdbsh'.st.phase = mdbsh.st.phase
        <3> HIDE DEF f
        <3> QED BY <1>2, <2>2, Zenon DEF Resource, StatusType
    <2>4. Report(obj, mongo') /\ Good(obj.st, ShardIds, mongo')
        BY <1>00, <2>1, ReportGrows, GoodGrows
    <2>5. Report(mdbsh', mongo')
        <3>1. Report(mdbsh, mongo')
            BY <1>00, <2>1, ReportGrows
        <3> QED BY <2>3, <3>1 DEF Report, Built, Declared
    <2>6. Good(mdbsh'.st, ShardIds, mongo')
        <3>1. Good(mdbsh.st, ShardIds, mongo')
            BY <1>00, <2>1, GoodGrows
        <3>2. \A i \in ShardIds : f[i] => mongo'.store[i] # "none"
            BY <2>1, <3>1, Zenon DEF Good, Initiated, Grows
        <3> HIDE DEF f
        <3> QED BY <2>3, <3>1, <3>2 DEF Good
    <2>7. pc' = "InitWrite" /\ UNCHANGED <<obj, fresh>>
        BY <1>5 DEF reconcileShardsInit, Goto
    <2> QED BY <1>00, <2>3, <2>4, <2>5, <2>6, <2>7
            DEF STrue, ObjTrue, CopyTrue, PassTrue, Adding, Done
<1>6. CASE WriteShardsInit
    <2>1. initializedSnapshot(mdbsh) = mdbsh
        BY <1>2, Zenon DEF initializedSnapshot, Resource, StatusType
    <2>2. CASE Write(mdbsh) /\ pc' = "Admin" /\ mongo' = mongo /\ \A i \in Declared(mdbsh) : mdbsh.st.inited[i]
        BY <1>00, <2>2 DEF Write, STrue, ObjTrue, CopyTrue, PassTrue, Adding, Done, areShardsInitialized, Declared
    <2>3. CASE obj' = setFailed(mdbsh) /\ Return /\ mongo' = mongo
        BY <1>0, <1>2, <2>3, GrowsRefl, SameClosures, TrueReturn
    <2> QED BY <1>2, <1>6, <2>1, <2>2, <2>3 DEF WriteShardsInit, WriteAndGoto, WriteAndReturn, Goto, env
<1>7. CASE reconcileShardedAdminUser
    <2>0. mongo' = mongo /\ pc = "Admin"
        BY <1>7 DEF reconcileShardedAdminUser, env, RunningAt
    <2>1. CASE UNCHANGED obj /\ Return
        BY <1>0, <2>0, <2>1, GrowsRefl, TrueReturn
    <2>2. CASE updateStatusError
        BY <1>0, <1>2, <2>0, <2>2, GrowsRefl, SameClosures, TrueReturn DEF updateStatusError, WriteAndReturn
    <2>3. CASE /\ mdbsh.st.admin \/ mongo.admin
               /\ IF mdbsh.st.admin THEN UNCHANGED <<obj, mdbsh, fresh>>
                                    ELSE Write(setAdminUserCreated(Base))
               /\ pc' = "ScaleIn" /\ idx' = mdbsh'.spec.count
        <3>0. areShardsInitialized(mdbsh) /\ mongo.admin
            BY <1>00, <2>0, <2>3 DEF STrue, PassTrue, Good
        <3>00. mdbsh.spec.count \in Int
            BY <1>2, ResourceParts, SpecFacts, SMTT(30)
        <3>1. CASE UNCHANGED <<obj, mdbsh, fresh>>
            BY <1>00, <2>0, <2>3, <3>0, <3>00, <3>1, SMTT(30)
               DEF STrue, ObjTrue, CopyTrue, PassTrue, Adding, Done, areShardsInitialized, Declared
        <3>2. CASE Write(setAdminUserCreated(mdbsh))
            <4> DEFINE o == setAdminUserCreated(mdbsh)
            <4>1. /\ o.spec = mdbsh.spec /\ o.gen = mdbsh.gen /\ o.st.inited = mdbsh.st.inited
                  /\ o.st.added = mdbsh.st.added
                  /\ o.st.n = mdbsh.st.n /\ o.st.gen = mdbsh.st.gen /\ o.st.phase = mdbsh.st.phase
                BY <1>2, Zenon DEF setAdminUserCreated, Resource, StatusType
            <4> HIDE DEF o
            <4>2. Report(o, mongo) /\ Good(o.st, ShardIds, mongo) /\ areShardsInitialized(o)
                BY <1>00, <3>0, <4>1 DEF Report, Good, Built, Declared, areShardsInitialized
            <4>3. obj' = o /\ mdbsh' = o /\ fresh' = TRUE
                BY <3>2 DEF Write, o
            <4> QED BY <2>0, <2>3, <3>0, <3>00, <4>1, <4>2, <4>3
                    DEF STrue, ObjTrue, CopyTrue, PassTrue, Adding, Done, areShardsInitialized, Declared
        <3> QED BY <1>2, <2>3, <3>1, <3>2
    <2> QED BY <1>7, <2>1, <2>2, <2>3 DEF reconcileShardedAdminUser
<1> QED BY <1>3, <1>4, <1>5, <1>6, <1>7

\* The steps that take a surplus shard away keep it: the flag falls with the
\* shard.
LEMMA TrueScaleIn ==
    ASSUME TInv, STrue, NoScaleIn \/ reconcileScaleIn \/ cleanupShardResources
    PROVE  STrue'
<1>0. pc \in {"ScaleIn", "Cleanup"}
    BY DEF NoScaleIn, reconcileScaleIn, cleanupShardResources, RunningAt
<1>1. /\ Base = mdbsh /\ mdbsh \in Resource /\ mdbsh.st \in StatusType /\ mongo \in ClusterType
      /\ mdbsh.spec.count \in Int /\ mdbsh.st.n \in Int /\ idx \in Int
    <2>1. /\ Base = mdbsh /\ mdbsh \in Resource /\ mdbsh.st \in StatusType /\ mdbsh.spec \in Specs
          /\ mongo \in ClusterType /\ idx \in 0 .. MaxShards
        BY <1>0, BaseIsCopy, ResourceParts DEF TInv, PassOK, EnvOK
    <2>2. mdbsh.st.n \in 0 .. MaxShards
        BY <2>1, Zenon DEF StatusType
    <2> QED BY <2>1, <2>2, SpecFacts
<1>2. /\ ObjTrue /\ CopyTrue /\ Report(obj, mongo) /\ Report(mdbsh, mongo) /\ fresh = TRUE
      /\ idx >= mdbsh.spec.count /\ areShardsInitialized(mdbsh) /\ mongo.admin
      /\ mdbsh.spec = obj.spec /\ mdbsh.gen = obj.gen
    BY <1>0 DEF STrue, ObjTrue, CopyTrue, PassTrue, Adding
<1>3. CASE NoScaleIn
    <2>1. /\ pc' = "AddShards" /\ UNCHANGED <<obj, mdbsh, fresh, mongo>> /\ pc = "ScaleIn"
        BY <1>3 DEF NoScaleIn, env, RunningAt
    <2> QED BY <1>2, <2>1 DEF STrue, ObjTrue, CopyTrue, PassTrue, Adding, Done, areShardsInitialized, Declared
<1>4. CASE reconcileScaleIn
    <2> DEFINE x == [mongo.shard EXCEPT ![idx] = ShardAfterRemove(idx)]
    <2>1. mongo' = [mongo EXCEPT !.shard = x] /\ pc = "ScaleIn" /\ idx < mdbsh.st.n
        BY <1>4, Zenon DEF reconcileScaleIn, RunningAt
    <2>2. mongo'.shard = x /\ mongo'.store = mongo.store /\ mongo'.admin = mongo.admin
        <3> HIDE DEF x
        <3> QED BY <1>1, <2>1 DEF ClusterType
    <2>3. Good(mdbsh.st, ShardIds, mongo) /\ Good(obj.st, ShardIds, mongo)
        BY <1>2, <2>1 DEF ObjTrue, CopyTrue
    <2>4. \A i \in ShardIds \ {idx} : x[i] = mongo.shard[i]
        BY <1>1, ClusterParts
    <2>5. CASE RemoveShardWithStatus(idx) = "completed"
        <3>1. pc' = "Cleanup" /\ UNCHANGED <<obj, mdbsh, fresh, idx>>
            BY <1>4, <2>5 DEF reconcileScaleIn, Goto
        <3>2. \A i \in Declared(mdbsh) : mongo'.shard[i] = mongo.shard[i]
            <4>1. Declared(mdbsh) \subseteq ShardIds \ {idx}
                BY <1>1, <1>2 DEF Declared, ShardIds
            <4> HIDE DEF x
            <4> QED BY <2>2, <2>4, <4>1
        <3>3. Report(obj, mongo') /\ Report(mdbsh, mongo')
            BY <1>2, <2>2, <3>2 DEF Report, Built, Declared
        <3>4. Good(mdbsh.st, ShardIds \ {idx}, mongo')
            <4> HIDE DEF x
            <4> QED BY <2>2, <2>3, <2>4 DEF Good
        <3> QED BY <1>2, <2>2, <3>1, <3>3, <3>4
                DEF STrue, ObjTrue, CopyTrue, PassTrue, Adding, Done, areShardsInitialized, Declared
    <2>6. CASE RemoveShardWithStatus(idx) # "completed"
        <3>1. Grows(mongo, mongo')
            <4>1. \A i \in ShardIds : mongo.shard[i] # "absent" => x[i] # "absent"
                BY <1>1, <2>6, ClusterParts DEF ShardAfterRemove
            <4> HIDE DEF x
            <4> QED BY <2>2, <4>1 DEF Grows
        <3>2. updateStatusError \/ (UNCHANGED obj /\ Return)
            BY <1>4, <2>6 DEF reconcileScaleIn
        <3>3. Same(obj', mdbsh) \/ obj' = obj
            BY <1>1, <3>2, SameClosures DEF updateStatusError, WriteAndReturn
        <3>4. Return
            BY <3>2 DEF updateStatusError, WriteAndReturn
        <3> QED BY <2>1, <3>1, <3>3, <3>4, TrueReturn
    <2> QED BY <2>5, <2>6
<1>5. CASE cleanupShardResources
    <2> DEFINE a == [mdbsh.st.added EXCEPT ![idx] = FALSE]
               b == [mdbsh.st.inited EXCEPT ![idx] = FALSE]
               e == [mdbsh.st EXCEPT !.added = a]
               x == [mongo.store EXCEPT ![idx] = "none"]
    <2>0. pc = "Cleanup" /\ idx < mdbsh.st.n /\ pc' = "ScaleIn" /\ idx' = idx + 1 /\ UNCHANGED <<obj, fresh>>
        BY <1>5 DEF cleanupShardResources, RunningAt, TInv, PassOK
    <2>1. e.inited = mdbsh.st.inited /\ e \in [DOMAIN mdbsh.st -> {e[k] : k \in DOMAIN e}]
        <3> HIDE DEF a
        <3> QED BY <1>1, Zenon DEF StatusType
    <2>2. mdbsh' = [mdbsh EXCEPT !.st = [e EXCEPT !.inited = b]]
        <3>1. mdbsh' = [mdbsh EXCEPT !.st = [e EXCEPT !.inited = [e.inited EXCEPT ![idx] = FALSE]]]
            BY <1>5, Zenon DEF cleanupShardResources
        <3> HIDE DEF e
        <3> QED BY <2>1, <3>1
    <2>3. /\ mdbsh'.spec = mdbsh.spec /\ mdbsh'.gen = mdbsh.gen
          /\ mdbsh'.st.inited = b /\ mdbsh'.st.added = a /\ mdbsh'.st.admin = mdbsh.st.admin
          /\ mdbsh'.st.n = mdbsh.st.n /\ mdbsh'.st.gen = mdbsh.st.gen /\ mdbsh'.st.phase = mdbsh.st.phase
        <3> HIDE DEF a, b
        <3> QED BY <1>1, <2>2, Zenon DEF Resource, StatusType
    <2>4. mongo'.shard = mongo.shard /\ mongo'.store = x /\ mongo'.admin = mongo.admin
        <3>1. mongo' = [mongo EXCEPT !.store = x]
            BY <1>5, Zenon DEF cleanupShardResources
        <3> HIDE DEF x
        <3> QED BY <1>1, <3>1 DEF ClusterType
    <2>5. \A i \in ShardIds \ {idx} : /\ x[i] = mongo.store[i] /\ a[i] = mdbsh.st.added[i]
                                      /\ b[i] = mdbsh.st.inited[i]
        BY <1>1, ClusterParts, Zenon DEF StatusType
    <2>6. idx \in ShardIds => a[idx] = FALSE /\ b[idx] = FALSE
        BY <1>1, Zenon DEF StatusType
    <2> HIDE DEF a, b, x, e
    <2>7. Good(mdbsh'.st, ShardIds, mongo')
        <3>1. Good(mdbsh.st, ShardIds \ {idx}, mongo)
            BY <1>2, <2>0 DEF CopyTrue
        <3> QED BY <2>3, <2>4, <2>5, <2>6, <3>1, SMTT(30) DEF Good
    <2>8. Report(obj, mongo') /\ Report(mdbsh', mongo')
        BY <1>2, <2>3, <2>4 DEF Report, Built, Declared
    <2>9. idx' >= mdbsh'.spec.count /\ ~ (idx' < mdbsh'.st.n)
        BY <1>1, <1>2, <2>0, <2>3 DEF Report
    <2>10. areShardsInitialized(mdbsh')
        <3>1. Declared(mdbsh') = Declared(mdbsh) /\ Declared(mdbsh) \subseteq ShardIds \ {idx}
            BY <1>1, <1>2, <2>3 DEF Declared, ShardIds
        <3>2. \A i \in Declared(mdbsh) : mdbsh.st.inited[i]
            BY <1>2 DEF areShardsInitialized
        <3> QED BY <2>3, <2>5, <3>1, <3>2 DEF areShardsInitialized
    <2> QED BY <1>2, <2>0, <2>3, <2>4, <2>7, <2>8, <2>9, <2>10, Zenon
            DEF STrue, ObjTrue, CopyTrue, PassTrue, Adding, Done, areShardsInitialized, Declared
<1> QED BY <1>3, <1>4, <1>5

\* The steps that add shards and write the report keep it: a Running report
\* follows a pass that saw every declared shard added.
LEMMA TrueAddShards ==
    ASSUME TInv, STrue,
           reconcileAddShards \/ WriteAddShards \/ reconcileShardedCollections \/ updateStatus
    PROVE  STrue'
<1>0. pc \in {"AddShards", "AddWrite", "Collections", "Status"}
    BY DEF reconcileAddShards, WriteAddShards, reconcileShardedCollections, updateStatus, RunningAt
<1>1. /\ Base = mdbsh /\ mdbsh \in Resource /\ mdbsh.st \in StatusType /\ mongo \in ClusterType
      /\ mdbsh.spec \in Specs /\ mdbsh.gen \in Int /\ mdbsh.spec.count \in Int
    BY <1>0, BaseIsCopy, ResourceParts, SpecFacts DEF TInv, PassOK, EnvOK
<1>2. /\ ObjTrue /\ CopyTrue /\ Report(obj, mongo) /\ Report(mdbsh, mongo) /\ fresh = TRUE
      /\ mongo.admin /\ mdbsh.spec = obj.spec /\ mdbsh.gen = obj.gen
      /\ Good(mdbsh.st, ShardIds, mongo)
    BY <1>0 DEF STrue, ObjTrue, CopyTrue, PassTrue, Adding, Done
<1>3. CASE reconcileAddShards
    <2> DEFINE x == [i \in ShardIds |-> IF i \in ToAdd /\ mongo.shard[i] = "absent" THEN "active" ELSE mongo.shard[i]]
               y == [w \in DOMAIN mongo.store |-> IF w \in ToAdd THEN "shard" ELSE mongo.store[w]]
               c == [mongo EXCEPT !.shard = x]
               f == [i \in ShardIds |-> mdbsh.st.added[i] \/ i \in ToAdd]
    <2>0. areShardsInitialized(mdbsh) /\ pc = "AddShards"
        BY <1>3 DEF reconcileAddShards, RunningAt, STrue, PassTrue, Adding
    <2>1. pc' = "AddWrite" /\ UNCHANGED <<obj, fresh>> /\ mdbsh' = [mdbsh EXCEPT !.st = [mdbsh.st EXCEPT !.added = f]]
        BY <1>3, <2>0 DEF reconcileAddShards, Goto
    <2>2. mongo'.shard = x /\ mongo'.store = y /\ mongo'.admin = mongo.admin
        <3>1. c.store = mongo.store /\ c.shard = x /\ c.admin = mongo.admin
              /\ c \in [DOMAIN mongo -> {c[k] : k \in DOMAIN c}]
            <4> HIDE DEF x
            <4> QED BY <1>1 DEF ClusterType
        <3>2. mongo' = [c EXCEPT !.store = [w \in DOMAIN c.store |-> IF w \in ToAdd THEN "shard" ELSE c.store[w]]]
            BY <1>3, <2>0, Zenon DEF reconcileAddShards
        <3>3. mongo' = [c EXCEPT !.store = y]
            <4> HIDE DEF c
            <4> QED BY <3>1, <3>2
        <3> HIDE DEF c, x, y
        <3> QED BY <1>1, <3>1, <3>3 DEF ClusterType
    <2>3. /\ mdbsh'.spec = mdbsh.spec /\ mdbsh'.gen = mdbsh.gen
          /\ mdbsh'.st.inited = mdbsh.st.inited /\ mdbsh'.st.added = f /\ mdbsh'.st.admin = mdbsh.st.admin
          /\ mdbsh'.st.n = mdbsh.st.n /\ mdbsh'.st.gen = mdbsh.st.gen /\ mdbsh'.st.phase = mdbsh.st.phase
        <3> HIDE DEF f
        <3> QED BY <1>1, <2>1, Zenon DEF Resource, StatusType
    <2>4. \A i \in ShardIds : /\ mongo.shard[i] # "absent" => x[i] # "absent"
                              /\ mongo.store[i] # "none" => y[i] # "none"
                              /\ i \in ToAdd => x[i] # "absent"
                              /\ f[i] => mdbsh.st.added[i] \/ i \in ToAdd
        BY <1>1, ClusterParts, Zenon
    <2> HIDE DEF x, y, c, f
    <2>5. Grows(mongo, mongo')
        BY <2>2, <2>4 DEF Grows
    <2>6. Report(obj, mongo') /\ Report(mdbsh, mongo') /\ Good(mdbsh.st, ShardIds, mongo')
        BY <1>2, <2>5, ReportGrows, GoodGrows, Zenon
    <2>7. Report(mdbsh', mongo') /\ Good(mdbsh'.st, ShardIds, mongo') /\ areShardsInitialized(mdbsh')
        BY <2>0, <2>2, <2>3, <2>4, <2>6 DEF Report, Good, Built, Declared, areShardsInitialized
    <2> QED BY <1>2, <2>1, <2>2, <2>3, <2>6, <2>7
            DEF STrue, ObjTrue, CopyTrue, PassTrue, Adding, Done, areShardsInitialized, Declared
<1>4. CASE WriteAddShards
    <2>0. addedSnapshot(mdbsh) = mdbsh /\ pc = "AddWrite"
        BY <1>1, <1>4, Zenon DEF addedSnapshot, Resource, StatusType, WriteAddShards, RunningAt
    <2>1. CASE Write(mdbsh) /\ pc' = "Collections" /\ mongo' = mongo /\ \A i \in Declared(mdbsh) : mdbsh.st.added[i]
        BY <1>2, <2>1 DEF Write, STrue, ObjTrue, CopyTrue, PassTrue, Adding, Done, Declared
    <2>2. CASE obj' = setFailed(mdbsh) /\ Return /\ mongo' = mongo
        BY <1>0, <1>1, <2>2, GrowsRefl, SameClosures, TrueReturn
    <2> QED BY <1>1, <1>4, <2>0, <2>1, <2>2 DEF WriteAddShards, WriteAndGoto, WriteAndReturn, Goto, env
<1>5. CASE reconcileShardedCollections
    <2>0. pc = "Collections" /\ Good(obj.st, ShardIds, mongo)
        BY <1>2, <1>5 DEF reconcileShardedCollections, RunningAt, ObjTrue, Adding
    <2>1. mongo'.shard = mongo.shard /\ mongo'.store = mongo.store /\ mongo'.admin = mongo.admin
        <3>1. mongo' = mongo \/ (\E k : mongo' = [mongo EXCEPT !.coll = k])
            BY <1>5 DEF reconcileShardedCollections
        <3> QED BY <1>1, <3>1 DEF ClusterType
    <2>2. Grows(mongo, mongo')
        BY <2>1 DEF Grows
    <2>3. CASE Return
        BY <1>5, <2>0, <2>2, <2>3, TrueReturn DEF reconcileShardedCollections, Adding
    <2>4. ASSUME NEW d, mdbsh' = [mdbsh EXCEPT !.st = [mdbsh.st EXCEPT !.drift = d]],
                 Goto("Status"), fresh' = fresh, obj' = obj
          PROVE  STrue'
        <3>1. /\ mdbsh'.spec = mdbsh.spec /\ mdbsh'.gen = mdbsh.gen
              /\ mdbsh'.st.inited = mdbsh.st.inited /\ mdbsh'.st.added = mdbsh.st.added
              /\ mdbsh'.st.admin = mdbsh.st.admin /\ mdbsh'.st.n = mdbsh.st.n
              /\ mdbsh'.st.gen = mdbsh.st.gen /\ mdbsh'.st.phase = mdbsh.st.phase
            BY <1>1, <2>4, Zenon DEF Resource, StatusType
        <3>2. Report(obj, mongo') /\ Report(mdbsh, mongo') /\ Good(mdbsh.st, ShardIds, mongo')
              /\ Good(obj.st, ShardIds, mongo')
            BY <1>2, <2>0, <2>2, ReportGrows, GoodGrows, Zenon
        <3>3. Report(mdbsh', mongo') /\ Good(mdbsh'.st, ShardIds, mongo')
            BY <3>1, <3>2 DEF Report, Good, Built, Declared
        <3>4. \A i \in Declared(mdbsh') : mdbsh'.st.added[i]
            BY <2>0, <3>1 DEF STrue, PassTrue, Done, Declared
        <3>5. pc' = "Status"
            BY <2>4 DEF Goto
        <3> QED BY <1>2, <2>1, <2>4, <3>1, <3>2, <3>3, <3>4, <3>5
                DEF STrue, ObjTrue, CopyTrue, PassTrue, Adding, Done, Declared
    <2>5. \/ Return
          \/ Goto("Status") /\ fresh' = fresh /\ obj' = obj
             /\ \E d : mdbsh' = [mdbsh EXCEPT !.st = [mdbsh.st EXCEPT !.drift = d]]
        BY <1>5 DEF reconcileShardedCollections
    <2> QED BY <2>3, <2>4, <2>5
<1>6. CASE updateStatus
    <2> DEFINE up == \A w \in Present(mdbsh) \cup {Cfg, Mongos} : wl[w].ready
               n == Cardinality(Present(mdbsh))
               p == IF up /\ n = mdbsh.spec.count THEN "Running" ELSE "Initializing"
               s == [mdbsh.st EXCEPT !.n = n, !.ready = up, !.gen = mdbsh.gen, !.phase = p]
    <2>0. pc = "Status" /\ mongo' = mongo /\ Return /\ obj' = observed(mdbsh)
        BY <1>1, <1>2, <1>6 DEF updateStatus, RunningAt, WriteAndReturn
    <2>1. n \in Int /\ n <= mdbsh.spec.count
        BY <1>1, PresentCount
    <2>2. obj' = [mdbsh EXCEPT !.st = s]
        BY <2>0, Zenon DEF observed
    <2> HIDE DEF up, n, p
    <2>3. /\ s.inited = mdbsh.st.inited /\ s.added = mdbsh.st.added /\ s.admin = mdbsh.st.admin
          /\ s.n = n /\ s.gen = mdbsh.gen
        BY <1>1, Zenon DEF StatusType
    <2> HIDE DEF s
    <2>4. obj'.spec = mdbsh.spec /\ obj'.gen = mdbsh.gen /\ obj'.st = s
        BY <1>1, <2>2 DEF Resource
    <2>5. \A i \in Declared(mdbsh) : i \in ShardIds /\ mdbsh.st.added[i]
        BY <2>0 DEF STrue, PassTrue, Done, Declared
    <2>6. Built(obj', mongo)
        BY <1>2, <2>4, <2>5, Zenon DEF Built, Good, Declared
    <2>7. Report(obj', mongo) /\ Good(obj'.st, ShardIds, mongo)
        BY <1>1, <1>2, <2>1, <2>3, <2>4, <2>6 DEF Report, Good
    <2> QED BY <2>0, <2>7 DEF Return, STrue, ObjTrue, CopyTrue, PassTrue, Adding, Done
<1> QED BY <1>3, <1>4, <1>5, <1>6

\* The steps outside the pass that change the flags, the cluster or the spec.
LEMMA TrueOutside ==
    ASSUME TInv, STrue,
           \/ Start \/ Pods \/ Balancer \/ BackupController \/ Tick \/ AppCreatesCollection
           \/ (\E i \in ShardIds : AppWrites(i))
           \/ (\E s \in Specs : EditSpec(s) /\ pc = "Idle" /\ ~ Deep(s)) \/ UNCHANGED vars
    PROVE  STrue'
<1>0. mongo \in ClusterType /\ obj \in Resource /\ obj.st \in StatusType
    BY ResourceParts DEF TInv, EnvOK, PassOK
<1>1. ASSUME UNCHANGED <<obj, mdbsh, fresh, pc, idx>>, Grows(mongo, mongo') PROVE STrue'
    <2>1. ObjTrue'
        BY <1>1, ReportGrows, GoodGrows DEF STrue, ObjTrue
    <2>2. pc # "Idle" => CopyTrue'
        <3>1. ShardIds \ {idx} \in SUBSET ShardIds
            OBVIOUS
        <3> QED BY <1>1, <3>1, ReportGrows, GoodGrows DEF STrue, CopyTrue
    <2>3. PassTrue'
        BY <1>1 DEF STrue, PassTrue, Grows, areShardsInitialized, Declared
    <2> QED BY <1>1, <2>1, <2>2, <2>3 DEF STrue
<1>2. CASE Start
    <2>1. pc = "Idle" /\ pc' = "Phase" /\ mdbsh' = obj /\ fresh' = TRUE /\ obj' = obj /\ mongo' = mongo
        BY <1>2 DEF Start, RunningAt, Goto, env
    <2>2. Report(obj, mongo) /\ Good(obj.st, ShardIds, mongo)
        BY <2>1 DEF STrue, ObjTrue, Adding
    <2> QED BY <2>1, <2>2 DEF STrue, ObjTrue, CopyTrue, PassTrue, Adding, Done
<1>3. CASE Pods
    <2>1. UNCHANGED <<obj, mdbsh, fresh, pc, idx>>
        BY <1>3, Zenon DEF Pods, Roll, PodReady
    <2>2. Grows(mongo, mongo')
        <3>1. CASE mongo' = mongo
            BY <3>1, GrowsRefl
        <3>2. ASSUME NEW w \in Workloads, PodReady(w), mongo' # mongo PROVE Grows(mongo, mongo')
            <4> DEFINE x == [mongo.store EXCEPT ![w] = "rs"]
                       c == [mongo EXCEPT !.store = x]
                       d == [c EXCEPT !.admin = c.admin \/ w = Cfg]
            <4>1. mongo' = [d EXCEPT !.fcv = IF w = Cfg THEN MajorMinor(wl[w].v) ELSE d.fcv]
                BY <3>2, Zenon DEF PodReady
            <4>2. c \in [DOMAIN mongo -> {c[k] : k \in DOMAIN c}] /\ c.shard = mongo.shard /\ c.store = x
                  /\ c.admin = mongo.admin
                <5> HIDE DEF x
                <5> QED BY <1>0 DEF ClusterType
            <4>3. d \in [DOMAIN mongo -> {d[k] : k \in DOMAIN d}] /\ d.shard = mongo.shard /\ d.store = x
                  /\ (mongo.admin => d.admin)
                <5> HIDE DEF x, c
                <5> QED BY <1>0, <4>2 DEF ClusterType
            <4>4. mongo'.shard = mongo.shard /\ mongo'.store = x /\ (mongo.admin => mongo'.admin)
                <5> HIDE DEF x, c, d
                <5> QED BY <1>0, <4>1, <4>3 DEF ClusterType
            <4>5. \A i \in ShardIds : mongo.store[i] # "none" => x[i] # "none"
                BY <1>0, ClusterParts
            <4> HIDE DEF x
            <4> QED BY <4>4, <4>5 DEF Grows
        <3> QED BY <1>3, <3>1, <3>2 DEF Pods, Roll
    <2> QED BY <1>1, <2>1, <2>2
<1>4. CASE Balancer \/ AppCreatesCollection \/ (\E i \in ShardIds : AppWrites(i))
    <2>1. UNCHANGED <<obj, mdbsh, fresh, pc, idx>>
        BY <1>4 DEF Balancer, Balance, AppCreatesCollection, AppWrites
    <2>2. (\E x : mongo' = [mongo EXCEPT !.data = x]) \/ (\E x : mongo' = [mongo EXCEPT !.coll = x])
        BY <1>4, Zenon DEF Balancer, Balance, AppCreatesCollection, AppWrites
    <2>3. Grows(mongo, mongo')
        BY <1>0, <2>2 DEF Grows, ClusterType
    <2> QED BY <1>1, <2>1, <2>3
<1>5. CASE BackupController \/ UNCHANGED vars
    <2>1. UNCHANGED <<obj, mdbsh, fresh, pc, idx, mongo>>
        BY <1>5, Zenon DEF BackupController, BackupEnds, vars
    <2> QED BY <1>1, <2>1, GrowsRefl
<1>6. ASSUME pc = "Idle", UNCHANGED <<pc, mongo>>, fresh' = TRUE,
             obj'.st.inited = obj.st.inited, obj'.st.added = obj.st.added, obj'.st.admin = obj.st.admin,
             Report(obj', mongo)
      PROVE  STrue'
    <2>1. Good(obj'.st, ShardIds, mongo)
        BY <1>6 DEF STrue, ObjTrue, Adding, Good
    <2> QED BY <1>6, <2>1, Zenon DEF STrue, ObjTrue, CopyTrue, PassTrue, Adding, Done
<1>7. CASE Tick
    <2> DEFINE t == obj.st.start + 1
    <2>1. obj' = [obj EXCEPT !.st = [obj.st EXCEPT !.start = t]]
        BY <1>7 DEF Tick
    <2>2. pc = "Idle" /\ UNCHANGED <<pc, mongo>> /\ fresh' = fresh
        BY <1>7 DEF Tick, RunningAt, env
    <2> HIDE DEF t
    <2>3. Same(obj', obj)
        BY <1>0, <2>1, Zenon DEF Same, Resource, StatusType
    <2>4. Report(obj', mongo)
        BY <2>3, SameReport DEF STrue, ObjTrue
    <2> QED BY <1>6, <2>2, <2>3, <2>4 DEF Same, STrue, ObjTrue
<1>8. ASSUME NEW s \in Specs, EditSpec(s), pc = "Idle", ~ Deep(s) PROVE STrue'
    <2> DEFINE g == obj.gen + 1
    <2>1. obj' = [obj EXCEPT !.spec = s, !.gen = g]
        BY <1>8, Zenon DEF EditSpec
    <2>2. UNCHANGED <<pc, mongo>> /\ fresh' = TRUE
        BY <1>8, Zenon DEF EditSpec, RunningAt, env
    <2>3. obj.gen \in Int /\ obj.st.gen \in Int /\ obj.st.n \in Int /\ s.count \in Int
        <3>1. obj.st.gen \in 0 .. MaxGen /\ obj.st.n \in 0 .. MaxShards /\ obj.gen \in 1 .. MaxGen
            BY <1>0, ResourceParts, Zenon DEF StatusType
        <3> QED BY <1>8, <3>1, SpecFacts
    <2>4. obj.st.n <= s.count + 1 /\ obj.st.gen <= obj.gen
        BY <1>8, <2>3 DEF Deep, STrue, ObjTrue, Report
    <2>5. obj.st.gen < g
        BY <2>3, <2>4
    <2>6. g \in Int
        BY <2>3
    <2> HIDE DEF g
    <2>7. obj'.st = obj.st /\ obj'.spec = s /\ obj'.gen = g
        BY <1>0, <2>1 DEF Resource
    <2>8. Report(obj', mongo)
        BY <2>3, <2>4, <2>5, <2>6, <2>7 DEF Report
    <2> QED BY <1>6, <1>8, <2>2, <2>7, <2>8
<1> QED BY <1>2, <1>3, <1>4, <1>5, <1>7, <1>8, Zenon

\* What has not been disturbed after a step was not before it.
LEMMA CalmBefore ==
    ASSUME TInv, [Next]_vars, Calm'
    PROVE  /\ Calm /\ ~ Faults /\ ~ Touch
           /\ \A s \in Specs : EditSpec(s) => pc = "Idle" /\ ~ Deep(s)
<1>0. hist \in HistType
    BY DEF TInv
<1>1. ~ Faults
    <2>1. Fault => ~ Calm'
        BY FaultType DEF Calm, Undisturbed
    <2> QED BY <2>1 DEF Faults, CleanupFails, CallFails, Crash, PodDown
<1>2. ~ Touch
    <2>1. ASSUME Touch PROVE hist'.touches # 0
        <3> DEFINE n == hist.touches + 1
        <3>1. n # 0
            BY <1>0 DEF HistType
        <3>2. hist' = [hist EXCEPT !.touches = n]
            BY <2>1 DEF Touch
        <3> HIDE DEF n
        <3> QED BY <1>0, <3>1, <3>2 DEF HistType
    <2> QED BY <2>1 DEF Calm, Undisturbed
<1>3. ASSUME NEW s \in Specs, EditSpec(s)
      PROVE  Calm /\ pc = "Idle" /\ ~ Deep(s)
    <2> DEFINE n == IF RunningAt("Idle") THEN hist.touches ELSE hist.touches + 1
               d == hist.deep \/ Deep(s)
               h == hist.hasty \/ Hasty(s)
    <2>1. hist' = [hist EXCEPT !.touches = n, !.deep = d, !.hasty = h]
        <3>1. hist = [faults |-> hist.faults, touches |-> hist.touches, flakes |-> hist.flakes,
                      started |-> hist.started, deep |-> hist.deep, hasty |-> hist.hasty]
            BY <1>0 DEF HistType
        <3> QED BY <1>3, <3>1 DEF EditSpec
    <2>2. hist.touches \in Nat
        BY <1>0 DEF HistType
    <2> HIDE DEF n, d, h
    <2>3. hist'.faults = hist.faults /\ hist'.flakes = hist.flakes /\ hist'.touches = n /\ hist'.deep = d
        BY <1>0, <2>1, Zenon DEF HistType
    <2>4. n = 0 /\ ~ d /\ hist.faults = 0 /\ hist.flakes = 0
        BY <2>3 DEF Calm, Undisturbed
    <2>5. pc = "Idle" /\ hist.touches = 0
        BY <2>2, <2>4 DEF n, RunningAt
    <2> QED BY <2>4, <2>5 DEF d, Calm, Undisturbed
<1>4. ASSUME UNCHANGED hist PROVE Calm
    BY <1>4 DEF Calm, Undisturbed
<1>5. ASSUME StartUpgrade PROVE Calm
    <2> DEFINE S == hist.started \cup {mdbsh.gen}
    <2>1. hist' = [hist EXCEPT !.started = S]
        BY <1>5, Zenon DEF StartUpgrade
    <2> HIDE DEF S
    <2> QED BY <1>0, <2>1 DEF HistType, Calm, Undisturbed
<1>6. ASSUME NEW w \in Workloads, PodReady(w) PROVE Calm
    <2>1. CASE hist' # hist
        <3> DEFINE n == hist.flakes + 1
        <3>1. n # 0
            BY <1>0 DEF HistType
        <3>2. hist' = [hist EXCEPT !.flakes = n]
            BY <1>6, <2>1 DEF PodReady
        <3> HIDE DEF n
        <3> QED BY <1>0, <3>1, <3>2 DEF HistType, Calm, Undisturbed
    <2> QED BY <1>4, <2>1
<1>7. ASSUME Reconcile, ~ StartUpgrade PROVE Calm
    BY <1>4, <1>7, PassKeepsHist
<1>8. ASSUME \/ Balancer \/ BackupController \/ Tick \/ AppCreatesCollection
             \/ (\E i \in ShardIds : AppWrites(i)) \/ (\E w \in Workloads : Roll(w)) \/ UNCHANGED vars
      PROVE  Calm
    <2>1. UNCHANGED hist
        BY <1>8, Zenon DEF Balancer, Balance, BackupController, BackupEnds, Tick,
           AppCreatesCollection, AppWrites, Roll, vars
    <2> QED BY <1>4, <2>1
<1>9. Calm
    BY <1>1, <1>2, <1>3, <1>5, <1>6, <1>7, <1>8 DEF Next, Pods
<1> QED BY <1>1, <1>2, <1>3, <1>9

\* Every step preserves SInv; it holds at the start and implies the property.
LEMMA TrueInductive == ASSUME TInv, SInv, [Next]_vars PROVE SInv'
<1> SUFFICES ASSUME Calm' PROVE STrue'
    BY DEF SInv
<1>1. Calm /\ ~ Faults /\ ~ Touch /\ \A s \in Specs : EditSpec(s) => pc = "Idle" /\ ~ Deep(s)
    BY CalmBefore
<1>2. STrue
    BY <1>1 DEF SInv
<1>3. CASE Reconcile
    BY <1>2, <1>3, TrueOutside, TrueUpgrade, TrueBootstrap, TrueScaleIn, TrueAddShards DEF Reconcile
<1>4. CASE ~ Reconcile
    BY <1>1, <1>2, <1>4, TrueOutside DEF Next
<1> QED BY <1>3, <1>4

LEMMA TrueInit == Init => SInv
<1> SUFFICES ASSUME Init PROVE STrue
    BY DEF SInv
<1>1. obj = Created /\ pc = "Idle" /\ fresh = TRUE
    BY DEF Init
<1>2. InitSpec.count \in Int /\ InitSpec.count >= 1
    BY SpecFacts, SpecsAreTyped, BoundsAreNat
<1>3. Report(obj, mongo)
    <2>1. obj.spec = InitSpec /\ obj.gen = 1 /\ obj.st.n = 0 /\ obj.st.gen = 0
        BY <1>1, Zenon DEF Created, EmptyStatus
    <2> QED BY <1>2, <2>1 DEF Report
<1>4. Good(obj.st, ShardIds, mongo)
    BY <1>1, Zenon DEF Created, EmptyStatus, Good
<1> QED BY <1>1, <1>3, <1>4 DEF STrue, ObjTrue, PassTrue, Adding, Done

LEMMA TrueMeans == SInv => StatusTruthful
<1> SUFFICES ASSUME Calm, STrue PROVE (pc = "Idle" => FlagsAgree)
                 /\ (obj.st.phase = "Running" /\ obj.st.gen = obj.gen => mongo.admin /\ \A i \in Declared(obj) : Member(i))
    BY DEF SInv, Calm, StatusTruthful, FlagsTruthful, RunningMeansBuilt
<1>1. pc = "Idle" => FlagsAgree
    BY DEF STrue, ObjTrue, Adding, Good, FlagsAgree, Member
<1>2. obj.st.phase = "Running" /\ obj.st.gen = obj.gen => mongo.admin /\ \A i \in Declared(obj) : Member(i)
    BY DEF STrue, ObjTrue, Report, Built, Member
<1> QED BY <1>1, <1>2

\* StatusAlwaysTruthful.  While nothing goes wrong and shards are taken away one
\* at a time, a MongoDBSharded whose status says Running for its generation has
\* its administrator and every declared shard in the shard list, and between two
\* passes a flag that is set is true of its shard.
THEOREM StatusAlwaysTruthful == Spec => []StatusTruthful
<1>1. TInv /\ SInv /\ [Next]_vars => (TInv /\ SInv)'
    BY TypeInductive, TrueInductive
<1> QED BY <1>1, TypeInit, TrueInit, TrueMeans, PTL DEF Spec

-----------------------------------------------------------------------------
(***************************************************************************)
(* AttemptedOnce.  The guard of reconcileShardedUpgrade is one number, the *)
(* generation of the last terminal result; that it is enough rests on what *)
(* the record says of a generation whose upgrade was started: while no     *)
(* upgrade is under way, it is complete, or closed for this generation, or *)
(* its backup failed.  The pass decides on its copy of the record and      *)
(* writes to the newest resource, whose generation may be another one by   *)
(* then, so AInv says it of both, and that a generation the pass has not   *)
(* seen was never started.                                                 *)
(***************************************************************************)

\* What the invariant reads of a status, and a write that changes nothing of it.
Record(o, p) ==
    /\ o.st.version = p.st.version /\ o.st.prev = p.st.prev
    /\ o.st.up = p.st.up /\ o.st.upGen = p.st.upGen

Untouched(o, p) == Record(o, p) /\ o.spec = p.spec /\ o.gen = p.gen

\* No upgrade of o to v is under way, and one was: it ended in a way that
\* forbids another, or with a failed backup.
Remembered(o, v) ==
    o.gen \in hist.started /\ o.st.up = "" /\ o.st.version # v =>
        o.st.upGen = o.gen \/ backups[v] = "Failed"

\* The stored record.
AObj ==
    /\ \A g \in hist.started : g <= obj.gen
    /\ (obj.st.up # "" => obj.st.prev # NoVersion)
    /\ Remembered(obj, obj.spec.version)

\* The stages before the pass has decided.
Undecided == {"Phase", "Seed", "Upgrade"}

\* The copy of a pass under way.
ASeen ==
    /\ Wanted \in Versions
    /\ (obj.gen \notin hist.started \/ (mdbsh.gen = obj.gen /\ Wanted = obj.spec.version))
    /\ Remembered(mdbsh, Wanted)

APass ==
    /\ Record(mdbsh, obj) /\ mdbsh.gen <= obj.gen
    /\ (pc = "Validating" => mdbsh.st.up = "Upgrading")
    /\ (pc = "Upgrade" => mdbsh.st.version # NoVersion)
    /\ (pc \in Undecided => ASeen)

\* The inductive invariant behind AttemptedOnce.
AInv == AObj /\ (pc # "Idle" => APass)

\* What UpdateWithRetry starts from has the stored record.
LEMMA BaseUntouched ==
    ASSUME TInv, Record(mdbsh, obj)
    PROVE  Base \in Resource /\ Untouched(Base, obj)
<1>1. obj \in Resource /\ mdbsh \in Resource /\ Base \in Resource
    BY BaseType DEF TInv, PassOK
<1> QED BY <1>1 DEF Base, Record, Untouched, Resource

LEMMA UntouchedTrans ==
    ASSUME NEW o, NEW p, NEW q, Untouched(o, p), Untouched(p, q) PROVE Untouched(o, q)
BY DEF Untouched, Record

LEMMA UntouchedRefl == \A o : Untouched(o, o) /\ Record(o, o)
BY DEF Untouched, Record

\* The generation survives a write of the status.
LEMMA GenField ==
    ASSUME NEW o \in Resource, NEW s
    PROVE  LET p == [o EXCEPT !.st = s] IN p.gen = o.gen /\ p.spec = o.spec /\ p.st = s
BY DEF Resource

\* The closures that have nothing to do with an upgrade.
LEMMA UntouchedClosures ==
    ASSUME NEW o \in Resource
    PROVE  /\ Untouched(setFailed(o), o) /\ Untouched(setInitializing(o), o)
           /\ Untouched(setAdminUserCreated(o), o) /\ Untouched(setObserved(o), o)
           /\ Untouched(initializedSnapshot(o), o) /\ Untouched(addedSnapshot(o), o)
           /\ Untouched(setConfigServerInitialized(o), o) /\ Untouched(observed(o), o)
<1>0. o.st \in StatusType
    BY ResourceParts
<1> DEFINE Kept(s) == /\ s.version = o.st.version /\ s.prev = o.st.prev
                      /\ s.up = o.st.up /\ s.upGen = o.st.upGen
<1>1. ASSUME NEW s, Kept(s) PROVE Untouched([o EXCEPT !.st = s], o)
    BY <1>1, GenField DEF Untouched, Record
<1>2. Kept([o.st EXCEPT !.phase = "Failed"]) /\ Kept([o.st EXCEPT !.phase = "Initializing"])
    BY <1>0, Zenon DEF StatusType
<1>3. /\ Kept([o.st EXCEPT !.admin = TRUE]) /\ Kept([o.st EXCEPT !.gen = o.gen])
      /\ Kept([o.st EXCEPT !.cfgInit = TRUE])
    BY <1>0, Zenon DEF StatusType
<1>4. Kept([o.st EXCEPT !.inited = mdbsh.st.inited]) /\ Kept([o.st EXCEPT !.added = mdbsh.st.added])
    BY <1>0, Zenon DEF StatusType
<1>5. \A n, r, ph : Kept([o.st EXCEPT !.n = n, !.ready = r, !.gen = o.gen, !.phase = ph])
    BY <1>0, Zenon DEF StatusType
<1> HIDE DEF Kept
<1>6. Untouched(observed(o), o)
    BY <1>1, <1>5, Zenon DEF observed
<1> QED BY <1>1, <1>2, <1>3, <1>4, <1>6, Zenon
        DEF setFailed, setInitializing, setAdminUserCreated, setObserved, initializedSnapshot, addedSnapshot,
            setConfigServerInitialized

\* The closures that end an upgrade for the generation they write to.
LEMMA ClosingClosures ==
    ASSUME NEW o \in Resource, NEW p \in {giveUp(o), rollback(o), completeUpgrade(o)}
    PROVE  p.gen = o.gen /\ p.spec = o.spec /\ p.st.up = "" /\ p.st.upGen = o.gen
<1>0. o.st \in StatusType
    BY ResourceParts
<1> DEFINE Closed(s) == s.up = "" /\ s.upGen = o.gen
<1>1. ASSUME NEW s, Closed(s), p = [o EXCEPT !.st = s]
      PROVE  p.gen = o.gen /\ p.spec = o.spec /\ p.st.up = "" /\ p.st.upGen = o.gen
    BY <1>1, GenField, Zenon
<1>2. Closed([o.st EXCEPT !.up = "", !.start = NoTime, !.upGen = o.gen])
    BY <1>0, Zenon DEF StatusType
<1>3. Closed([o.st EXCEPT !.eff = mdbsh.st.prev, !.rb = TRUE, !.up = "", !.start = NoTime, !.upGen = o.gen])
    BY <1>0, ZenonT(30) DEF StatusType
<1>4. Closed([o.st EXCEPT !.version = desired, !.eff = desired, !.fcv = fcvMajorMinor(desired),
                          !.rb = FALSE, !.up = "", !.start = NoTime, !.upGen = o.gen])
    BY <1>0, ZenonT(30) DEF StatusType
<1> HIDE DEF Closed
<1> QED BY <1>1, <1>2, <1>3, <1>4, Zenon DEF giveUp, rollback, completeUpgrade

\* The other closures of an upgrade keep the generation.
LEMMA UpgradeKeepsGen ==
    ASSUME NEW o \in Resource
    PROVE  /\ clearUpgrade(o).gen = o.gen /\ backupDone(o).gen = o.gen
           /\ initiateRollback(o).gen = o.gen /\ setValidating(o).gen = o.gen
           /\ startUpgrade(o).gen = o.gen /\ seed(o).gen = o.gen
<1>1. \A s : [o EXCEPT !.st = s].gen = o.gen
    BY GenField
<1> QED BY <1>1, Zenon DEF clearUpgrade, backupDone, initiateRollback, setValidating, startUpgrade, seed

\* A step that starts no upgrade.
NoStart == obj.st.up = "" => obj'.st.up \notin {"BackingUp", "Upgrading"}

\* What becomes of the stored record: a write that leaves it alone, one that
\* closes the generation, and one that leaves an upgrade under way.
LEMMA ObjUntouched ==
    ASSUME TInv, AObj, Untouched(obj', obj), hist'.started = hist.started,
           \A v \in Versions : backups[v] = "Failed" => backups'[v] = "Failed"
    PROVE  AObj' /\ NoStart
<1>1. obj.spec.version \in Versions
    BY ResourceParts, SpecFacts DEF TInv, PassOK
<1> QED BY <1>1, Zenon DEF AObj, Untouched, Record, Remembered, NoStart

LEMMA ObjClosed ==
    ASSUME AObj, obj'.gen = obj.gen, hist'.started = hist.started,
           obj'.st.up = "", obj'.st.upGen = obj.gen
    PROVE  AObj' /\ NoStart
BY Zenon DEF AObj, Remembered, NoStart

LEMMA ObjMoving ==
    ASSUME AObj, obj'.gen = obj.gen, \A g \in hist'.started : g \in hist.started \/ g <= obj.gen,
           obj'.st.up # "", obj'.st.prev # NoVersion
    PROVE  AObj'
BY Zenon DEF AObj, Remembered

\* The history records no start, and no failed backup is forgotten.
Steady ==
    /\ hist'.started = hist.started
    /\ \A v \in Versions : backups[v] = "Failed" => backups'[v] = "Failed"

\* A pass that returns leaves the stored record to show; one that has decided
\* also that its copy has the same record.
ANext == AInv' /\ NoStart

LEMMA AReturn == ASSUME AObj', NoStart, Return PROVE ANext
BY DEF AInv, Return, ANext

LEMMA ADecided ==
    ASSUME AObj', NoStart, Record(mdbsh', obj'), mdbsh'.gen <= obj'.gen, pc' \notin Undecided,
           pc' = "Validating" => mdbsh'.st.up = "Upgrading"
    PROVE  ANext
BY Zenon DEF AInv, APass, Undecided, ANext

\* What the steps of a pass know, and how they leave the record alone: with a
\* write, with a failure, and without.
LEMMA AForms ==
    ASSUME TInv, AInv, pc # "Idle", Steady
    PROVE  /\ AObj /\ Record(mdbsh, obj) /\ mdbsh.gen <= obj.gen
           /\ Base \in Resource /\ Untouched(Base, obj) /\ mdbsh \in Resource /\ obj \in Resource
           /\ \A o : Untouched(o, Base) /\ Write(o) /\ pc' \notin Undecided \cup {"Validating"} => ANext
           /\ \A o : Untouched(o, Base) /\ WriteAndReturn(o) => ANext
           /\ (obj' = obj /\ Return => ANext)
           /\ (updateStatusError => ANext)
           /\ (obj' = obj /\ Untouched(mdbsh', mdbsh) /\ pc' \notin Undecided \cup {"Validating"} => ANext)
<1>1. /\ AObj /\ Record(mdbsh, obj) /\ mdbsh.gen <= obj.gen /\ mdbsh \in Resource /\ obj \in Resource
      /\ Base \in Resource /\ Untouched(Base, obj)
    <2>1. AObj /\ Record(mdbsh, obj) /\ mdbsh.gen <= obj.gen
        BY Zenon DEF AInv, APass
    <2> QED BY <2>1, BaseUntouched DEF TInv, PassOK
<1>2. ASSUME NEW o, Untouched(o, Base), obj' = o PROVE AObj' /\ NoStart
    <2>1. Untouched(obj', obj)
        BY <1>1, <1>2, UntouchedTrans, Zenon
    <2> QED BY <1>1, <2>1, ObjUntouched DEF Steady
<1>3. ASSUME obj' = obj PROVE AObj' /\ NoStart
    BY <1>1, <1>3, UntouchedRefl, ObjUntouched DEF Steady
<1>4. ASSUME NEW o, Untouched(o, Base), Write(o), pc' \notin Undecided \cup {"Validating"} PROVE ANext
    <2>1. obj' = o /\ mdbsh' = o /\ obj'.gen = obj.gen /\ obj.gen \in Int
        BY <1>1, <1>4, ResourceParts DEF Write, Untouched
    <2>2. AObj' /\ NoStart /\ Record(mdbsh', obj') /\ mdbsh'.gen <= obj'.gen
        BY <1>2, <1>4, <2>1, UntouchedRefl
    <2> QED BY <1>4, <2>2, ADecided
<1>5. ASSUME NEW o, Untouched(o, Base), WriteAndReturn(o) PROVE ANext
    BY <1>2, <1>5, AReturn DEF WriteAndReturn
<1>6. ASSUME obj' = obj, Return PROVE ANext
    BY <1>3, <1>6, AReturn
<1>7. ASSUME updateStatusError PROVE ANext
    BY <1>1, <1>5, <1>7, UntouchedClosures DEF updateStatusError
<1>8. ASSUME obj' = obj, Untouched(mdbsh', mdbsh), pc' \notin Undecided \cup {"Validating"} PROVE ANext
    <2>1. Record(mdbsh', obj') /\ mdbsh'.gen <= obj'.gen
        BY <1>1, <1>8, Zenon DEF Untouched, Record
    <2> QED BY <1>3, <1>8, <2>1, ADecided
<1> QED BY <1>1, <1>4, <1>5, <1>6, <1>7, <1>8, Zenon

\* The flags a pass sets in its copy are no part of the record.
LEMMA CopyUntouched ==
    ASSUME mdbsh \in Resource
    PROVE  /\ \A f : Untouched([mdbsh EXCEPT !.st = [mdbsh.st EXCEPT !.inited = f]], mdbsh)
           /\ \A f : Untouched([mdbsh EXCEPT !.st = [mdbsh.st EXCEPT !.added = f]], mdbsh)
           /\ \A f : Untouched([mdbsh EXCEPT !.st = [mdbsh.st EXCEPT !.drift = f]], mdbsh)
           /\ \A f, g : Untouched([mdbsh EXCEPT !.st = [mdbsh.st EXCEPT !.added = f, !.inited = g]], mdbsh)
<1>0. mdbsh.st \in StatusType
    BY ResourceParts
<1> DEFINE Kept(s) == /\ s.version = mdbsh.st.version /\ s.prev = mdbsh.st.prev
                      /\ s.up = mdbsh.st.up /\ s.upGen = mdbsh.st.upGen
<1>1. ASSUME NEW s, Kept(s) PROVE Untouched([mdbsh EXCEPT !.st = s], mdbsh)
    BY <1>1, GenField DEF Untouched, Record
<1>2. /\ \A f : Kept([mdbsh.st EXCEPT !.inited = f]) /\ Kept([mdbsh.st EXCEPT !.added = f])
      /\ \A f : Kept([mdbsh.st EXCEPT !.drift = f])
    BY <1>0, Zenon DEF StatusType
<1>3. \A f, g : Kept([mdbsh.st EXCEPT !.added = f, !.inited = g])
    BY <1>0, Zenon DEF StatusType
<1> HIDE DEF Kept
<1> QED BY <1>1, <1>2, <1>3, Zenon

\* The steps that apply workloads, initiate replica sets and create the
\* administrator.
LEMMA RecordBootstrap ==
    ASSUME TInv, AInv, Steady,
           \/ reconcileConfigServer \/ reconcileShard \/ reconcileMongos
           \/ reconcileConfigServerInit \/ reconcileShardsInit \/ WriteShardsInit
           \/ reconcileShardedAdminUser
    PROVE  ANext
<1>0. pc # "Idle"
    BY DEF reconcileConfigServer, reconcileShard, reconcileMongos, reconcileConfigServerInit,
       reconcileShardsInit, WriteShardsInit, reconcileShardedAdminUser, RunningAt
<1>1. CASE reconcileConfigServer \/ reconcileShard
    <2>1. CASE UNCHANGED <<obj, mdbsh>> /\ pc' \in {"Shards", "Mongos"}
        BY <1>0, <2>1, AForms, UntouchedRefl DEF Undecided
    <2>2. CASE obj' = obj /\ Return
        BY <1>0, <2>2, AForms, Zenon
    <2> QED BY <1>1, <2>1, <2>2 DEF reconcileConfigServer, reconcileShard, Goto
<1>2. CASE reconcileMongos
    <2>1. CASE obj' = obj /\ Return
        BY <1>0, <2>1, AForms
    <2>2. CASE UNCHANGED <<obj, mdbsh>> /\ pc' = "CfgInit"
        BY <1>0, <2>2, AForms, UntouchedRefl, Zenon DEF Undecided
    <2>3. CASE UNCHANGED <<obj, mdbsh>> /\ pc' = "Validating" /\ mdbsh.st.up = "Upgrading"
        <3>1. AObj /\ Record(mdbsh, obj) /\ mdbsh.gen <= obj.gen
            BY <1>0, AForms
        <3>2. AObj' /\ NoStart
            BY <2>3, <3>1, UntouchedRefl, ObjUntouched DEF Steady
        <3> QED BY <2>3, <3>1, <3>2, ADecided DEF Undecided
    <2> QED BY <1>2, <2>1, <2>2, <2>3 DEF reconcileMongos, Goto
<1>3. CASE reconcileConfigServerInit
    <2>1. CASE updateStatusError
        BY <1>0, <2>1, AForms
    <2>2. CASE Write(setConfigServerInitialized(Base)) /\ Goto("ShardsInit")
        BY <1>0, <2>2, AForms, UntouchedClosures DEF Goto, Undecided
    <2>3. CASE Goto("ShardsInit") /\ UNCHANGED <<obj, mdbsh>>
        BY <1>0, <2>3, AForms, UntouchedRefl DEF Goto, Undecided
    <2> QED BY <1>3, <2>1, <2>2, <2>3 DEF reconcileConfigServerInit
<1>4. CASE reconcileShardsInit
    <2> DEFINE f == [i \in ShardIds |-> mdbsh.st.inited[i]
                        \/ (i \in Declared(mdbsh) /\ (Initiated(i) \/ AnonymousAdmin))]
    <2>1. mdbsh' = [mdbsh EXCEPT !.st = [mdbsh.st EXCEPT !.inited = f]] /\ obj' = obj /\ pc' = "InitWrite"
        BY <1>4 DEF reconcileShardsInit, Goto
    <2> HIDE DEF f
    <2>2. Untouched(mdbsh', mdbsh)
        BY <1>0, <2>1, AForms, CopyUntouched, Zenon
    <2> QED BY <1>0, <2>1, <2>2, AForms, Zenon DEF Undecided
<1>5. CASE WriteShardsInit
    <2>1. Base \in Resource /\ mdbsh \in Resource
        BY <1>0, AForms
    <2>2. Untouched(initializedSnapshot(Base), Base)
        BY <2>1, UntouchedClosures
    <2>3. Untouched(setFailed(initializedSnapshot(Base)), Base)
        BY <2>1, <2>2, SnapshotTypes, UntouchedClosures, UntouchedTrans, Zenon
    <2>4. CASE WriteAndGoto(initializedSnapshot(Base), "Admin")
        BY <1>0, <2>2, <2>4, AForms DEF WriteAndGoto, Goto, Undecided
    <2>5. CASE WriteAndReturn(setFailed(initializedSnapshot(Base)))
        BY <1>0, <2>3, <2>5, AForms
    <2> QED BY <1>5, <2>4, <2>5 DEF WriteShardsInit
<1>6. CASE reconcileShardedAdminUser
    <2>1. CASE UNCHANGED obj /\ Return
        BY <1>0, <2>1, AForms, Zenon
    <2>2. CASE updateStatusError
        BY <1>0, <2>2, AForms
    <2>3. CASE UNCHANGED <<obj, mdbsh>> /\ pc' = "ScaleIn"
        BY <1>0, <2>3, AForms, UntouchedRefl DEF Undecided
    <2>4. CASE Write(setAdminUserCreated(Base)) /\ pc' = "ScaleIn"
        BY <1>0, <2>4, AForms, UntouchedClosures DEF Undecided
    <2> QED BY <1>6, <2>1, <2>2, <2>3, <2>4, Zenon DEF reconcileShardedAdminUser
<1> QED BY <1>1, <1>2, <1>3, <1>4, <1>5, <1>6, Zenon

\* The steps that scale, shard collections and report, and a pass that fails
\* or dies.
LEMMA RecordScaling ==
    ASSUME TInv, AInv, Steady,
           \/ NoScaleIn \/ reconcileScaleIn \/ cleanupShardResources \/ CleanupFails
           \/ reconcileAddShards \/ WriteAddShards \/ reconcileShardedCollections \/ updateStatus
           \/ CallFails \/ Crash
    PROVE  ANext
<1>0. pc # "Idle"
    BY Zenon DEF NoScaleIn, reconcileScaleIn, cleanupShardResources, CleanupFails, reconcileAddShards,
       WriteAddShards, reconcileShardedCollections, updateStatus, CallFails, Crash, RunningAt
<1>1. Base \in Resource /\ mdbsh \in Resource /\ obj \in Resource
    BY <1>0, AForms
<1>2. CASE CleanupFails \/ CallFails \/ Crash
    BY <1>0, <1>2, AForms, Zenon DEF CleanupFails, CallFails, Crash
<1>3. CASE NoScaleIn
    BY <1>0, <1>3, AForms, UntouchedRefl DEF NoScaleIn, Undecided
<1>4. CASE reconcileScaleIn
    <2>1. CASE updateStatusError \/ (obj' = obj /\ Return)
        BY <1>0, <2>1, AForms
    <2>2. CASE Goto("Cleanup") /\ UNCHANGED <<obj, mdbsh>>
        BY <1>0, <2>2, AForms, UntouchedRefl DEF Goto, Undecided
    <2> QED BY <1>4, <2>1, <2>2, Zenon DEF reconcileScaleIn
<1>5. CASE cleanupShardResources
    <2>1. PICK f, g : mdbsh' = [mdbsh EXCEPT !.st = [mdbsh.st EXCEPT !.added = f, !.inited = g]]
        BY <1>5, Zenon DEF cleanupShardResources
    <2>2. obj' = obj /\ pc' = "ScaleIn"
        BY <1>5 DEF cleanupShardResources
    <2>3. Untouched(mdbsh', mdbsh)
        BY <1>1, <2>1, CopyUntouched, Zenon
    <2> QED BY <1>0, <2>2, <2>3, AForms, Zenon DEF Undecided
<1>6. CASE reconcileAddShards
    <2>1. CASE \E f : mdbsh' = [mdbsh EXCEPT !.st = [mdbsh.st EXCEPT !.added = f]]
        <3>1. obj' = obj /\ pc' \in {"AddWrite", "Collections"}
            BY <1>6 DEF reconcileAddShards, Goto
        <3>2. Untouched(mdbsh', mdbsh)
            BY <1>1, <2>1, CopyUntouched, Zenon
        <3> QED BY <1>0, <3>1, <3>2, AForms, Zenon DEF Undecided
    <2>2. CASE Goto("Collections") /\ UNCHANGED <<obj, mdbsh>>
        BY <1>0, <2>2, AForms, UntouchedRefl DEF Goto, Undecided
    <2> QED BY <1>6, <2>1, <2>2, Zenon DEF reconcileAddShards
<1>7. CASE WriteAddShards
    <2>1. Untouched(addedSnapshot(Base), Base)
        BY <1>1, UntouchedClosures
    <2>2. Untouched(setFailed(addedSnapshot(Base)), Base)
        BY <1>1, <2>1, SnapshotTypes, UntouchedClosures, UntouchedTrans
    <2>3. CASE WriteAndGoto(addedSnapshot(Base), "Collections")
        BY <1>0, <2>1, <2>3, AForms DEF WriteAndGoto, Goto, Undecided
    <2>4. CASE WriteAndReturn(setFailed(addedSnapshot(Base)))
        BY <1>0, <2>2, <2>4, AForms
    <2> QED BY <1>7, <2>3, <2>4 DEF WriteAddShards
<1>8. CASE reconcileShardedCollections
    <2>1. CASE obj' = obj /\ Return
        BY <1>0, <2>1, AForms
    <2>2. CASE \E f : mdbsh' = [mdbsh EXCEPT !.st = [mdbsh.st EXCEPT !.drift = f]]
        <3>1. Untouched(mdbsh', mdbsh)
            BY <1>1, <2>2, CopyUntouched, Zenon
        <3>2. CASE obj' = obj /\ pc' = "Status"
            BY <1>0, <3>1, <3>2, AForms, Zenon DEF Undecided
        <3> QED BY <1>8, <2>1, <3>2 DEF reconcileShardedCollections, Goto
    <2> QED BY <1>8, <2>1, <2>2, Zenon DEF reconcileShardedCollections
<1>9. CASE updateStatus
    <2>1. CASE WriteAndReturn(observed(Base))
        BY <1>0, <1>1, <2>1, AForms, UntouchedClosures
    <2>2. CASE WriteAndReturn(setObserved(obj))
        <3>1. Untouched(setObserved(obj), obj)
            BY <1>1, UntouchedClosures, Zenon
        <3>2. AObj' /\ NoStart
            BY <1>0, <2>2, <3>1, AForms, ObjUntouched DEF WriteAndReturn, Steady
        <3> QED BY <2>2, <3>2, AReturn DEF WriteAndReturn
    <2> QED BY <1>9, <2>1, <2>2 DEF updateStatus
<1> QED BY <1>2, <1>3, <1>4, <1>5, <1>6, <1>7, <1>8, <1>9

\* The steps that open a pass.
LEMMA RecordOpening ==
    ASSUME TInv, AInv, Steady, Start \/ SetInitializing \/ Seed
    PROVE  ANext
<1>0. obj \in Resource /\ obj.spec.version \in Versions /\ mdbsh.spec.version \in Versions /\ obj.gen \in Int
    BY ResourceParts, SpecFacts DEF TInv, PassOK
<1>1. CASE Start
    <2>1. obj' = obj /\ mdbsh' = obj /\ pc' = "Phase" /\ hist' = hist /\ backups' = backups
        BY <1>1 DEF Start, Goto, env
    <2>9. NoStart
        BY <2>1, Zenon DEF NoStart
    <2>2. AObj' /\ Wanted' = obj.spec.version /\ mdbsh'.gen <= obj'.gen
        <3>1. AObj'
            BY <2>1, Zenon DEF AInv, AObj, Remembered
        <3> QED BY <1>0, <2>1, <3>1 DEF Wanted
    <2>3. ASeen'
        BY <1>0, <2>1, <2>2, Zenon DEF ASeen, AObj, Remembered
    <2> QED BY <2>1, <2>9, <2>2, <2>3, UntouchedRefl, Zenon DEF AInv, APass, ANext
<1>2. CASE SetInitializing
    <2>1. /\ pc = "Phase" /\ pc' = "Seed" /\ desired' = mdbsh'.spec.version
          /\ hist' = hist /\ backups' = backups
        BY <1>2, Zenon DEF SetInitializing, RunningAt, env
    <2>2. Wanted = mdbsh.spec.version /\ Wanted' = mdbsh'.spec.version
        BY <2>1 DEF Wanted
    <2>3. APass /\ ASeen /\ Record(mdbsh, obj) /\ Base \in Resource /\ Untouched(Base, obj) /\ AObj
        BY <2>1, AForms, Zenon DEF AInv, APass, Undecided
    <2>4. CASE UNCHANGED <<obj, mdbsh>>
        <3>1. AObj' /\ ASeen' /\ NoStart
            BY <2>1, <2>2, <2>3, <2>4, Zenon DEF AObj, ASeen, Remembered, NoStart
        <3> QED BY <2>1, <2>3, <2>4, <3>1, Zenon DEF AInv, APass, ANext
    <2>5. CASE Write(setInitializing(Base))
        <3>1. obj' = setInitializing(Base) /\ mdbsh' = obj'
            BY <2>5 DEF Write
        <3>2. Untouched(obj', obj)
            BY <2>3, <3>1, UntouchedClosures, UntouchedTrans
        <3>3. AObj' /\ NoStart
            BY <2>3, <3>2, ObjUntouched DEF Steady
        <3>4. obj'.spec.version = obj.spec.version /\ obj'.gen = obj.gen
            BY <3>2 DEF Untouched
        <3>5. ASeen'
            BY <1>0, <2>2, <3>1, <3>3, <3>4, Zenon DEF ASeen, AObj
        <3>6. mdbsh'.gen <= obj'.gen
            BY <1>0, <3>1, <3>4
        <3> QED BY <2>1, <3>1, <3>3, <3>5, <3>6, UntouchedRefl, Zenon DEF AInv, APass, ANext
    <2> QED BY <1>2, <2>4, <2>5 DEF SetInitializing
<1>3. CASE Seed
    <2>1. /\ pc = "Seed" /\ pc' = "Upgrade" /\ desired' = desired /\ hist' = hist /\ backups' = backups
        BY <1>3, Zenon DEF Seed, RunningAt, WriteAndGoto, Goto, env
    <2>2. Wanted = desired /\ Wanted' = desired
        BY <2>1 DEF Wanted
    <2>3. APass /\ ASeen /\ Record(mdbsh, obj) /\ Base \in Resource /\ Untouched(Base, obj) /\ AObj
        BY <2>1, AForms, Zenon DEF AInv, APass, Undecided
    <2>4. CASE UNCHANGED <<obj, mdbsh>> /\ mdbsh.st.version # NoVersion
        <3>1. AObj' /\ ASeen' /\ NoStart
            BY <2>1, <2>2, <2>3, <2>4, Zenon DEF AObj, ASeen, Remembered, NoStart
        <3> QED BY <2>1, <2>3, <2>4, <3>1, Zenon DEF AInv, APass, ANext
    <2>5. CASE Write(seed(Base))
        <3>1. obj' = seed(Base) /\ mdbsh' = obj'
            BY <2>5 DEF Write
        <3>2. /\ obj'.spec = obj.spec /\ obj'.gen = obj.gen /\ obj'.st.prev = obj.st.prev
              /\ obj'.st.up = obj.st.up /\ obj'.st.upGen = obj.st.upGen
            BY <2>3, <3>1, SeedFields, UpgradeKeepsGen, Zenon DEF Untouched, Record
        <3>3. obj'.st.version # NoVersion /\ (obj.st.version # NoVersion => obj'.st.version = obj.st.version)
            <4>1. desired # NoVersion
                BY <2>2, <2>3, SpecFacts DEF ASeen, NoVersion
            <4> QED BY <2>3, <3>1, <4>1, SeedFields, Zenon DEF Untouched, Record
        <3>4. obj.spec.version # NoVersion
            BY <1>0, SpecFacts DEF NoVersion
        <3>5. AObj' /\ NoStart
            BY <2>1, <2>3, <3>2, <3>3, <3>4, Zenon DEF AObj, Remembered, NoStart
        <3>6. ASeen'
            BY <2>1, <2>2, <2>3, <3>1, <3>2, <3>5, Zenon DEF ASeen, AObj, Remembered
        <3>7. mdbsh'.gen <= obj'.gen
            BY <1>0, <3>1, <3>2
        <3> QED BY <2>1, <3>1, <3>3, <3>5, <3>6, <3>7, UntouchedRefl, Zenon DEF AInv, APass, ANext
    <2> QED BY <1>3, <2>4, <2>5 DEF Seed, WriteAndGoto
<1> QED BY <1>1, <1>2, <1>3, Zenon

\* What a pass at its decision knows.
LEMMA DecisionFacts ==
    ASSUME TInv, AInv, pc = "Upgrade"
    PROVE  /\ AObj /\ ASeen /\ Record(mdbsh, obj) /\ mdbsh.gen <= obj.gen /\ Wanted = desired
           /\ mdbsh.st.version # NoVersion /\ Base \in Resource /\ Untouched(Base, obj)
           /\ (obj.st.up # "" => obj.st.prev # NoVersion)
<1>1. AObj /\ APass /\ Wanted = desired
    BY DEF AInv, Wanted
<1>2. Record(mdbsh, obj)
    BY <1>1 DEF APass
<1> QED BY <1>1, <1>2, BaseUntouched, Zenon DEF APass, AObj, Undecided

\* Starting an upgrade adds the generation of the copy to the history.
LEMMA RecordStart ==
    ASSUME TInv, AInv, StartUpgrade
    PROVE  AInv'
<1>1. pc = "Upgrade" /\ Return /\ obj' = startUpgrade(Base)
    BY Zenon DEF StartUpgrade, UpgradeAt, RunningAt, WriteAndReturn
<1>2. hist'.started = hist.started \cup {mdbsh.gen}
    <2> DEFINE S == hist.started \cup {mdbsh.gen}
    <2>1. hist' = [hist EXCEPT !.started = S] /\ hist \in HistType
        BY Zenon DEF StartUpgrade, TInv
    <2> HIDE DEF S
    <2>2. hist'.started = S
        BY <2>1 DEF HistType
    <2> QED BY <2>2 DEF S
<1>3. /\ AObj /\ mdbsh.gen <= obj.gen /\ mdbsh.st.version # NoVersion
      /\ Base \in Resource /\ Untouched(Base, obj)
    BY <1>1, DecisionFacts, Zenon
<1>4. obj'.gen = obj.gen /\ obj'.st.up # "" /\ obj'.st.prev # NoVersion
    <2>1. obj'.st.up \in {"BackingUp", "Upgrading"} /\ obj'.st.prev = mdbsh.st.version /\ obj'.gen = Base.gen
        BY <1>1, <1>3, StartFields, UpgradeKeepsGen, Zenon
    <2> QED BY <1>3, <2>1, Zenon DEF Untouched
<1>5. AObj'
    BY <1>2, <1>3, <1>4, ObjMoving, Zenon
<1> QED BY <1>1, <1>5 DEF AInv, Return

\* The closures of an upgrade that stays under way.
LEMMA MovingClosures ==
    ASSUME NEW o \in Resource, NEW p \in {backupDone(o), initiateRollback(o), setValidating(o)}
    PROVE  p.gen = o.gen /\ p.st.up # "" /\ p.st.prev = o.st.prev
BY PhaseClosures, UpgradeKeepsGen, ZenonT(30) DEF Rest

\* The other steps that decide about an upgrade.
LEMMA RecordDeciding ==
    ASSUME TInv, AInv, Steady,
           \/ NoUpgrade \/ NothingToDecide \/ BackingUp \/ CommitFCV \/ CompleteUpgrade
           \/ KeepValidating \/ ValidationTimedOut \/ RollBack \/ SetValidating
    PROVE  ANext
<1>0. pc # "Idle"
    BY Zenon DEF NoUpgrade, NothingToDecide, BackingUp, CommitFCV, CompleteUpgrade, KeepValidating,
       ValidationTimedOut, RollBack, SetValidating, UpgradeAt, RunningAt
<1>1. AObj /\ Record(mdbsh, obj) /\ Base \in Resource /\ Untouched(Base, obj)
    BY <1>0, AForms, Zenon
\* The generation is closed, the upgrade goes on, or it is cleared.
<1>2. ASSUME NEW p \in {giveUp(Base), rollback(Base), completeUpgrade(Base)}, WriteAndReturn(p)
      PROVE  ANext
    <2>1. p.gen = Base.gen /\ p.st.up = "" /\ p.st.upGen = Base.gen
        BY <1>1, ClosingClosures, Zenon
    <2>2. obj' = p /\ Return /\ Base.gen = obj.gen /\ hist'.started = hist.started
        BY <1>1, <1>2 DEF WriteAndReturn, Untouched, Steady
    <2>3. AObj' /\ NoStart
        BY <1>1, <2>1, <2>2, ObjClosed, Zenon
    <2> QED BY <2>2, <2>3, AReturn
<1>3. ASSUME NEW p \in {backupDone(Base), initiateRollback(Base), setValidating(Base)},
             obj' = p, Return, obj.st.up # ""
      PROVE  ANext
    <2>1. p.gen = Base.gen /\ p.st.up # "" /\ p.st.prev = Base.st.prev
        BY <1>1, MovingClosures, Zenon
    <2>2. Base.gen = obj.gen /\ Base.st.prev = obj.st.prev /\ obj.st.prev # NoVersion
        BY <1>1, <1>3, Zenon DEF Untouched, Record, AObj
    <2>3. AObj' /\ NoStart
        BY <1>1, <1>3, <2>1, <2>2, ObjMoving, Zenon DEF Steady, NoStart
    <2> QED BY <1>3, <2>3, AReturn, Zenon
<1>4. ASSUME pc = "Upgrade", obj' = clearUpgrade(Base), Unchanged \/ backups[desired] = "Failed"
      PROVE  AObj' /\ NoStart
    <2>1. /\ obj'.gen = obj.gen /\ obj'.spec = obj.spec /\ obj'.st.up = ""
          /\ obj'.st.version = obj.st.version
        BY <1>1, <1>4, PhaseClosures, UpgradeKeepsGen, Zenon DEF Rest, Untouched, Record
    <2>2. ASeen /\ Wanted = desired
        BY <1>4, DecisionFacts, Zenon
    <2>3. backups[desired] = "Failed" => backups'[desired] = "Failed"
        BY <2>2, Zenon DEF Steady, ASeen
    <2>4. ASSUME obj.gen \in hist.started, obj.st.version # obj.spec.version
          PROVE  backups'[obj.spec.version] = "Failed"
        <3>1. desired = obj.spec.version
            BY <2>2, <2>4, Zenon DEF ASeen
        <3>2. ~ Unchanged
            BY <1>1, <2>4, <3>1 DEF Unchanged, Record
        <3> QED BY <1>4, <2>3, <3>1, <3>2, Zenon
    <2>5. hist'.started = hist.started
        BY DEF Steady
    <2> QED BY <1>1, <2>1, <2>4, <2>5, Zenon DEF AObj, Remembered, NoStart
<1>5. CASE NoUpgrade
    <2>1. pc = "Upgrade" /\ Unchanged /\ pc' = "Cfg"
        BY <1>5, Zenon DEF NoUpgrade, RunningAt, WriteAndGoto, Goto
    <2>2. CASE UNCHANGED <<obj, mdbsh>>
        BY <1>0, <2>1, <2>2, AForms, UntouchedRefl, Zenon DEF Undecided
    <2>3. CASE Write(clearUpgrade(Base))
        <3>1. AObj' /\ NoStart /\ mdbsh' = obj'
            BY <1>4, <2>1, <2>3, Zenon DEF Write
        <3>2. obj'.gen = obj.gen /\ obj.gen \in Int
            <4>1. obj'.gen = Base.gen
                BY <1>1, <2>3, UpgradeKeepsGen, Zenon DEF Write
            <4> QED BY <1>1, <4>1, ResourceParts DEF Untouched, TInv, PassOK
        <3>3. mdbsh'.gen <= obj'.gen /\ Record(mdbsh', obj')
            BY <3>1, <3>2, UntouchedRefl
        <3> QED BY <2>1, <3>1, <3>3, ADecided, Zenon DEF Undecided
    <2> QED BY <1>5, <2>2, <2>3, Zenon DEF NoUpgrade, WriteAndGoto
<1>6. CASE NothingToDecide \/ CommitFCV
    <2>1. UNCHANGED <<obj, mdbsh>> /\ pc' \in {"Cfg", "Complete"}
        BY <1>6, Zenon DEF NothingToDecide, CommitFCV, Goto
    <2> QED BY <1>0, <2>1, AForms, UntouchedRefl, Zenon DEF Undecided
<1>7. CASE KeepValidating
    BY <1>0, <1>7, AForms, Zenon DEF KeepValidating
<1>8. CASE CompleteUpgrade
    BY <1>2, <1>8 DEF CompleteUpgrade
<1>9. CASE SetValidating
    <2>1. obj.st.up # ""
        BY <1>0, <1>1, <1>9, Zenon DEF SetValidating, RunningAt, AInv, APass, Record
    <2> QED BY <1>3, <1>9, <2>1, Zenon DEF SetValidating, WriteAndReturn
<1>10. CASE ValidationTimedOut
    <2>1. obj.st.up # ""
        BY <1>1, <1>10, Zenon DEF ValidationTimedOut, UpgradeAt, Record
    <2>2. WriteAndReturn(initiateRollback(Base)) \/ WriteAndReturn(giveUp(Base))
        BY <1>10 DEF ValidationTimedOut
    <2> QED BY <1>2, <1>3, <2>1, <2>2, Zenon DEF WriteAndReturn
<1>11. CASE RollBack
    <2>1. mdbsh.st.prev # NoVersion
        BY <1>1, <1>11, Zenon DEF RollBack, UpgradeAt, Record, AObj
    <2>2. WriteAndReturn(giveUp(Base)) \/ WriteAndReturn(rollback(Base))
        BY <1>11, <2>1 DEF RollBack
    <2> QED BY <1>2, <2>2
<1>12. CASE BackingUp
    <2>1. pc = "Upgrade" /\ obj.st.up # "" /\ Return
        BY <1>1, <1>12, Zenon DEF BackingUp, UpgradeAt, RunningAt, Record
    <2>2. CASE obj' = obj
        BY <1>0, <2>1, <2>2, AForms, Zenon
    <2>3. CASE obj' = backupDone(Base)
        BY <1>3, <2>1, <2>3, Zenon
    <2>4. CASE obj' = clearUpgrade(Base) /\ backups[desired] = "Failed"
        BY <1>4, <2>1, <2>4, AReturn, Zenon
    <2> QED BY <1>12, <2>2, <2>3, <2>4, Zenon DEF BackingUp
<1> QED BY <1>5, <1>6, <1>7, <1>8, <1>9, <1>10, <1>11, <1>12

\* The steps outside the pass.
LEMMA RecordOutside ==
    ASSUME TInv, AInv, Steady,
           \/ Pods \/ Balancer \/ BackupController \/ Tick \/ AppCreatesCollection \/ Touch
           \/ (\E i \in ShardIds : AppWrites(i)) \/ (\E w \in Workloads : PodDown(w))
           \/ (\E s \in Specs : EditSpec(s)) \/ UNCHANGED vars
    PROVE  ANext
<1>0. obj \in Resource /\ obj.st \in StatusType /\ obj.gen \in Int /\ AObj
    BY ResourceParts DEF TInv, PassOK, AInv
<1>1. CASE UNCHANGED <<obj, mdbsh, pc, desired>>
    <2>1. AObj' /\ NoStart
        BY <1>0, <1>1, UntouchedRefl, ObjUntouched DEF Steady
    <2>2. Wanted' = Wanted
        BY <1>1 DEF Wanted
    <2>3. ASeen => ASeen'
        BY <1>1, <2>2, Zenon DEF ASeen, Remembered, Steady
    <2> QED BY <1>1, <2>1, <2>3, Zenon DEF AInv, APass, ANext
<1>2. CASE \/ Pods \/ Balancer \/ BackupController \/ AppCreatesCollection \/ Touch
           \/ (\E i \in ShardIds : AppWrites(i)) \/ (\E w \in Workloads : PodDown(w)) \/ UNCHANGED vars
    BY <1>1, <1>2, Zenon DEF Pods, Roll, PodReady, PodDown, Balancer, Balance, BackupController, BackupEnds,
       AppCreatesCollection, AppWrites, Touch, vars
<1>3. CASE Tick
    <2> DEFINE t == obj.st.start + 1
               s == [obj.st EXCEPT !.start = t]
    <2>1. obj' = [obj EXCEPT !.st = s] /\ pc = "Idle" /\ pc' = "Idle"
        BY <1>3 DEF Tick, RunningAt
    <2>2. /\ s.version = obj.st.version /\ s.prev = obj.st.prev
          /\ s.up = obj.st.up /\ s.upGen = obj.st.upGen
        <3> HIDE DEF t
        <3> QED BY <1>0, Zenon DEF StatusType
    <2> HIDE DEF s
    <2>3. Untouched(obj', obj)
        BY <1>0, <2>1, <2>2, GenField, Zenon DEF Untouched, Record
    <2>4. AObj' /\ NoStart
        BY <1>0, <2>3, ObjUntouched DEF Steady
    <2> QED BY <2>1, <2>4 DEF AInv, ANext
<1>4. ASSUME NEW s \in Specs, EditSpec(s) PROVE ANext
    <2> DEFINE g == obj.gen + 1
    <2>1. obj' = [obj EXCEPT !.spec = s, !.gen = g] /\ UNCHANGED <<mdbsh, pc, desired, backups>>
        BY <1>4, Zenon DEF EditSpec, env
    <2>2. /\ \A n \in hist.started : n <= g /\ n # g
          /\ \A n \in Int : n <= obj.gen => n <= g
        <3>1. \A n \in hist.started : n \in Int
            BY DEF TInv, HistType
        <3>2. \A n \in hist.started : n <= obj.gen
            BY <1>0, Zenon DEF AObj
        <3> QED BY <1>0, <3>1, <3>2
    <2>3. mdbsh.gen \in Int
        BY ResourceParts DEF TInv, PassOK
    <2> HIDE DEF g
    <2>4. obj'.st = obj.st /\ obj'.gen = g
        BY <1>0, <2>1 DEF Resource
    <2>5. obj'.gen \notin hist'.started /\ hist'.started = hist.started
        BY <2>2, <2>4, Zenon DEF Steady
    <2>6. AObj' /\ NoStart
        BY <1>0, <2>2, <2>4, <2>5, Zenon DEF AObj, Remembered, NoStart
    <2>7. Wanted' = Wanted
        BY <2>1 DEF Wanted
    <2>8. ASeen => ASeen'
        BY <2>1, <2>5, <2>7, Zenon DEF ASeen, Remembered
    <2>9. APass => APass'
        BY <2>1, <2>2, <2>3, <2>4, <2>8, Zenon DEF APass, Record
    <2> QED BY <2>1, <2>6, <2>9, Zenon DEF AInv, ANext
<1> QED BY <1>2, <1>3, <1>4

\* Every step preserves AInv, and only StartUpgrade starts an upgrade.
LEMMA AInductive == ASSUME TInv, AInv, [Next]_vars PROVE AInv' /\ (StartUpgrade \/ NoStart)
<1>1. StartUpgrade \/ Steady
    BY HistTypes, RestTyped DEF Steady
<1>2. CASE StartUpgrade
    BY <1>2, RecordStart
<1>3. CASE ~ StartUpgrade
    <2>1. CASE Reconcile
        BY <1>1, <1>3, <2>1, RecordOpening, RecordDeciding, RecordBootstrap, RecordScaling DEF Reconcile, ANext
    <2>2. CASE Faults
        BY <1>1, <1>3, <2>2, RecordScaling, RecordOutside DEF Faults, ANext
    <2> QED BY <1>1, <1>3, <2>1, <2>2, RecordOutside DEF Next, ANext
<1> QED BY <1>2, <1>3

LEMMA AInit == Init => AInv
<1> SUFFICES ASSUME Init PROVE AInv
    OBVIOUS
<1>1. obj = Created /\ pc = "Idle" /\ hist.started = {}
    BY DEF Init
<1>2. obj.st.up = ""
    BY <1>1, Zenon DEF Created, EmptyStatus
<1> QED BY <1>1, <1>2, Zenon DEF AInv, AObj, Remembered

\* AttemptedOnce, for any specs, faults, conflicts and edits: the upgrade of a
\* generation is started again only when its backup failed, because the record
\* of the first attempt reaches the store with it and outlives the pass.
THEOREM UpgradeAttemptedOnce == Spec => AttemptedOnce
<1> DEFINE A == obj.st.up = "" /\ obj'.st.up \in {"BackingUp", "Upgrading"} /\ mdbsh.gen \in hist.started =>
                    backups[desired] = "Failed"
<1>1. TInv /\ AInv /\ [Next]_vars => TInv' /\ AInv'
    BY TypeInductive, AInductive
<1>2. TInv /\ AInv /\ [Next]_vars => [A]_vars
    <2> SUFFICES ASSUME TInv, AInv, [Next]_vars, obj.st.up = "", obj'.st.up \in {"BackingUp", "Upgrading"},
                        mdbsh.gen \in hist.started
                 PROVE  backups[desired] = "Failed"
        BY Zenon
    <2>1. StartUpgrade
        BY AInductive, Zenon DEF NoStart
    <2>2. pc = "Upgrade" /\ ~ Unchanged /\ ~ alreadyTerminal /\ mdbsh.st.up = ""
        BY <2>1, Zenon DEF StartUpgrade, UpgradeAt, RunningAt
    <2>3. ASeen /\ Wanted = desired
        BY <2>2, DecisionFacts, Zenon
    <2> QED BY <2>2, <2>3, Zenon DEF ASeen, Remembered, Unchanged, alreadyTerminal
<1> HIDE DEF A
<1>3. Spec => [][A]_vars
    BY <1>1, <1>2, TypeInit, AInit, PTL DEF Spec
<1> QED BY <1>3 DEF AttemptedOnce, A
=============================================================================
