---------------------- MODULE MongoDBShardedFCV_proofs -----------------------
(***************************************************************************)
(* The feature compatibility version of a sharded cluster and the binaries *)
(* its members are given, for any number of shards, edits, faults and      *)
(* conflicts.                                                              *)
(***************************************************************************)
EXTENDS MongoDBShardedReconciler_proofs

-----------------------------------------------------------------------------
(***************************************************************************)
(* FCVNeverStrands, for edits that change no shard count and pass the      *)
(* webhook, and as long as no edit is made before the last one is          *)
(* completed.                                                              *)
(*                                                                         *)
(* What a rollback puts back must still start at the FCV the cluster has.  *)
(* The invariant says that everything in the cluster belongs to one of two *)
(* adjacent minor releases, From and To, and tracks what an upgrade has    *)
(* moved: the FCV leaves From only when every template has, and from then  *)
(* on the pass can only complete.  It has to speak of the pass as well,    *)
(* whose copy of the status may be stale, and of a config server that no   *)
(* one has initiated yet, whose binary gives the cluster its first FCV.    *)
(*                                                                         *)
(* With a changing shard count the argument fails where the property does: *)
(* a surplus shard is rolled back to From with the rest, and is the one    *)
(* member whose rollout the validation does not wait for.                  *)
(***************************************************************************)

\* A version that is there and belongs to the minor release x.
Is(v, x) == v # NoVersion /\ MajorMinor(v) = x

\* The minor release the cluster last completed (status.version), and the one
\* the spec asks for.
From == MajorMinor(obj.st.version)

To == MajorMinor(obj.spec.version)

\* The shards of the shard list, and those the initial spec declares.
Members == {i \in ShardIds : mongo.shard[i] # "absent"}

InitIds == {i \in ShardIds : i < InitSpec.count}

\* Nothing has left the old minor release: the desired version, the
\* templates, the config server that runs, the FCV.
Low ==
    /\ Is(obj.st.eff, From)
    /\ wl[Cfg].t # NoVersion => Is(wl[Cfg].t, From)
    /\ wl[Cfg].v # NoVersion => Is(wl[Cfg].v, From)
    /\ \A i \in Members : Is(wl[i].t, From)
    /\ Initiated(Cfg) => mongo.fcv = From

\* The new version is being rolled out or validated.
Moving == obj.st.up \in {"Upgrading", "Validating"}

\* The FCV has been committed to a new minor release the upgrade to which is
\* not complete.
Raised == To # From /\ Initiated(Cfg) /\ mongo.fcv = To

\* A config server that no one has initiated yet is to start on the new minor
\* release.
Ahead == To # From /\ ~ Initiated(Cfg) /\ Is(obj.st.eff, To)

\* What holds from the creation on: shards are members only if declared, no
\* pod runs without a template, and before the config server is initiated the
\* status records neither a completed generation nor an FCV.
Footing ==
    /\ Members \subseteq InitIds
    /\ wl[Cfg].ready = TRUE => wl[Cfg].v # NoVersion
    /\ wl[Cfg].v # NoVersion => wl[Cfg].t # NoVersion
    /\ Initiated(Cfg) => wl[Cfg].t # NoVersion
    /\ ~ Initiated(Cfg) =>
          /\ mongo.fcv = 0 /\ Members = {} /\ obj.st.ready = TRUE /\ obj.st.up # "RollingBack"
          /\ obj.st.fcv = 0 /\ obj.st.cfgInit = FALSE /\ obj.st.upGen = 0

\* Nothing has been deployed.
Blank ==
    /\ obj.st.eff = NoVersion /\ obj.st.up = "" /\ obj.st.fcv = 0
    /\ wl[Cfg].t = NoVersion /\ wl[Cfg].v = NoVersion /\ ~ Initiated(Cfg)

\* A cluster with a version.  Old and new minor release are equal or
\* adjacent, and whatever runs, is templated or is committed is one of the
\* two.  An FCV that is already the new one finds every template new, because
\* the FCV is committed only by a validation whose workloads had all been
\* rolled out; that is what a rollback must never meet again.
Body ==
    /\ To = From \/ Precedes(From, To)
    /\ Is(obj.st.eff, From) \/ Is(obj.st.eff, To)
    /\ wl[Cfg].t # NoVersion => Is(wl[Cfg].t, From) \/ Is(wl[Cfg].t, To)
    /\ wl[Cfg].v # NoVersion => Is(wl[Cfg].v, From) \/ Is(wl[Cfg].v, To)
    /\ \A i \in Members : Is(wl[i].t, From) \/ Is(wl[i].t, To)
    /\ Initiated(Cfg) => mongo.fcv \in {From, To}
    /\ obj.st.up # "" => Is(obj.st.prev, From)
    /\ obj.st.fcv \in {0, From}
    /\ To # From /\ obj.st.up # "" /\ Is(obj.st.eff, From) => Low
    /\ Raised => /\ Moving /\ obj.st.ready = TRUE
                 /\ Is(obj.st.eff, To) /\ Is(wl[Cfg].t, To) /\ Is(wl[Cfg].v, To)
                 /\ \A i \in Members : Is(wl[i].t, To)
    /\ To # From /\ ~ Initiated(Cfg) /\ (Is(wl[Cfg].t, To) \/ Is(wl[Cfg].v, To)) =>
          Ahead /\ Moving
    /\ obj.st.up = "Validating" =>
          wl[Cfg].t = obj.st.eff /\ \A i \in Members : wl[i].t = obj.st.eff

\* The state between passes.
FState ==
    /\ Footing
    /\ obj.st.version = NoVersion => Blank
    /\ obj.st.version # NoVersion => Body

\* What the invariant reads of a status.
View(o, p) ==
    /\ o.st.version = p.st.version /\ o.st.eff = p.st.eff /\ o.st.prev = p.st.prev
    /\ o.st.up = p.st.up /\ o.st.upGen = p.st.upGen /\ o.st.fcv = p.st.fcv
    /\ o.st.ready = p.st.ready /\ o.st.cfgInit = p.st.cfgInit

\* The stages of a pass in which it decides about an upgrade, those after the
\* config server is initiated, and those from the first workload on.
Deciding == {"Phase", "Seed", "Upgrade", "Complete"}

Last == {"ShardsInit", "InitWrite", "Admin", "ScaleIn", "Cleanup", "AddShards", "AddWrite", "Collections", "Status"}

Late == Last \cup {"Cfg", "Shards", "Mongos", "Validating", "CfgInit"}

\* A pass under way.  Its copy agrees with the stored status in all the
\* invariant reads, however stale the rest of it is; it works for the new
\* minor release or, if nothing has left it, for the old one; and each stage
\* knows what the earlier ones applied.
FPass ==
    /\ pc \in Deciding \cup Late
    /\ View(mdbsh, obj)
    /\ obj.st.version = NoVersion => pc \in {"Phase", "Seed"} /\ Is(Wanted, To)
    /\ obj.st.version # NoVersion => Is(Wanted, To) \/ (Is(Wanted, From) /\ Low)
    /\ pc = "Complete" => Initiated(Cfg) /\ mongo.fcv = MajorMinor(desired) /\ obj.st.up = "Validating"
    /\ pc \in Late => obj.st.up \in {"", "Upgrading"} /\ (obj.st.up = "" => ~ Raised /\ ~ Ahead)
    /\ pc \in Late \ {"Cfg"} => wl[Cfg].t = obj.st.eff
    /\ pc \in Late \ {"Cfg", "Shards"} => wl[Cfg].v # NoVersion /\ \A i \in InitIds : wl[i].t = obj.st.eff
    /\ pc = "Validating" => obj.st.up = "Upgrading"
    /\ pc \in Last \cup {"CfgInit"} => obj.st.up = ""
    /\ pc \in Last => Initiated(Cfg)
    /\ pc \in {"ScaleIn", "Cleanup"} => idx >= InitSpec.count

\* The inductive invariant behind FCVNeverStrands.
FInv == ~ hist.hasty => FState /\ (pc # "Idle" => FPass)

\* No edit changes the number of shards.
SameCount == \A s \in Specs : s.count = InitSpec.count

\* A version on the whitelist has a minor release.
LEMMA SupportedMinor ==
    ASSUME NEW v \in Nat, IsSupportedMongoDBVersion(v) PROVE MajorMinor(v) # 0
BY DEF IsSupportedMongoDBVersion, supportedMongoDBList

\* IsValidUpgradePath admits an edit only within a minor release or to the
\* next one of the whitelist.
LEMMA PathStep ==
    ASSUME NEW a \in Nat, NEW b \in Nat, IsValidUpgradePath(a, b)
    PROVE  MajorMinor(a) = MajorMinor(b) \/ Precedes(MajorMinor(a), MajorMinor(b))
<1>1. CASE a = b
    BY <1>1
<1>2. CASE a # b
    <2> DEFINE x == MajorMinor(a)
               y == MajorMinor(b)
    <2>1. x \in {80, 82, 83, 90} /\ y \in {80, 82, 83, 90}
        BY <1>2 DEF IsValidUpgradePath, IsSupportedMongoDBVersion, supportedMongoDBList
    <2>2. Major(a) = x \div 10 /\ Major(b) = y \div 10 /\ Minor(a) = x % 10 /\ Minor(b) = y % 10
        BY DEF Major, Minor, MajorMinor
    <2>3. IF Major(b) # Major(a) THEN checkMajorStep(a, b) ELSE AdjacentMinor(a, b)
        BY <1>2 DEF IsValidUpgradePath
    <2>4. /\ \A s \in supportedMongoDBList : s % 10 \in supportedMinors(s \div 10)
        BY DEF supportedMinors
    <2>5. /\ 0 \in supportedMinors(8) /\ 2 \in supportedMinors(8) /\ 3 \in supportedMinors(8)
          /\ 0 \in supportedMinors(9)
        <3>1. 80 \in supportedMongoDBList /\ 82 \in supportedMongoDBList /\ 83 \in supportedMongoDBList
              /\ 90 \in supportedMongoDBList
            BY DEF supportedMongoDBList
        <3> QED BY <2>4, <3>1
    <2> HIDE DEF x, y
    <2>6. x <= y /\ ~ (x = 80 /\ y \in {83, 90}) /\ ~ (x = 82 /\ y = 90)
        <3>1. CASE Major(b) # Major(a)
            <4>1. /\ Major(b) = Major(a) + 1
                  /\ \A m \in supportedMinors(Major(a)) : m <= Minor(a)
                BY <2>3, <3>1 DEF checkMajorStep
            <4> QED BY <2>1, <2>2, <2>5, <4>1
        <3>2. CASE Major(b) = Major(a)
            <4>1. /\ Minor(a) <= Minor(b)
                  /\ \A m \in supportedMinors(Major(a)) : ~ (Minor(a) < m /\ m < Minor(b))
                BY <2>3, <3>2 DEF AdjacentMinor
            <4> QED BY <2>1, <2>2, <2>5, <3>2, <4>1
        <3> QED BY <3>1, <3>2
    <2>7. x = y \/ Precedes(x, y)
        BY <2>1, <2>6 DEF Precedes, supportedMongoDBList
    <2> QED BY <2>7 DEF x, y
<1> QED BY <1>1, <1>2

\* FInv implies the property.
LEMMA FCVMeans == ASSUME FInv PROVE FCVNeverStrands
<1> SUFFICES ASSUME ~ hist.hasty, mongo.fcv # 0,
                    NEW w \in {Cfg} \cup {i \in ShardIds : Member(i)}
             PROVE  BinaryRunsAtFCV(wl[w].t, mongo.fcv)
    BY SMTT(30) DEF FCVNeverStrands
<1>1. FState /\ Footing /\ Initiated(Cfg)
    BY DEF FInv, FState, Footing
<1>2. Body
    BY <1>1 DEF FState, Blank
<1>3. wl[Cfg].t # NoVersion
    BY <1>1 DEF Footing
<1>4. w = Cfg \/ w \in Members
    BY DEF Members, Member
<1>5. Is(wl[w].t, From) \/ Is(wl[w].t, To)
    BY <1>2, <1>3, <1>4, Zenon DEF Body
<1>6. mongo.fcv \in {From, To} /\ (To = From \/ Precedes(From, To))
    BY <1>1, <1>2, Zenon DEF Body
<1>7. mongo.fcv # From => Is(wl[w].t, To)
    BY <1>1, <1>2, <1>4, <1>6, Zenon DEF Body, Raised
<1> QED BY <1>5, <1>6, <1>7 DEF BinaryRunsAtFCV, Is

\* What UpdateWithRetry starts from agrees with the stored resource.
LEMMA FBaseView ==
    ASSUME TInv, View(mdbsh, obj)
    PROVE  Base \in Resource /\ View(Base, obj) /\ Base.spec = obj.spec /\ Base.gen = obj.gen
<1>1. obj \in Resource /\ mdbsh \in Resource /\ Base \in Resource
    BY BaseType DEF TInv, PassOK
<1> QED BY <1>1 DEF Base, View, Resource

\* A step that changes no template of a member, and one that changes neither
\* the FCV nor the config server's replica set.
Templates ==
    /\ wl'[Cfg] = wl[Cfg] /\ Members' \subseteq Members
    /\ \A i \in Members' : wl'[i].t = wl[i].t

Servers ==
    mongo'.fcv = mongo.fcv /\ mongo'.store[Cfg] = mongo.store[Cfg]

\* What FState depends on.
LEMMA StateFrame ==
    ASSUME FState, View(obj', obj), MajorMinor(obj'.spec.version) = MajorMinor(obj.spec.version), Templates, Servers
    PROVE  FState'
<1>1. Footing'
    BY DEF FState, Footing, View, Templates, Servers, Initiated
<1>2. To' = To /\ From' = From /\ (Raised' <=> Raised) /\ (Ahead' <=> Ahead) /\ (Moving' <=> Moving)
    BY DEF To, From, View, Raised, Ahead, Moving, Servers, Initiated
<1>3. Low => Low'
    BY <1>2 DEF Low, View, Templates, Servers, Initiated
<1>4. obj'.st.version = NoVersion => Blank'
    BY Zenon DEF FState, Blank, View, Templates, Servers, Initiated
<1>5. obj'.st.version # NoVersion => Body'
    <2> SUFFICES ASSUME Body PROVE Body'
        BY DEF FState, View
    <2> QED BY <1>2, <1>3, Zenon DEF Body, View, Templates, Servers, Initiated
<1> QED BY <1>1, <1>4, <1>5 DEF FState

\* The invariant of an unhasty history, and a step that changes nothing it
\* reads.
FOK == FState /\ (pc # "Idle" => FPass)

Frame ==
    View(obj', obj) /\ MajorMinor(obj'.spec.version) = MajorMinor(obj.spec.version) /\ Templates /\ Servers

\* Such a step keeps the abbreviations of the invariant.
LEMMA FrameFacts ==
    ASSUME Frame
    PROVE  /\ To' = To /\ From' = From /\ (Raised' <=> Raised) /\ (Ahead' <=> Ahead)
           /\ (Low => Low')
<1>1. To' = To /\ From' = From /\ (Raised' <=> Raised) /\ (Ahead' <=> Ahead)
    BY DEF To, From, View, Raised, Ahead, Servers, Initiated, Frame
<1> QED BY <1>1 DEF Low, View, Templates, Servers, Initiated, Frame

\* A pass that returns leaves only FState to show.
LEMMA FReturn == ASSUME FState', Return PROVE FOK'
BY DEF FOK, Return

LEMMA FrameReturn == ASSUME FState, Frame, Return PROVE FOK'
BY StateFrame, FReturn DEF Frame

\* The closures that write phases and flags keep the view.
LEMMA ViewClosures ==
    ASSUME NEW o \in Resource
    PROVE  /\ View(setFailed(o), o) /\ View(setInitializing(o), o)
           /\ View(setAdminUserCreated(o), o) /\ View(setObserved(o), o)
           /\ View(initializedSnapshot(o), o) /\ View(addedSnapshot(o), o)
           /\ setFailed(o).spec = o.spec /\ setInitializing(o).spec = o.spec
           /\ setAdminUserCreated(o).spec = o.spec /\ setObserved(o).spec = o.spec
           /\ initializedSnapshot(o).spec = o.spec /\ addedSnapshot(o).spec = o.spec
<1>0. o.st \in StatusType
    BY ResourceParts
<1> DEFINE Kept(s) == /\ s.version = o.st.version /\ s.eff = o.st.eff /\ s.prev = o.st.prev
                      /\ s.up = o.st.up /\ s.upGen = o.st.upGen /\ s.fcv = o.st.fcv
                      /\ s.ready = o.st.ready /\ s.cfgInit = o.st.cfgInit
<1>1. ASSUME NEW s, Kept(s) PROVE View([o EXCEPT !.st = s], o) /\ [o EXCEPT !.st = s].spec = o.spec
    BY <1>1 DEF View, Resource
<1>2. Kept([o.st EXCEPT !.phase = "Failed"]) /\ Kept([o.st EXCEPT !.phase = "Initializing"])
    BY <1>0, Zenon DEF StatusType
<1>3. Kept([o.st EXCEPT !.admin = TRUE]) /\ Kept([o.st EXCEPT !.gen = o.gen])
    BY <1>0, Zenon DEF StatusType
<1>4. Kept([o.st EXCEPT !.inited = mdbsh.st.inited]) /\ Kept([o.st EXCEPT !.added = mdbsh.st.added])
    BY <1>0, Zenon DEF StatusType
<1> HIDE DEF Kept
<1> QED BY <1>1, <1>2, <1>3, <1>4, Zenon
        DEF setFailed, setInitializing, setAdminUserCreated, setObserved, initializedSnapshot, addedSnapshot

\* Views compose.
LEMMA ViewTrans ==
    ASSUME NEW o, NEW p, NEW q, View(o, p), View(p, q) PROVE View(o, q)
BY DEF View

LEMMA ViewRefl == \A o : View(o, o)
BY DEF View

\* A closure that keeps the view, applied to what the API server would write.
LEMMA FrameClosure ==
    ASSUME TInv, View(mdbsh, obj), NEW o, View(o, Base), o.spec = Base.spec
    PROVE  View(o, obj) /\ o.spec = obj.spec
BY FBaseView, ViewTrans

\* A pass that fails keeps the invariant.
LEMMA FrameFailure ==
    ASSUME TInv, FState, View(mdbsh, obj), updateStatusError, Templates, Servers
    PROVE  FOK'
<1>1. View(setFailed(Base), obj) /\ setFailed(Base).spec = obj.spec
    BY FBaseView, ViewClosures, FrameClosure
<1> QED BY <1>1, FrameReturn DEF updateStatusError, WriteAndReturn, Frame

\* A step from one of the last stages of the pass to another.
LEMMA LastMove ==
    ASSUME FOK, Frame, View(mdbsh', obj'), pc \in Last, pc' \in Last, desired' = desired,
           \A i \in InitIds : wl'[i].t = wl[i].t,
           pc' \in {"ScaleIn", "Cleanup"} => idx' >= InitSpec.count
    PROVE  FOK'
<1>1. FPass /\ FState
    BY DEF FOK, Last
<1>2. FState'
    BY <1>1, StateFrame DEF Frame
<1>3. FPass'
    <2>1. Wanted = desired /\ Wanted' = desired
        BY DEF Wanted, Last
    <2>2. obj'.st = obj'.st /\ obj.st.version # NoVersion /\ obj'.st.version = obj.st.version
          /\ obj'.st.eff = obj.st.eff /\ obj'.st.up = obj.st.up
        BY <1>1, Zenon DEF FPass, Last, Frame, View
    <2>3. Initiated(Cfg)' /\ wl'[Cfg] = wl[Cfg]
        BY <1>1, Zenon DEF FPass, Frame, Servers, Initiated, Templates
    <2> QED BY <1>1, <2>1, <2>2, <2>3, FrameFacts, Zenon DEF FPass, Last, Late, Deciding
<1> QED BY <1>2, <1>3 DEF FOK

\* With the count unchanged, every spec declares the same shards.
LEMMA DeclaredIds == ASSUME SameCount, NEW o, o.spec \in Specs PROVE Declared(o) = InitIds
BY DEF SameCount, Declared, InitIds

\* The config server, the routers and the shards are different workloads.
LEMMA CfgIsNoShard == Cfg \notin ShardIds /\ Mongos \notin ShardIds /\ Cfg # Mongos
BY DEF Cfg, Mongos, ShardIds

\* What the last stages of the pass know.
LEMMA LastFacts ==
    ASSUME TInv, FOK, pc \in Last
    PROVE  /\ FState /\ FPass /\ View(mdbsh, obj) /\ Body /\ Footing /\ Initiated(Cfg)
           /\ obj.st.version # NoVersion /\ obj.st.up = "" /\ ~ Raised /\ ~ Ahead
           /\ Base \in Resource /\ View(Base, obj) /\ Base.spec = obj.spec
           /\ mongo \in ClusterType /\ wl \in [Workloads -> WorkloadType]
           /\ mdbsh \in Resource /\ obj \in Resource
<1>1. FState /\ FPass /\ View(mdbsh, obj)
    BY Zenon DEF FOK, Last, FPass
<1>2. obj.st.version # NoVersion /\ obj.st.up = "" /\ ~ Raised /\ ~ Ahead /\ Initiated(Cfg)
    BY <1>1, Zenon DEF FPass, Last, Late
<1> QED BY <1>1, <1>2, FBaseView, Zenon DEF FState, TInv, PassOK, EnvOK

\* A step that leaves workloads and cluster alone is quiet.
LEMMA SameEnv ==
    ASSUME wl' = wl, mongo' = mongo PROVE Templates /\ Servers /\ \A i \in InitIds : wl'[i].t = wl[i].t
BY DEF Templates, Servers, Members

\* The steps that initiate shards, create the administrator and write flags.
LEMMA FlagSteps ==
    ASSUME TInv, SameCount, FOK,
           reconcileShardsInit \/ WriteShardsInit \/ reconcileShardedAdminUser \/ NoScaleIn \/ WriteAddShards
    PROVE  FOK'
<1>0. pc \in Last
    BY DEF reconcileShardsInit, WriteShardsInit, reconcileShardedAdminUser, NoScaleIn, WriteAddShards,
       RunningAt, Last
<1>1. /\ FState /\ FPass /\ View(mdbsh, obj) /\ Base \in Resource /\ View(Base, obj) /\ Base.spec = obj.spec
      /\ mongo \in ClusterType /\ mdbsh \in Resource
    BY <1>0, LastFacts, Zenon
<1>2. CASE reconcileShardsInit
    <2> DEFINE W == {i \in Declared(mdbsh) : ~ mdbsh.st.inited[i]}
               new == {w \in W : AnonymousAdmin /\ ~ Initiated(w)}
               x == [w \in DOMAIN mongo.store |-> IF w \in new THEN "rs" ELSE mongo.store[w]]
               c == [mongo EXCEPT !.store = x]
               f == [i \in ShardIds |-> mdbsh.st.inited[i]
                        \/ (i \in Declared(mdbsh) /\ (Initiated(i) \/ AnonymousAdmin))]
    <2>1. Cfg \notin new
        BY CfgIsNoShard DEF Declared
    <2>2. c.fcv = mongo.fcv /\ c.shard = mongo.shard /\ c.store = x /\ c \in [DOMAIN mongo -> {c[k] : k \in DOMAIN c}]
        <3> HIDE DEF x
        <3> QED BY <1>1 DEF ClusterType
    <2>3. mongo' = [c EXCEPT !.fcv = c.fcv]
        <3>1. mongo' = [c EXCEPT !.fcv = IF Cfg \in new THEN MajorMinor(wl[Cfg].v) ELSE c.fcv]
            BY <1>2, Zenon DEF reconcileShardsInit, Initiate
        <3> HIDE DEF c, new
        <3> QED BY <2>1, <3>1
    <2>4. mongo'.fcv = mongo.fcv /\ mongo'.shard = mongo.shard /\ mongo'.store = x
        <3> HIDE DEF c, x
        <3> QED BY <1>1, <2>2, <2>3 DEF ClusterType
    <2>5. x[Cfg] = mongo.store[Cfg]
        BY <1>1, <2>1, ClusterParts
    <2>6. mdbsh' = [mdbsh EXCEPT !.st = [mdbsh.st EXCEPT !.inited = f]]
        BY <1>2 DEF reconcileShardsInit
    <2> HIDE DEF x, c, f, new
    <2>7. View(mdbsh', mdbsh)
        BY <1>1, <2>6, Zenon DEF View, Resource, StatusType
    <2>8. UNCHANGED <<obj, wl, desired>> /\ pc' = "InitWrite"
        BY <1>2 DEF reconcileShardsInit, Goto
    <2>9. Templates /\ Servers /\ \A i \in InitIds : wl'[i].t = wl[i].t
        BY <2>4, <2>5, <2>8 DEF Templates, Servers, Members
    <2>10. Frame /\ View(mdbsh', obj')
        BY <1>1, <2>7, <2>8, <2>9, ViewTrans, ViewRefl DEF Frame
    <2> QED BY <1>0, <2>8, <2>9, <2>10, LastMove DEF Last
<1>3. ASSUME wl' = wl, mongo' = mongo, Return, obj' = obj PROVE FOK'
    BY <1>1, <1>3, SameEnv, ViewRefl, FrameReturn DEF Frame
<1>4. ASSUME NEW o, View(o, Base), o.spec = Base.spec, obj' = o, wl' = wl, mongo' = mongo,
             \/ Return
             \/ /\ mdbsh' = o /\ pc' \in Last /\ desired' = desired
                /\ pc' \in {"ScaleIn", "Cleanup"} => idx' >= InitSpec.count
      PROVE  FOK'
    <2>1. View(o, obj) /\ o.spec = obj.spec
        BY <1>1, <1>4, FrameClosure
    <2>2. Frame /\ \A i \in InitIds : wl'[i].t = wl[i].t
        BY <1>4, <2>1, SameEnv DEF Frame
    <2>3. CASE Return
        BY <1>1, <2>2, <2>3, FrameReturn
    <2>4. CASE /\ mdbsh' = o /\ pc' \in Last /\ desired' = desired
               /\ pc' \in {"ScaleIn", "Cleanup"} => idx' >= InitSpec.count
        BY <1>0, <1>4, <2>2, <2>4, LastMove, ViewRefl
    <2> QED BY <1>4, <2>3, <2>4
<1>5. ASSUME UNCHANGED <<obj, mdbsh, wl, mongo, desired>>, pc' \in Last,
             pc' \in {"ScaleIn", "Cleanup"} => idx' >= InitSpec.count
      PROVE  FOK'
    BY <1>0, <1>1, <1>5, SameEnv, ViewRefl, LastMove DEF Frame
<1>6. CASE updateStatusError /\ wl' = wl /\ mongo' = mongo
    BY <1>1, <1>6, SameEnv, FrameFailure
<1>7. View(initializedSnapshot(Base), Base) /\ initializedSnapshot(Base).spec = Base.spec
      /\ View(addedSnapshot(Base), Base) /\ addedSnapshot(Base).spec = Base.spec
      /\ View(setAdminUserCreated(Base), Base) /\ setAdminUserCreated(Base).spec = Base.spec
    BY <1>1, ViewClosures
<1>8. View(setFailed(initializedSnapshot(Base)), Base) /\ setFailed(initializedSnapshot(Base)).spec = Base.spec
      /\ View(setFailed(addedSnapshot(Base)), Base) /\ setFailed(addedSnapshot(Base)).spec = Base.spec
    <2>1. initializedSnapshot(Base) \in Resource /\ addedSnapshot(Base) \in Resource
        BY <1>1, SnapshotTypes, SMTT(30)
    <2> QED BY <1>7, <2>1, ViewClosures, ViewTrans
<1>9. CASE WriteShardsInit
    BY <1>4, <1>7, <1>8, <1>9, SMTT(30) DEF WriteShardsInit, WriteAndGoto, WriteAndReturn, Write, Goto, env, Last
<1>10. CASE WriteAddShards
    BY <1>4, <1>7, <1>8, <1>10, SMTT(30) DEF WriteAddShards, WriteAndGoto, WriteAndReturn, Write, Goto, env, Last
<1>11. CASE NoScaleIn
    BY <1>5, <1>11, Zenon DEF NoScaleIn, env, Last
<1>12. CASE reconcileShardedAdminUser
    <2>0. wl' = wl /\ mongo' = mongo
        BY <1>12 DEF reconcileShardedAdminUser, env
    <2>1. CASE UNCHANGED obj /\ Return
        BY <1>3, <2>0, <2>1
    <2>2. CASE updateStatusError
        BY <1>6, <2>0, <2>2
    <2>3. CASE /\ IF mdbsh.st.admin THEN UNCHANGED <<obj, mdbsh, fresh>>
                                    ELSE Write(setAdminUserCreated(Base))
               /\ pc' = "ScaleIn" /\ idx' = mdbsh'.spec.count /\ UNCHANGED desired
        <3>1. mdbsh'.spec \in Specs
            BY <1>1, <1>7, <2>3, ResourceParts, SMTT(30) DEF Write
        <3>2. idx' >= InitSpec.count
            BY <2>3, <3>1, SpecFacts, SpecsAreTyped DEF SameCount
        <3>3. CASE UNCHANGED <<obj, mdbsh>>
            BY <1>5, <2>0, <2>3, <3>2, <3>3, SMTT(30) DEF Last
        <3>4. CASE Write(setAdminUserCreated(Base))
            BY <1>4, <1>7, <2>0, <2>3, <3>2, <3>4 DEF Last, Write
        <3> QED BY <2>3, <3>3, <3>4
    <2> QED BY <1>12, <2>1, <2>2, <2>3 DEF reconcileShardedAdminUser
<1> QED BY <1>2, <1>9, <1>10, <1>11, <1>12

\* The steps that remove shards: there are none to remove.
LEMMA ScaleInSteps ==
    ASSUME TInv, SameCount, FOK, reconcileScaleIn \/ cleanupShardResources \/ CleanupFails
    PROVE  FOK'
<1>0. pc \in Last /\ pc \in {"ScaleIn", "Cleanup"}
    BY DEF reconcileScaleIn, cleanupShardResources, CleanupFails, RunningAt, Last
<1>1. /\ FState /\ FPass /\ View(mdbsh, obj) /\ mongo \in ClusterType /\ mdbsh \in Resource
      /\ wl \in [Workloads -> WorkloadType] /\ Footing /\ InitSpec.count \in Int
    <2>1. InitSpec.count \in Int
        BY SpecFacts, SpecsAreTyped, SMTT(30)
    <2> QED BY <1>0, <2>1, LastFacts, Zenon
<1>2. idx >= InitSpec.count /\ idx \in Int /\ idx # Cfg /\ idx \notin InitIds /\ idx \notin Members
    <2>1. idx >= InitSpec.count /\ idx \in 0 .. MaxShards
        BY <1>0, <1>1, Zenon DEF FPass, TInv, PassOK
    <2>2. idx \in Int /\ idx # Cfg /\ idx \notin InitIds
        BY <1>1, <2>1 DEF Cfg, InitIds, ShardIds
    <2> QED BY <1>1, <2>1, <2>2 DEF Footing
<1>3. CASE reconcileScaleIn
    <2> DEFINE x == [mongo.shard EXCEPT ![idx] = ShardAfterRemove(idx)]
    <2>1. mongo' = [mongo EXCEPT !.shard = x] /\ wl' = wl
        BY <1>3, Zenon DEF reconcileScaleIn
    <2>2. mongo'.shard = x /\ mongo'.store = mongo.store /\ mongo'.fcv = mongo.fcv
        <3> HIDE DEF x
        <3> QED BY <1>1, <2>1 DEF ClusterType
    <2>3. \A i \in ShardIds : x[i] # "absent" => mongo.shard[i] # "absent"
        BY <1>1, ClusterParts DEF ShardAfterRemove, RemoveShardWithStatus
    <2> HIDE DEF x
    <2>4. Templates /\ Servers /\ \A i \in InitIds : wl'[i].t = wl[i].t
        BY <2>1, <2>2, <2>3 DEF Templates, Servers, Members
    <2>5. CASE updateStatusError
        BY <1>1, <2>4, <2>5, FrameFailure, SMTT(30)
    <2>6. CASE UNCHANGED obj /\ Return
        BY <1>1, <2>4, <2>6, FrameReturn, ViewRefl DEF Frame
    <2>7. CASE Goto("Cleanup") /\ UNCHANGED <<obj, mdbsh, fresh>>
        <3>1. Frame /\ View(mdbsh', obj') /\ pc' = "Cleanup" /\ idx' = idx /\ desired' = desired
            BY <1>1, <2>4, <2>7, ViewRefl DEF Frame, Goto
        <3> QED BY <1>0, <1>2, <2>4, <3>1, LastMove DEF Last
    <2> QED BY <1>3, <2>5, <2>6, <2>7 DEF reconcileScaleIn
<1>4. ASSUME wl' \in {wl, [wl EXCEPT ![idx] = NoWorkload]}
      PROVE  wl'[Cfg] = wl[Cfg] /\ (\A i \in Members \cup InitIds : wl'[i].t = wl[i].t)
    <2>1. Members \cup InitIds \subseteq Workloads \ {idx} /\ Cfg \in Workloads \ {idx}
        BY <1>2 DEF Members, InitIds, Workloads
    <2> QED BY <1>1, <1>4, <2>1
<1>5. CASE CleanupFails
    <2>1. Templates /\ Servers
        <3>1. mongo' = mongo /\ wl' \in {wl, [wl EXCEPT ![idx] = NoWorkload]}
            BY <1>5, Zenon DEF CleanupFails
        <3> QED BY <1>4, <3>1 DEF Templates, Servers, Members
    <2> QED BY <1>1, <1>5, <2>1, FrameFailure DEF CleanupFails
<1>6. CASE cleanupShardResources
    <2> DEFINE a == [mdbsh.st.added EXCEPT ![idx] = FALSE]
               b == [mdbsh.st.inited EXCEPT ![idx] = FALSE]
               e == [mdbsh.st EXCEPT !.added = a]
               x == [mongo.store EXCEPT ![idx] = "none"]
    <2>0. mdbsh.st \in StatusType
        BY <1>1, ResourceParts
    <2>1. View([mdbsh EXCEPT !.st = e], mdbsh) /\ e \in [DOMAIN mdbsh.st -> {e[k] : k \in DOMAIN e}]
        <3> HIDE DEF a
        <3> QED BY <1>1, <2>0, ZenonT(30) DEF StatusType, Resource, View
    <2>2. mdbsh' = [mdbsh EXCEPT !.st = [e EXCEPT !.inited = [e.inited EXCEPT ![idx] = FALSE]]]
        BY <1>6, Zenon DEF cleanupShardResources
    <2>3. View(mdbsh', mdbsh)
        <3> HIDE DEF e
        <3> QED BY <1>1, <2>0, <2>1, <2>2, Zenon DEF Resource, StatusType, View
    <2>4. mongo' = [mongo EXCEPT !.store = x] /\ wl' = [wl EXCEPT ![idx] = NoWorkload]
        BY <1>6, Zenon DEF cleanupShardResources
    <2>5. x[Cfg] = mongo.store[Cfg]
        BY <1>1, <1>2, ClusterParts
    <2> HIDE DEF x, e
    <2>6. mongo'.shard = mongo.shard /\ mongo'.store = x /\ mongo'.fcv = mongo.fcv
        BY <1>1, <2>4 DEF ClusterType
    <2>7. Templates /\ Servers /\ \A i \in InitIds : wl'[i].t = wl[i].t
        BY <1>4, <2>4, <2>5, <2>6 DEF Templates, Servers, Members
    <2>8. pc' = "ScaleIn" /\ idx' = idx + 1 /\ UNCHANGED <<obj, desired>>
        BY <1>6 DEF cleanupShardResources
    <2>9. Frame /\ View(mdbsh', obj')
        BY <1>1, <2>3, <2>7, <2>8, ViewRefl, ViewTrans DEF Frame
    <2>10. idx' >= InitSpec.count
        BY <1>1, <1>2, <2>8
    <2> QED BY <1>0, <2>7, <2>8, <2>9, <2>10, LastMove DEF Last
<1> QED BY <1>3, <1>5, <1>6

\* The steps that add shards, shard collections and report.
LEMMA AddSteps ==
    ASSUME TInv, SameCount, FOK, reconcileAddShards \/ reconcileShardedCollections \/ updateStatus
    PROVE  FOK'
<1>0. pc \in Last
    BY DEF reconcileAddShards, reconcileShardedCollections, updateStatus, RunningAt, Last
<1>1. /\ FState /\ FPass /\ View(mdbsh, obj) /\ mongo \in ClusterType /\ mdbsh \in Resource
      /\ wl \in [Workloads -> WorkloadType] /\ Footing /\ Body /\ Initiated(Cfg)
      /\ obj.st.up = "" /\ obj.st.version # NoVersion /\ ~ Raised /\ ~ Ahead
      /\ mdbsh.st \in StatusType /\ mdbsh.spec \in Specs /\ obj \in Resource
      /\ View(Base, obj) /\ Base.spec = obj.spec /\ Base \in Resource
    BY <1>0, LastFacts, ResourceParts, Zenon
<1>2. \A i \in InitIds : wl[i].t = obj.st.eff
    BY <1>0, <1>1, Zenon DEF FPass, Last, Late
<1>3. CASE reconcileAddShards
    <2>0. CASE UNCHANGED <<obj, mdbsh, mongo, wl>> /\ Goto("Collections")
        BY <1>0, <1>1, <2>0, SameEnv, LastMove, ViewRefl, Zenon DEF Frame, Goto, Last
    <2>00. CASE areShardsInitialized(mdbsh)
        <3> DEFINE x == [i \in ShardIds |-> IF i \in ToAdd /\ mongo.shard[i] = "absent" THEN "active" ELSE mongo.shard[i]]
                   y == [w \in DOMAIN mongo.store |-> IF w \in ToAdd THEN "shard" ELSE mongo.store[w]]
                   c == [mongo EXCEPT !.shard = x]
                   f == [i \in ShardIds |-> mdbsh.st.added[i] \/ i \in ToAdd]
        <3>1. /\ pc' = "AddWrite" /\ UNCHANGED <<obj, wl, desired, idx>>
              /\ mdbsh' = [mdbsh EXCEPT !.st = [mdbsh.st EXCEPT !.added = f]]
            BY <1>3, <2>00 DEF reconcileAddShards, Goto
        <3>2. mongo'.shard = x /\ mongo'.store = y /\ mongo'.fcv = mongo.fcv
            <4>1. c.store = mongo.store /\ c.shard = x /\ c.fcv = mongo.fcv
                  /\ c \in [DOMAIN mongo -> {c[k] : k \in DOMAIN c}]
                <5> HIDE DEF x
                <5> QED BY <1>1, Zenon DEF ClusterType
            <4>2. mongo' = [c EXCEPT !.store = [w \in DOMAIN c.store |-> IF w \in ToAdd THEN "shard" ELSE c.store[w]]]
                BY <1>3, <2>00, Zenon DEF reconcileAddShards
            <4>3. mongo' = [c EXCEPT !.store = y]
                <5> HIDE DEF c
                <5> QED BY <4>1, <4>2
            <4> HIDE DEF c, x, y
            <4> QED BY <1>1, <4>1, <4>3, Zenon DEF ClusterType
        <3>3. ToAdd \subseteq InitIds /\ InitIds \subseteq ShardIds
            BY <1>1, DeclaredIds, Zenon DEF ToAdd, InitIds
        <3>4. Cfg \notin ToAdd /\ y[Cfg] = mongo.store[Cfg]
            BY <1>1, <3>3, CfgIsNoShard, ClusterParts, Zenon
        <3>5. \A i \in ShardIds : x[i] # "absent" => mongo.shard[i] # "absent" \/ i \in ToAdd
            OBVIOUS
        <3> HIDE DEF x, y, c, f
        <3>6. Members' \subseteq Members \cup ToAdd /\ \A i \in Members' : wl'[i].t = wl[i].t
            BY <3>1, <3>2, <3>5 DEF Members
        <3>7. View(mdbsh', mdbsh)
            BY <1>1, <3>1, Zenon DEF Resource, StatusType, View
        <3>8. (Initiated(Cfg)' <=> Initiated(Cfg)) /\ To' = To /\ From' = From
              /\ (Raised' <=> Raised) /\ (Ahead' <=> Ahead)
            BY <3>1, <3>2, <3>4 DEF Initiated, To, From, Raised, Ahead
        <3>9. \A i \in Members' : i \in Members \/ wl[i].t = obj.st.eff
            BY <1>2, <3>3, <3>6
        <3>10. Footing'
            BY <1>1, <3>1, <3>2, <3>3, <3>6, <3>8, Zenon DEF Footing
        <3>11. Body'
            BY <1>1, <3>1, <3>2, <3>6, <3>8, <3>9, Zenon DEF Body
        <3>12. Low => Low'
            BY <3>1, <3>2, <3>6, <3>8, <3>9 DEF Low
        <3>13. FState'
            BY <1>1, <3>1, <3>10, <3>11, Zenon DEF FState
        <3>14. FPass'
            <4>1. Wanted = desired /\ Wanted' = desired
                BY <1>0, <3>1 DEF Wanted, Last
            <4>2. View(mdbsh', obj')
                BY <1>1, <3>1, <3>7, ViewTrans, Zenon
            <4> QED BY <1>0, <1>1, <3>1, <3>8, <3>12, <4>1, <4>2, Zenon DEF FPass, Last, Late, Deciding
        <3> QED BY <3>1, <3>13, <3>14 DEF FOK
    <2> QED BY <1>3, <2>0, <2>00 DEF reconcileAddShards
<1>4. CASE reconcileShardedCollections
    <2>1. wl' = wl /\ mongo'.shard = mongo.shard /\ mongo'.store = mongo.store /\ mongo'.fcv = mongo.fcv
        <3>1. mongo' = mongo \/ (\E k : mongo' = [mongo EXCEPT !.coll = k])
            BY <1>4 DEF reconcileShardedCollections
        <3>2. wl' = wl
            BY <1>4 DEF reconcileShardedCollections
        <3> QED BY <1>1, <3>1, <3>2, Zenon DEF ClusterType
    <2>2. obj' = obj
        BY <1>4 DEF reconcileShardedCollections
    <2>3. Templates /\ Servers /\ \A i \in InitIds : wl'[i].t = wl[i].t
        BY <2>1 DEF Templates, Servers, Members
    <2>4. Frame
        BY <2>2, <2>3, ViewRefl DEF Frame
    <2>5. \/ Return
          \/ Goto("Status") /\ \E d : mdbsh' = [mdbsh EXCEPT !.st = [mdbsh.st EXCEPT !.drift = d]]
        BY <1>4 DEF reconcileShardedCollections
    <2>6. CASE Return
        BY <1>1, <2>4, <2>6, FrameReturn, Zenon
    <2>7. ASSUME NEW d, mdbsh' = [mdbsh EXCEPT !.st = [mdbsh.st EXCEPT !.drift = d]], Goto("Status")
          PROVE  FOK'
        <3>1. View(mdbsh', mdbsh)
            BY <1>1, <2>7, Zenon DEF Resource, StatusType, View
        <3>2. View(mdbsh', obj') /\ pc' = "Status" /\ desired' = desired
            BY <1>1, <2>2, <2>7, <3>1, ViewTrans, Zenon DEF Goto
        <3> QED BY <1>0, <2>3, <2>4, <3>2, LastMove DEF Last
    <2> QED BY <2>5, <2>6, <2>7
<1>5. CASE updateStatus
    <2>0. wl' = wl /\ mongo' = mongo /\ Return /\ obj' = IF fresh THEN observed(Base) ELSE setObserved(obj)
        BY <1>5 DEF updateStatus, WriteAndReturn
    <2>1. CASE obj' = setObserved(obj)
        BY <1>1, <2>0, <2>1, SameEnv, ViewClosures, FrameReturn, Zenon DEF Frame
    <2>2. CASE obj' = observed(Base)
        <3> DEFINE up == \A w \in Present(Base) \cup {Cfg, Mongos} : wl[w].ready
                   n == Cardinality(Present(Base))
                   p == IF up /\ n = Base.spec.count THEN "Running" ELSE "Initializing"
                   s == [Base.st EXCEPT !.n = n, !.ready = up, !.gen = Base.gen, !.phase = p]
        <3>1. obj' = [Base EXCEPT !.st = s]
            BY <2>2, Zenon DEF observed
        <3> HIDE DEF up, n, p
        <3>2. Base.st \in StatusType
            BY <1>1, ResourceParts, Zenon
        <3>3. /\ s.version = Base.st.version /\ s.eff = Base.st.eff /\ s.prev = Base.st.prev
              /\ s.up = Base.st.up /\ s.upGen = Base.st.upGen /\ s.fcv = Base.st.fcv
              /\ s.cfgInit = Base.st.cfgInit
            BY <3>2, Zenon DEF StatusType
        <3> HIDE DEF s
        <3>4. obj'.st = s /\ obj'.spec = obj.spec
            BY <1>1, <3>1, Zenon DEF Resource
        <3>5. /\ obj'.st.version = obj.st.version /\ obj'.st.eff = obj.st.eff /\ obj'.st.prev = obj.st.prev
              /\ obj'.st.up = obj.st.up /\ obj'.st.fcv = obj.st.fcv /\ obj'.spec = obj.spec
            BY <1>1, <3>3, <3>4, ZenonT(30) DEF View
        <3>6. (Initiated(Cfg)' <=> Initiated(Cfg)) /\ To' = To /\ From' = From /\ Members' = Members
              /\ (Raised' <=> Raised) /\ (Ahead' <=> Ahead)
            BY <2>0, <3>5 DEF Initiated, To, From, Raised, Ahead, Members
        <3>7. Footing'
            BY <1>1, <2>0, <3>6, Zenon DEF Footing
        <3>8. Body'
            BY <1>1, <2>0, <3>5, <3>6, Zenon DEF Body
        <3> QED BY <1>1, <2>0, <3>5, <3>7, <3>8, FReturn, Zenon DEF FState
    <2> QED BY <2>0, <2>1, <2>2
<1> QED BY <1>3, <1>4, <1>5

\* The config server is initiated: its binary gives the cluster its first FCV.
LEMMA Initiation ==
    ASSUME FState, obj.st.version # NoVersion, ~ Initiated(Cfg), Initiated(Cfg)',
           wl[Cfg].v # NoVersion, mongo'.fcv = MajorMinor(wl[Cfg].v), mongo'.shard = mongo.shard,
           wl'[Cfg].t = wl[Cfg].t, wl'[Cfg].v = wl[Cfg].v,
           obj'.st.version = obj.st.version, obj'.st.eff = obj.st.eff, obj'.st.prev = obj.st.prev,
           obj'.st.up = obj.st.up, obj'.st.fcv = obj.st.fcv, obj'.st.ready = obj.st.ready,
           MajorMinor(obj'.spec.version) = MajorMinor(obj.spec.version),
           wl[Cfg].t = wl[Cfg].v \/ ~ Ahead
    PROVE  FState' /\ (Low => Low') /\ (~ Ahead => ~ Raised') /\ ~ Ahead'
<1>1. Footing /\ Body
    BY SMTT(30) DEF FState
<1>2. Members = {} /\ Members' = {} /\ obj.st.ready = TRUE
    BY <1>1, SMTT(30) DEF Footing, Members
<1>3. To' = To /\ From' = From
    BY DEF To, From
<1>4. mongo'.fcv \in {From, To}
    BY <1>1, Zenon DEF Body, Is
<1>5. Raised' => Is(wl[Cfg].v, To) /\ Ahead /\ Moving
    <2>1. Raised' => To # From /\ Is(wl[Cfg].v, To)
        BY <1>3, SMTT(30) DEF Raised, Is
    <2> QED BY <1>1, <2>1, Zenon DEF Body
<1>6. Footing'
    BY <1>1, <1>2, SMTT(30) DEF Footing
<1>7. Low => Low'
    BY <1>2, <1>3 DEF Low, Is
<1>8. Body'
    <2>1. Raised' => /\ Moving' /\ obj'.st.ready = TRUE /\ Is(obj'.st.eff, To)
                     /\ Is(wl'[Cfg].t, To) /\ Is(wl'[Cfg].v, To)
        BY <1>2, <1>5, Zenon DEF Moving, Ahead
    <2> QED BY <1>1, <1>2, <1>3, <1>4, <1>7, <2>1, Zenon DEF Body
<1> QED BY <1>5, <1>6, <1>7, <1>8, Zenon DEF FState, Ahead

\* What FPass asks of the steps outside the pass.
LEMMA PassEnv ==
    ASSUME FPass, UNCHANGED <<mdbsh, pc, idx, desired>>, View(obj', obj),
           MajorMinor(obj'.spec.version) = MajorMinor(obj.spec.version), wl'[Cfg].t = wl[Cfg].t,
           wl[Cfg].v # NoVersion => wl'[Cfg].v # NoVersion,
           \A i \in InitIds : wl'[i].t = wl[i].t,
           obj.st.version # NoVersion /\ Low => Low',
           ~ Raised /\ ~ Ahead /\ obj.st.version # NoVersion => ~ Raised' /\ ~ Ahead',
           Initiated(Cfg) => Initiated(Cfg)' /\ mongo'.fcv = mongo.fcv
    PROVE  FPass'
<1>1. To' = To /\ From' = From /\ Wanted' = Wanted
    BY Zenon DEF To, From, Wanted, View
<1>2. View(mdbsh', obj')
    BY Zenon DEF View, FPass
<1>3. /\ obj'.st.version = obj.st.version /\ obj'.st.eff = obj.st.eff /\ obj'.st.up = obj.st.up
    BY DEF View
<1>4. pc \in Late => obj.st.version # NoVersion
    BY Zenon DEF FPass, Late, Last
<1> QED BY <1>1, <1>2, <1>3, <1>4, ZenonT(30) DEF FPass

\* A step outside the pass that keeps the view keeps the invariant.
LEMMA FrameEnv ==
    ASSUME FOK, Frame, UNCHANGED <<mdbsh, pc, idx, desired>>,
           \A i \in InitIds : wl'[i].t = wl[i].t
    PROVE  FOK'
<1>1. FState'
    BY StateFrame DEF FOK, Frame
<1>2. (Initiated(Cfg)' <=> Initiated(Cfg)) /\ mongo'.fcv = mongo.fcv /\ wl'[Cfg] = wl[Cfg]
    BY DEF Frame, Servers, Templates, Initiated
<1>3. FPass => FPass'
    BY <1>2, FrameFacts, PassEnv DEF Frame
<1> QED BY <1>1, <1>3 DEF FOK

\* A pod takes the template of its workload, and a pod crashes.
LEMMA RollStep ==
    ASSUME TInv, FOK, NEW w \in Workloads, Roll(w)
    PROVE  FOK'
<1>0. wl \in [Workloads -> WorkloadType] /\ Cfg \in Workloads /\ ShardIds \subseteq Workloads
    BY DEF TInv, EnvOK, Workloads
<1>00. UNCHANGED <<obj, mdbsh, pc, idx, desired, mongo>>
    BY DEF Roll
<1>1. \A u \in Workloads : wl'[u].t = wl[u].t /\ (u # w => wl'[u] = wl[u])
    BY <1>0 DEF Roll, WorkloadType
<1>2. wl'[w].v = wl[w].t /\ wl'[w].ready = FALSE /\ wl[w].t # wl[w].v
    BY <1>0 DEF Roll, WorkloadType
<1>3. Members \subseteq Workloads /\ InitIds \subseteq Workloads /\ Members' = Members
    BY <1>0, <1>00 DEF Members, InitIds
<1>4. CASE w # Cfg
    <2>1. Frame
        BY <1>0, <1>00, <1>1, <1>3, <1>4, ViewRefl DEF Frame, Templates, Servers
    <2> QED BY <1>00, <1>1, <1>3, <2>1, FrameEnv, Zenon
<1>5. CASE w = Cfg
    <2>1. FState /\ Footing
        BY SMTT(30) DEF FOK, FState
    <2>2. wl[Cfg].t # NoVersion
        BY <1>2, <1>5, <2>1, SMTT(30) DEF Footing
    <2>3. To' = To /\ From' = From /\ (Initiated(Cfg)' <=> Initiated(Cfg))
          /\ (Raised' <=> Raised) /\ (Ahead' <=> Ahead) /\ (Moving' <=> Moving)
        BY <1>00 DEF To, From, Initiated, Raised, Ahead, Moving
    <2>4. wl'[Cfg].t = wl[Cfg].t /\ wl'[Cfg].v = wl[Cfg].t /\ wl'[Cfg].ready = FALSE
          /\ \A i \in Members : wl'[i].t = wl[i].t
        BY <1>0, <1>1, <1>2, <1>3, <1>5, Zenon
    <2>5. Footing'
        BY <1>00, <1>3, <2>1, <2>2, <2>3, <2>4, Zenon DEF Footing
    <2>6. Low => Low'
        BY <1>00, <1>3, <2>2, <2>3, <2>4 DEF Low
    <2>7. Body => Body'
        BY <1>00, <1>3, <2>2, <2>3, <2>4, <2>6, Zenon DEF Body
    <2>8. obj.st.version # NoVersion
        BY <2>1, <2>2, Zenon DEF FState, Blank
    <2>9. FState'
        BY <1>00, <2>1, <2>5, <2>7, <2>8 DEF FState
    <2>10. FPass => FPass'
        BY <1>00, <1>1, <1>3, <2>2, <2>3, <2>4, <2>6, ViewRefl, PassEnv, Zenon
    <2> QED BY <1>00, <2>9, <2>10 DEF FOK
<1> QED BY <1>4, <1>5

LEMMA PodStep ==
    ASSUME TInv, FOK, NEW w \in Workloads, PodReady(w) \/ PodDown(w)
    PROVE  FOK'
<1>0. wl \in [Workloads -> WorkloadType] /\ Cfg \in Workloads /\ ShardIds \subseteq Workloads
      /\ mongo \in ClusterType
    BY DEF TInv, EnvOK, Workloads
<1>00. UNCHANGED <<obj, mdbsh, pc, idx, desired>>
    BY DEF PodReady, PodDown
<1>1. \A u \in Workloads : wl'[u].t = wl[u].t /\ wl'[u].v = wl[u].v /\ (u # w => wl'[u] = wl[u])
    BY <1>0 DEF PodReady, PodDown, WorkloadType
<1>2. Members \subseteq Workloads /\ InitIds \subseteq Workloads
    BY <1>0 DEF Members, InitIds
<1>3. FState /\ Footing
    BY DEF FOK, FState
<1>4. wl'[Cfg].ready = TRUE => wl[Cfg].v # NoVersion
    <2>1. CASE w = Cfg /\ PodReady(w)
        BY <2>1 DEF PodReady
    <2>2. CASE w = Cfg /\ PodDown(w)
        BY <1>0, <2>2, SMTT(30) DEF PodDown, WorkloadType
    <2>3. CASE w # Cfg
        BY <1>0, <1>1, <1>3, <2>3, Zenon DEF Footing
    <2> QED BY <2>1, <2>2, <2>3, Zenon
<1>5. ASSUME Servers, mongo'.shard = mongo.shard PROVE FOK'
    <2>1. To' = To /\ From' = From /\ (Initiated(Cfg)' <=> Initiated(Cfg)) /\ mongo'.fcv = mongo.fcv
          /\ (Raised' <=> Raised) /\ (Ahead' <=> Ahead) /\ (Moving' <=> Moving) /\ Members' = Members
        BY <1>00, <1>5, Zenon DEF To, From, Initiated, Raised, Ahead, Moving, Servers, Members
    <2>2. wl'[Cfg].t = wl[Cfg].t /\ wl'[Cfg].v = wl[Cfg].v /\ \A i \in Members : wl'[i].t = wl[i].t
        BY <1>0, <1>1, <1>2
    <2>3. Footing'
        BY <1>00, <1>3, <1>4, <2>1, <2>2, Zenon DEF Footing
    <2>4. Low => Low'
        BY <1>00, <2>1, <2>2 DEF Low
    <2>5. (Body => Body') /\ (Blank => Blank')
        BY <1>00, <2>1, <2>2, <2>4, ZenonT(30) DEF Body, Blank
    <2>6. FState'
        BY <1>00, <1>3, <2>3, <2>5 DEF FState
    <2>7. FPass => FPass'
        BY <1>00, <1>1, <1>2, <2>1, <2>2, <2>4, ViewRefl, PassEnv, Zenon
    <2> QED BY <1>00, <2>6, <2>7, SMTT(30) DEF FOK
<1>6. CASE mongo' = mongo
    BY <1>5, <1>6 DEF Servers
<1>7. CASE PodReady(w) /\ mongo' # mongo
    <2> DEFINE x == [mongo.store EXCEPT ![w] = "rs"]
               c == [mongo EXCEPT !.store = x]
               d == [c EXCEPT !.admin = c.admin \/ w = Cfg]
               f == IF w = Cfg THEN MajorMinor(wl[w].v) ELSE d.fcv
    <2>1. mongo' = [d EXCEPT !.fcv = f]
        BY <1>7, Zenon DEF PodReady
    <2>2. c \in [DOMAIN mongo -> {c[k] : k \in DOMAIN c}] /\ c.shard = mongo.shard /\ c.store = x
          /\ c.fcv = mongo.fcv
        <3> HIDE DEF x
        <3> QED BY <1>0 DEF ClusterType
    <2>3. d \in [DOMAIN mongo -> {d[k] : k \in DOMAIN d}] /\ d.shard = mongo.shard /\ d.store = x
          /\ d.fcv = mongo.fcv
        <3> HIDE DEF x, c
        <3> QED BY <1>0, <2>2 DEF ClusterType
    <2>4. mongo'.shard = mongo.shard /\ mongo'.store = x /\ mongo'.fcv = f
        <3> HIDE DEF x, c, d, f
        <3> QED BY <1>0, <2>1, <2>3 DEF ClusterType
    <2>5. w # Mongos /\ mongo.store[w] = "none" /\ wl[w].v # NoVersion /\ wl[w].t = wl[w].v
        BY <1>7 DEF PodReady
    <2>6. x[Cfg] = IF w = Cfg THEN "rs" ELSE mongo.store[Cfg]
        BY <1>0, ClusterParts
    <2>7. CASE w # Cfg
        <3>1. Servers
            BY <2>3, <2>4, <2>6, <2>7 DEF Servers
        <3> QED BY <1>5, <2>4, <3>1
    <2>8. CASE w = Cfg
        <3>1. ~ Initiated(Cfg) /\ Initiated(Cfg)' /\ mongo'.fcv = MajorMinor(wl[Cfg].v)
            BY <2>4, <2>5, <2>6, <2>8 DEF Initiated
        <3>2. obj.st.version # NoVersion
            BY <1>3, <2>5, <2>8, Zenon DEF FState, Blank
        <3>3. FState' /\ (Low => Low') /\ (~ Ahead => ~ Raised') /\ ~ Ahead'
            BY <1>0, <1>00, <1>1, <1>3, <2>4, <2>5, <2>8, <3>1, <3>2, Initiation, SMTT(30)
        <3>4. FPass => FPass'
            BY <1>00, <1>0, <1>1, <1>2, <3>1, <3>3, ViewRefl, PassEnv, Zenon
        <3> QED BY <1>00, <3>3, <3>4 DEF FOK
    <2> QED BY <2>7, <2>8
<1> QED
    <2>1. PodDown(w) => mongo' = mongo
        BY DEF PodDown
    <2> QED BY <1>6, <1>7, <2>1

\* Nothing holds the upgrade to the new minor yet.
Calmed ==
    /\ ~ Raised
    /\ To # From /\ ~ Initiated(Cfg) => ~ Is(wl[Cfg].t, To) /\ ~ Is(wl[Cfg].v, To)

\* With no rollout under way nothing holds it.
LEMMA StillIsCalm == ASSUME Body, ~ Moving PROVE Calmed
BY Zenon DEF Body, Calmed

\* A write of the upgrade phase alone.
LEMMA PhaseWrite ==
    ASSUME FState, obj.st.version # NoVersion, wl' = wl, mongo' = mongo, Rest(obj', obj),
           obj'.st.upGen = obj.st.upGen \/ Initiated(Cfg),
           obj'.st.up # "" => obj.st.up # "",
           Moving' \/ Calmed,
           obj'.st.up = "RollingBack" => Initiated(Cfg),
           obj'.st.up = "Validating" =>
              wl[Cfg].t = obj.st.eff /\ \A i \in Members : wl[i].t = obj.st.eff
    PROVE  FState'
<1>1. Footing /\ Body
    BY Zenon DEF FState
<1>2. /\ To' = To /\ From' = From /\ (Raised' <=> Raised) /\ (Ahead' <=> Ahead)
      /\ (Initiated(Cfg)' <=> Initiated(Cfg)) /\ Members' = Members
    BY Zenon DEF To, From, Raised, Ahead, Initiated, Members, Rest
<1>3. Low => Low'
    BY <1>2, Zenon DEF Low, Rest
<1>4. Footing'
    BY <1>1, <1>2, Zenon DEF Footing, Rest
<1>5. Body'
    <2>1. Raised' => Moving'
        BY <1>2, Zenon DEF Calmed
    <2>2. To # From /\ ~ Initiated(Cfg) /\ (Is(wl[Cfg].t, To) \/ Is(wl[Cfg].v, To)) => Ahead /\ Moving'
        BY <1>1, Zenon DEF Calmed, Body
    <2> QED BY <1>1, <1>2, <1>3, <2>1, <2>2, ZenonT(30) DEF Body, Rest
<1> QED BY <1>4, <1>5, Zenon DEF FState, Rest

\* What UpdateWithRetry starts from keeps the rest of the status.
LEMMA RestBase ==
    ASSUME TInv, View(mdbsh, obj), NEW o, Rest(o, Base)
    PROVE  Rest(o, obj)
BY FBaseView DEF Rest, View

\* What every step of a pass under way knows.
LEMMA PassFacts ==
    ASSUME TInv, FOK, pc # "Idle"
    PROVE  /\ FState /\ FPass /\ View(mdbsh, obj) /\ Footing
           /\ (obj.st.version # NoVersion => Body)
           /\ Base \in Resource /\ View(Base, obj) /\ Base.spec = obj.spec
           /\ mdbsh \in Resource /\ obj \in Resource
<1>1. FState /\ FPass /\ View(mdbsh, obj)
    BY Zenon DEF FOK, FPass
<1> QED BY <1>1, FBaseView DEF FState, TInv, PassOK

\* The same once the version is seeded.
LEMMA SeededFacts ==
    ASSUME TInv, FOK, pc \in {"Upgrade", "Complete"} \cup Late
    PROVE  /\ obj.st.version # NoVersion /\ Body /\ Wanted = desired
           /\ (Is(desired, To) \/ (Is(desired, From) /\ Low))
<1>1. pc # "Idle" /\ pc # "Phase" /\ pc # "Seed"
    BY DEF Late, Last
<1>2. FPass /\ (obj.st.version # NoVersion => Body)
    BY <1>1, PassFacts
<1>3. Wanted = desired
    BY <1>1 DEF Wanted
<1> QED BY <1>1, <1>2, <1>3, Zenon DEF FPass

\* The steps that open a pass and end an upgrade without a decision.
LEMMA OpeningSteps ==
    ASSUME TInv, FOK, Start \/ SetInitializing \/ Seed
    PROVE  FOK'
<1>0. obj \in Resource /\ obj.spec \in Specs /\ Is(obj.spec.version, To)
    BY ResourceParts, SpecFacts DEF TInv, PassOK, Is, To, NoVersion
<1>1. CASE Start
    <2>1. UNCHANGED <<obj, wl, mongo>> /\ mdbsh' = obj /\ pc' = "Phase"
        BY <1>1 DEF Start, Goto, env
    <2>2. FState' /\ To' = To
        BY <2>1, SameEnv, ViewRefl, StateFrame, FrameFacts, SMTT(30) DEF FOK, Frame
    <2>3. FPass'
        BY <1>0, <2>1, <2>2, Zenon DEF FPass, View, Wanted, Deciding, Late, Last
    <2> QED BY <2>2, <2>3 DEF FOK
<1>2. CASE SetInitializing
    <2>0. pc = "Phase" /\ pc' = "Seed" /\ UNCHANGED <<wl, mongo>> /\ desired' = mdbsh'.spec.version
        BY <1>2, Zenon DEF SetInitializing, RunningAt, env
    <2>1. /\ FState /\ FPass /\ View(mdbsh, obj) /\ Base \in Resource /\ View(Base, obj)
          /\ Base.spec = obj.spec
        BY <2>0, PassFacts
    <2>2. Wanted = mdbsh.spec.version /\ Wanted' = mdbsh'.spec.version
        BY <2>0, SMTT(30) DEF Wanted
    <2>3. /\ View(obj', obj) /\ obj'.spec = obj.spec /\ View(mdbsh', obj')
          /\ (mdbsh' = mdbsh \/ mdbsh'.spec = obj.spec)
        <3>1. CASE UNCHANGED <<obj, mdbsh>>
            BY <2>1, <3>1, ViewRefl
        <3>2. CASE Write(setInitializing(Base))
            <4>1. View(setInitializing(Base), obj) /\ setInitializing(Base).spec = obj.spec
                BY <2>1, ViewClosures, FrameClosure
            <4> QED BY <3>2, <4>1, ViewRefl DEF Write
        <3> QED BY <1>2, <3>1, <3>2, Zenon DEF SetInitializing
    <2>4. Frame
        BY <2>0, <2>3, SameEnv DEF Frame
    <2>5. FState'
        BY <2>1, <2>4, StateFrame DEF Frame
    <2>6. obj'.st.version = obj.st.version
        BY <2>3, SMTT(30) DEF View
    <2>7. FPass'
        BY <1>0, <2>0, <2>1, <2>2, <2>3, <2>4, <2>6, FrameFacts, Zenon DEF FPass, Deciding, Late, Last
    <2> QED BY <2>5, <2>7, SMTT(30) DEF FOK
<1>3. CASE Seed
    <2>0. pc = "Seed" /\ pc' = "Upgrade" /\ UNCHANGED <<wl, mongo, desired>>
        BY <1>3, Zenon DEF Seed, RunningAt, env, WriteAndGoto, Goto
    <2>1. /\ FState /\ FPass /\ View(mdbsh, obj) /\ Base \in Resource /\ View(Base, obj)
          /\ Base.spec = obj.spec /\ Footing /\ (obj.st.version # NoVersion => Body)
        BY <2>0, PassFacts
    <2>2. Wanted = desired /\ Wanted' = desired
        BY <2>0 DEF Wanted
    <2>3. CASE obj.st.version # NoVersion
        <3>1. mdbsh.st.eff # NoVersion /\ mdbsh.st.version # NoVersion
            BY <2>1, <2>3, Zenon DEF View, Body, Is
        <3>2. UNCHANGED <<obj, mdbsh>>
            BY <1>3, <3>1 DEF Seed
        <3>3. Frame
            BY <2>0, <3>2, SameEnv, ViewRefl, SMTT(30) DEF Frame
        <3>4. FState'
            BY <2>1, <3>3, StateFrame, SMTT(30) DEF Frame
        <3>5. FPass'
            BY <2>0, <2>1, <2>2, <2>3, <3>2, <3>3, FrameFacts, Zenon DEF FPass, Deciding, Late, Last
        <3> QED BY <3>4, <3>5 DEF FOK
    <2>4. CASE obj.st.version = NoVersion
        <3>1. Blank /\ ~ Initiated(Cfg) /\ Members = {} /\ Is(desired, To)
            BY <2>1, <2>2, <2>4, ZenonT(30) DEF FState, Footing, Blank, FPass
        <3>2. WriteAndGoto(seed(Base), "Upgrade")
            BY <1>3, <2>1, <2>4, Zenon DEF Seed, View
        <3>3. obj' = seed(Base) /\ mdbsh' = seed(Base)
            BY <3>2 DEF WriteAndGoto, Write
        <3>4. /\ obj'.spec = obj.spec /\ obj'.st.eff = desired /\ obj'.st.version = desired
              /\ obj'.st.up = "" /\ obj'.st.fcv = 0 /\ obj'.st.upGen = obj.st.upGen
              /\ obj'.st.ready = obj.st.ready /\ obj'.st.cfgInit = obj.st.cfgInit
            BY <2>1, <2>4, <3>1, <3>3, SeedFields, Zenon DEF View, Blank
        <3>5. To' = To /\ From' = To /\ ~ Initiated(Cfg)' /\ Members' = {}
            BY <2>0, <3>1, <3>4, Zenon DEF To, From, Is, Initiated, Members
        <3>6. Footing'
            BY <2>0, <2>1, <3>1, <3>4, <3>5, Zenon DEF Footing
        <3>7. Body'
            BY <2>0, <3>1, <3>4, <3>5, Zenon DEF Body, Blank, Raised
        <3>8. FPass'
            BY <2>0, <2>2, <3>1, <3>3, <3>4, <3>5, ViewRefl, Zenon DEF FPass, Deciding, Late, Last, Is
        <3> QED BY <3>1, <3>4, <3>6, <3>7, <3>8, Zenon DEF FOK, FState, Is
    <2> QED BY <2>3, <2>4, SMTT(30)
<1> QED BY <1>1, <1>2, <1>3

\* On to the workloads: no upgrade to decide about, or one that rolls out.
LEMMA GotoCfg ==
    ASSUME FState', obj'.st.version # NoVersion, View(mdbsh', obj'), pc' = "Cfg",
           Is(desired', To') \/ (Is(desired', From') /\ Low'),
           obj'.st.up = "Upgrading" \/ (obj'.st.up = "" /\ ~ Raised' /\ ~ Ahead')
    PROVE  FOK'
<1>1. Wanted' = desired'
    BY Zenon DEF Wanted
<1> QED BY <1>1, Zenon DEF FOK, FPass, Late, Last

\* The steps that decide: start, back up, wait, roll back, give up.
LEMMA DecidingSteps ==
    ASSUME TInv, FOK,
           \/ NoUpgrade \/ NothingToDecide \/ StartUpgrade \/ BackingUp \/ KeepValidating
           \/ ValidationTimedOut \/ RollBack
    PROVE  FOK'
<1>0. pc = "Upgrade"
    BY Zenon DEF NoUpgrade, NothingToDecide, StartUpgrade, BackingUp, KeepValidating,
       ValidationTimedOut, RollBack, UpgradeAt, RunningAt
<1>1. /\ FState /\ FPass /\ View(mdbsh, obj) /\ Base \in Resource /\ View(Base, obj)
      /\ Base.spec = obj.spec /\ Footing /\ mdbsh \in Resource
    BY <1>0, PassFacts
<1>2. obj.st.version # NoVersion /\ Body /\ (Is(desired, To) \/ (Is(desired, From) /\ Low))
    BY <1>0, SeededFacts
<1>3. ASSUME UNCHANGED <<obj, mdbsh, desired, wl, mongo>>, pc' = "Cfg",
             obj.st.up = "Upgrading" \/ (obj.st.up = "" /\ ~ Raised /\ ~ Ahead)
      PROVE  FOK'
    <2>1. Frame
        BY <1>3, SameEnv, ViewRefl, Zenon DEF Frame
    <2>2. FState'
        BY <1>1, <2>1, StateFrame DEF Frame
    <2> QED BY <1>1, <1>2, <1>3, <2>1, <2>2, FrameFacts, GotoCfg, Zenon
<1>4. ASSUME Return, UNCHANGED <<obj, wl, mongo>> PROVE FOK'
    BY <1>1, <1>4, SameEnv, ViewRefl, FrameReturn DEF Frame
<1>5. CASE NoUpgrade
    <2>1. Is(desired, From)
        BY <1>1, <1>2, <1>5, Zenon DEF NoUpgrade, Unchanged, View, Is, From
    <2>2. ~ Raised /\ ~ Ahead /\ Calmed
        BY <1>2, <2>1 DEF Raised, Ahead, Calmed, Low, Is
    <2>3. pc' = "Cfg" /\ UNCHANGED <<wl, mongo, desired>>
        BY <1>5, Zenon DEF NoUpgrade, WriteAndGoto, Goto, env
    <2>4. CASE mdbsh.st.up = ""
        BY <1>1, <1>3, <1>5, <2>2, <2>3, <2>4, Zenon DEF NoUpgrade, View
    <2>5. CASE mdbsh.st.up # ""
        <3>1. obj' = clearUpgrade(Base) /\ mdbsh' = obj'
            BY <1>5, <2>5, Zenon DEF NoUpgrade, WriteAndGoto, Write
        <3>2. Rest(obj', obj) /\ obj'.st.up = "" /\ obj'.st.upGen = obj.st.upGen
            BY <1>1, <3>1, PhaseClosures, RestBase, Zenon DEF View
        <3>3. FState'
            BY <1>1, <1>2, <2>2, <2>3, <3>2, PhaseWrite, Zenon
        <3>4. To' = To /\ From' = From /\ ~ Raised' /\ ~ Ahead' /\ (Low => Low')
            BY <2>2, <2>3, <3>2, Zenon DEF To, From, Raised, Ahead, Low, Initiated, Members, Rest
        <3> QED BY <1>2, <2>3, <3>1, <3>2, <3>3, <3>4, ViewRefl, GotoCfg, Zenon DEF Rest
    <2> QED BY <2>4, <2>5, Zenon
<1>6. CASE NothingToDecide
    <2>1. UNCHANGED <<obj, mdbsh, desired, wl, mongo>> /\ pc' = "Cfg"
        BY <1>6, Zenon DEF NothingToDecide, Goto, env
    <2>2. CASE mdbsh.st.up = "Upgrading"
        BY <1>1, <1>3, <2>1, <2>2 DEF View
    <2>3. CASE alreadyTerminal
        <3>1. obj.st.up = "" /\ obj.st.upGen # 0
            <4>1. mdbsh.gen \in 1 .. MaxGen /\ 0 \notin 1 .. MaxGen
                BY <1>1, ResourceParts
            <4> QED BY <1>1, <2>3, <4>1, Zenon DEF alreadyTerminal, View
        <3>2. Initiated(Cfg)
            BY <1>1, <3>1, Zenon DEF Footing
        <3>3. ~ Raised /\ ~ Ahead
            BY <1>2, <3>1, <3>2, Zenon DEF Body, Moving, Ahead
        <3> QED BY <1>3, <2>1, <3>1, <3>3, Zenon
    <2> QED BY <1>6, <2>2, <2>3, SMTT(30) DEF NothingToDecide
<1>7. CASE StartUpgrade
    <2>1. obj' = startUpgrade(Base) /\ Return /\ UNCHANGED <<wl, mongo>> /\ obj.st.up = ""
        BY <1>1, <1>7, Zenon DEF StartUpgrade, UpgradeAt, WriteAndReturn, env, View
    <2>2. /\ obj'.spec = obj.spec /\ obj'.st.version = obj.st.version /\ obj'.st.eff = desired
          /\ obj'.st.prev = obj.st.version /\ obj'.st.up \in {"BackingUp", "Upgrading"}
          /\ obj'.st.fcv = obj.st.fcv /\ obj'.st.upGen = obj.st.upGen
          /\ obj'.st.ready = obj.st.ready /\ obj'.st.cfgInit = obj.st.cfgInit
        BY <1>1, <2>1, StartFields, Zenon DEF View
    <2>3. Calmed
        BY <1>2, <2>1, StillIsCalm, Zenon DEF Moving
    <2>4. /\ To' = To /\ From' = From /\ (Raised' <=> Raised) /\ Members' = Members
          /\ (Initiated(Cfg)' <=> Initiated(Cfg)) /\ Is(obj'.st.prev, From)
        BY <1>2, <2>1, <2>2, Zenon DEF To, From, Raised, Initiated, Members, Is
    <2>5. Footing'
        BY <1>1, <2>1, <2>2, <2>4, Zenon DEF Footing
    <2>6. Is(desired, From) /\ Low => Low'
        BY <2>1, <2>2, <2>4, Zenon DEF Low
    <2>7. To # From /\ Is(desired, From) => Low'
        BY <1>2, <2>6 DEF Is
    <2>8. Body'
        BY <1>2, <2>1, <2>2, <2>3, <2>4, <2>7, ZenonT(30) DEF Body, Calmed
    <2>9. FState'
        BY <1>2, <2>2, <2>5, <2>8, Zenon DEF FState
    <2> QED BY <2>1, <2>9, FReturn, Zenon
<1>8. CASE BackingUp
    <2>1. Return /\ UNCHANGED <<wl, mongo>> /\ obj.st.up = "BackingUp"
        BY <1>1, <1>8 DEF BackingUp, UpgradeAt, View
    <2>2. Calmed
        BY <1>2, <2>1, StillIsCalm DEF Moving
    <2>3. CASE UNCHANGED obj
        BY <1>4, <2>1, <2>3
    <2>4. CASE obj' = backupDone(Base) \/ obj' = clearUpgrade(Base)
        <3>1. Rest(obj', obj) /\ obj'.st.up \in {"", "Upgrading"} /\ obj'.st.upGen = obj.st.upGen
            BY <1>1, <2>4, PhaseClosures, RestBase, ZenonT(30) DEF View
        <3>2. FState'
            BY <1>1, <1>2, <2>1, <2>2, <3>1, PhaseWrite, Zenon
        <3> QED BY <2>1, <3>2, FReturn
    <2> QED BY <1>8, <2>3, <2>4, Zenon DEF BackingUp
<1>9. CASE KeepValidating
    BY <1>4, <1>9, Zenon DEF KeepValidating, env
<1>10. CASE ValidationTimedOut
    <2>1. /\ obj' = initiateRollback(Base) \/ obj' = giveUp(Base)
          /\ Return /\ UNCHANGED <<wl, mongo>> /\ obj.st.up = "Validating"
        BY <1>1, <1>10 DEF ValidationTimedOut, UpgradeAt, WriteAndReturn, env, View
    <2>2. obj.st.ready # TRUE
        BY <1>1, <1>10, Zenon DEF ValidationTimedOut, allReady, View
    <2>3. Initiated(Cfg) /\ Calmed
        BY <1>1, <1>2, <2>2, Zenon DEF Footing, Body, Calmed
    <2>4. Rest(obj', obj) /\ obj'.st.up \in {"", "RollingBack"}
        BY <1>1, <2>1, PhaseClosures, RestBase, Zenon
    <2>5. FState'
        BY <1>1, <1>2, <2>1, <2>3, <2>4, PhaseWrite, Zenon
    <2> QED BY <2>1, <2>5, FReturn, Zenon
<1>11. CASE RollBack
    <2>1. Return /\ UNCHANGED <<wl, mongo>> /\ obj.st.up = "RollingBack" /\ mdbsh.st.prev = obj.st.prev
        BY <1>1, <1>11, SMTT(30) DEF RollBack, UpgradeAt, WriteAndReturn, env, View
    <2>2. Initiated(Cfg) /\ Calmed
        BY <1>1, <1>2, <2>1, StillIsCalm, ZenonT(30) DEF Footing, Moving
    <2>3. Is(obj.st.prev, From)
        BY <1>2, <2>1, Zenon DEF Body
    <2>4. obj' = giveUp(Base) \/ obj' = rollback(Base)
        BY <1>11, <2>1, <2>3 DEF RollBack, WriteAndReturn, Is
    <2>5. CASE obj' = giveUp(Base)
        <3>1. Rest(obj', obj) /\ obj'.st.up = ""
            BY <1>1, <2>5, PhaseClosures, RestBase, Zenon
        <3>2. FState'
            BY <1>1, <1>2, <2>1, <2>2, <3>1, PhaseWrite, Zenon
        <3> QED BY <2>1, <3>2, FReturn
    <2>6. CASE obj' = rollback(Base)
        <3>1. /\ obj'.spec = obj.spec /\ obj'.st.version = obj.st.version /\ obj'.st.eff = obj.st.prev
              /\ obj'.st.prev = obj.st.prev /\ obj'.st.up = "" /\ obj'.st.fcv = obj.st.fcv
            BY <1>1, <2>1, <2>6, RollbackFields, Zenon DEF View
        <3>2. /\ To' = To /\ From' = From /\ (Raised' <=> Raised) /\ Members' = Members
              /\ Initiated(Cfg)'
            BY <2>1, <2>2, <3>1, Zenon DEF To, From, Raised, Initiated, Members
        <3>3. Footing' /\ Body'
            BY <1>1, <1>2, <2>1, <2>2, <2>3, <3>1, <3>2, Zenon DEF Footing, Body, Calmed
        <3>4. FState'
            BY <1>2, <3>1, <3>3, Zenon DEF FState
        <3> QED BY <2>1, <3>4, FReturn
    <2> QED BY <2>4, <2>5, <2>6
<1> QED BY <1>5, <1>6, <1>7, <1>8, <1>9, <1>10, <1>11

\* Every spec passes the version check of the validating webhook.
Whitelisted == \A s \in Specs : IsSupportedMongoDBVersion(s.version)

\* setFeatureCompatibilityVersion runs only when every template carries the
\* version being validated.
LEMMA CommitStep ==
    ASSUME TInv, FOK, Whitelisted, CommitFCV
    PROVE  FOK'
<1>0. pc = "Upgrade" /\ pc' = "Complete" /\ UNCHANGED <<obj, mdbsh, wl, desired>>
    BY DEF CommitFCV, UpgradeAt, RunningAt, Goto
<1>1. FState /\ FPass /\ View(mdbsh, obj) /\ Footing
    BY <1>0, PassFacts
<1>2. obj.st.version # NoVersion /\ Body /\ (Is(desired, To) \/ (Is(desired, From) /\ Low))
    BY <1>0, SeededFacts, SMTT(30)
<1>3. /\ mongo \in ClusterType /\ wl \in [Workloads -> WorkloadType] /\ mdbsh.st \in StatusType
      /\ Cfg \in Workloads /\ ShardIds \subseteq Workloads
    BY ResourceParts, SMTT(30) DEF TInv, EnvOK, PassOK, Workloads
<1>4. obj.st.up = "Validating" /\ obj.st.ready = TRUE /\ mdbsh.st.fcv = obj.st.fcv
    <2>1. mdbsh.st.ready \in BOOLEAN
        BY <1>3, Zenon DEF StatusType
    <2> QED BY <1>1, <2>1 DEF CommitFCV, UpgradeAt, Validated, allReady, View
<1> DEFINE f == MajorMinor(desired)
<1>5. f # 0 /\ f \in Nat
    <2>1. desired \in Versions
        BY <1>2 DEF Is, TInv, PassOK
    <2>2. desired \in Nat /\ IsSupportedMongoDBVersion(desired)
        BY <2>1, SpecFacts DEF Whitelisted, Versions
    <2> QED BY <2>1, <2>2, SupportedMinor, MinorIsNat
<1>6. commitShardedFCV(f)
    BY DEF CommitFCV, fcvMajorMinor
<1> HIDE DEF f
<1>7. Is(desired, To) => f = To
    BY DEF Is, f
<1>8. Is(desired, From) => f = From
    BY DEF Is, f
<1>9. UNCHANGED mongo \/ (FCVAccepted(f) /\ mongo' = [mongo EXCEPT !.fcv = f])
    BY <1>6 DEF commitShardedFCV
<1>10. Initiated(Cfg) /\ Initiated(Cfg)' /\ mongo'.fcv = f /\ Members' = Members
    <2>1. CASE mdbsh.st.fcv = f /\ UNCHANGED mongo
        <3>1. f = From /\ Initiated(Cfg)
            BY <1>1, <1>2, <1>4, <1>5, <2>1, Zenon DEF Body, Footing
        <3>2. mongo.fcv = f
            BY <1>2, <1>7, <3>1, Zenon DEF Body, Low
        <3> QED BY <2>1, <3>1, <3>2, SMTT(30) DEF Initiated, Members
    <2>2. CASE FCVAccepted(f) /\ mongo' = [mongo EXCEPT !.fcv = f]
        <3>1. mongo'.fcv = f /\ mongo'.store = mongo.store /\ mongo'.shard = mongo.shard
            BY <1>3, <2>2 DEF ClusterType
        <3> QED BY <2>2, <3>1 DEF FCVAccepted, Initiated, Members
    <2> QED BY <1>6, <2>1, <2>2 DEF commitShardedFCV
<1>11. To' = To /\ From' = From /\ (Moving' <=> Moving)
    BY <1>0 DEF To, From, Moving
<1>12. f \in {From, To}
    BY <1>2, <1>7, <1>8, Zenon
<1>13. Low /\ f = From => Low'
    BY <1>0, <1>10, <1>11, Zenon DEF Low
<1>14. ASSUME f = To, To # From
       PROVE  /\ Is(obj.st.eff, To) /\ Is(wl[Cfg].t, To) /\ Is(wl[Cfg].v, To)
              /\ \A i \in Members : Is(wl[i].t, To)
    <2>1. CASE mongo.fcv = To
        BY <1>2, <1>10, <1>14, <2>1, ZenonT(30) DEF Body, Raised
    <2>2. CASE mongo.fcv # To
        <3>1. FCVAccepted(f)
            BY <1>9, <1>10, <1>14, <2>2, SMTT(30)
        <3>2. wl[Cfg].ready /\ MajorMinor(wl[Cfg].v) = To
            BY <1>14, <2>2, <3>1, Zenon DEF FCVAccepted
        <3>3. wl[Cfg].ready \in BOOLEAN
            BY <1>3, Zenon DEF WorkloadType
        <3>4. Is(wl[Cfg].v, To)
            BY <1>1, <3>2, <3>3, SMTT(30) DEF Footing, Is
        <3>5. Is(obj.st.eff, To)
            BY <1>2, <1>4, <1>14, <3>4, ZenonT(30) DEF Body, Low, Is
        <3> QED BY <1>2, <1>4, <3>4, <3>5, Zenon DEF Body
    <2> QED BY <2>1, <2>2
<1>15. Footing'
    BY <1>0, <1>1, <1>10, Zenon DEF Footing
<1>16. To # From /\ Is(obj.st.eff, From) => Low'
    <2>1. To # From /\ Is(obj.st.eff, From) => Low
        BY <1>2, <1>4, Zenon DEF Body
    <2>2. To # From /\ Is(obj.st.eff, From) => f = From
        BY <1>12, <1>14, SMTT(30) DEF Is
    <2> QED BY <1>13, <2>1, <2>2, SMTT(30)
<1>17. Raised' => /\ Moving /\ obj.st.ready = TRUE /\ Is(obj.st.eff, To) /\ Is(wl[Cfg].t, To)
                  /\ Is(wl[Cfg].v, To) /\ \A i \in Members : Is(wl[i].t, To)
    BY <1>4, <1>10, <1>11, <1>14 DEF Raised, Moving
<1>18. Body'
    BY <1>0, <1>2, <1>10, <1>11, <1>12, <1>16, <1>17, ZenonT(30) DEF Body
<1>19. FState'
    BY <1>0, <1>2, <1>15, <1>18 DEF FState
<1>20. FPass'
    <2>1. Wanted' = desired
        BY <1>0 DEF Wanted
    <2>2. Is(desired, To) \/ (Is(desired, From) /\ Low')
        BY <1>2, <1>8, <1>13
    <2> QED BY <1>0, <1>1, <1>2, <1>4, <1>10, <1>11, <2>1, <2>2, Zenon DEF FPass, Deciding, Late, Last, View, f
<1> QED BY <1>19, <1>20 DEF FOK

\* Completing the upgrade moves the old minor release up to the new one.
LEMMA CompleteStep ==
    ASSUME TInv, FOK, CompleteUpgrade
    PROVE  FOK'
<1>0. pc = "Complete" /\ obj' = completeUpgrade(Base) /\ Return /\ UNCHANGED <<wl, mongo>>
    BY DEF CompleteUpgrade, RunningAt, WriteAndReturn, env
<1>1. FState /\ FPass /\ View(mdbsh, obj) /\ Footing /\ Base \in Resource /\ Base.spec = obj.spec
    BY <1>0, PassFacts
<1>2. Body /\ (Is(desired, To) \/ (Is(desired, From) /\ Low))
    BY <1>0, SeededFacts
<1>3. Initiated(Cfg) /\ mongo.fcv = MajorMinor(desired) /\ wl[Cfg].t # NoVersion
    BY <1>0, <1>1, Zenon DEF FPass, Footing
<1>4. /\ obj'.spec = obj.spec /\ obj'.st.version = desired /\ obj'.st.eff = desired
      /\ obj'.st.up = "" /\ obj'.st.fcv = MajorMinor(desired)
    BY <1>0, <1>1, CompleteFields, Zenon DEF fcvMajorMinor
<1>5. To' = To /\ From' = MajorMinor(desired) /\ Initiated(Cfg)' /\ Members' = Members
    BY <1>0, <1>3, <1>4, ZenonT(30) DEF To, From, Initiated, Members
<1>6. Footing'
    BY <1>0, <1>1, <1>3, <1>5 DEF Footing
<1>7. desired # NoVersion
    BY <1>2 DEF Is
<1>8. CASE Is(desired, To)
    <2>1. From' = To /\ mongo.fcv = To
        BY <1>3, <1>5, <1>8 DEF Is
    <2>2. /\ Is(wl[Cfg].t, To) /\ (wl[Cfg].v # NoVersion => Is(wl[Cfg].v, To))
          /\ \A i \in Members : Is(wl[i].t, To)
        BY <1>2, <1>3, <2>1, Zenon DEF Body, Raised
    <2>3. Body'
        BY <1>0, <1>4, <1>5, <1>8, <2>1, <2>2, Zenon DEF Body, Raised
    <2>4. FState'
        BY <1>4, <1>6, <1>7, <2>3, Zenon DEF FState
    <2> QED BY <1>0, <2>4, FReturn
<1>9. CASE Is(desired, From) /\ Low
    <2>1. From' = From /\ mongo.fcv = From
        BY <1>3, <1>5, <1>9 DEF Is
    <2>2. Body'
        BY <1>0, <1>2, <1>4, <1>5, <1>9, <2>1, Zenon DEF Body, Raised, Low
    <2>3. FState'
        BY <1>4, <1>6, <1>7, <2>2, Zenon DEF FState
    <2> QED BY <1>0, <2>3, FReturn
<1> QED BY <1>2, <1>8, <1>9

\* What the stages that apply workloads know.
LEMMA ApplyFacts ==
    ASSUME TInv, NEW W, Apply(W), View(mdbsh, obj)
    PROVE  \A w \in Workloads :
              /\ wl'[w].t = (IF w \in W THEN obj.st.eff ELSE wl[w].t)
              /\ wl'[w].v = wl[w].v /\ wl'[w].ready = wl[w].ready
              /\ w \notin W => wl'[w] = wl[w]
<1>1. wl \in [Workloads -> WorkloadType] /\ mdbsh.st.eff = obj.st.eff
    BY DEF TInv, EnvOK, View
<1> QED BY <1>1 DEF Apply, WorkloadType

\* The steps that apply the config server, the shards and the routers.
LEMMA WorkloadSteps ==
    ASSUME TInv, SameCount, FOK, reconcileConfigServer \/ reconcileShard \/ reconcileMongos \/ SetValidating
    PROVE  FOK'
<1>0. pc \in {"Cfg", "Shards", "Mongos", "Validating"} /\ pc \in Late /\ pc # "Idle" /\ UNCHANGED mongo
    BY DEF reconcileConfigServer, reconcileShard, reconcileMongos, SetValidating, RunningAt, Late, env
<1>1. /\ FState /\ FPass /\ View(mdbsh, obj) /\ Footing /\ Base \in Resource /\ View(Base, obj)
      /\ mdbsh \in Resource
    BY <1>0, PassFacts
<1>2. obj.st.version # NoVersion /\ Body /\ (Is(desired, To) \/ (Is(desired, From) /\ Low))
      /\ Wanted = desired
    BY <1>0, SeededFacts
<1>3. /\ wl \in [Workloads -> WorkloadType] /\ Cfg \in Workloads /\ ShardIds \subseteq Workloads
      /\ Cfg \notin ShardIds /\ Mongos \notin ShardIds /\ Cfg # Mongos
    BY CfgIsNoShard DEF TInv, EnvOK, Workloads
<1>4. obj.st.up \in {"", "Upgrading"} /\ (obj.st.up = "" => ~ Raised /\ ~ Ahead)
    BY <1>0, <1>1, Zenon DEF FPass
<1>5. ASSUME Return, UNCHANGED <<obj, wl>> PROVE FOK'
    BY <1>0, <1>1, <1>5, SameEnv, ViewRefl, FrameReturn, SMTT(30) DEF Frame
<1>6. ASSUME UNCHANGED <<obj, mdbsh, desired>>,
             \A w \in Workloads : wl'[w].v = wl[w].v /\ wl'[w].ready = wl[w].ready
                                  /\ wl'[w].t \in {wl[w].t, obj.st.eff}
      PROVE  FState' /\ To' = To /\ From' = From /\ (Low => Low') /\ (Raised' <=> Raised)
             /\ (Ahead' <=> Ahead) /\ Members' = Members
    <2>1. /\ To' = To /\ From' = From /\ (Raised' <=> Raised) /\ (Ahead' <=> Ahead)
          /\ (Moving' <=> Moving) /\ Members' = Members /\ (Initiated(Cfg)' <=> Initiated(Cfg))
        BY <1>0, <1>6, ZenonT(30) DEF To, From, Raised, Ahead, Moving, Members, Initiated
    <2>2. /\ wl'[Cfg].v = wl[Cfg].v /\ wl'[Cfg].ready = wl[Cfg].ready
          /\ wl'[Cfg].t \in {wl[Cfg].t, obj.st.eff}
          /\ \A i \in Members : wl'[i].t \in {wl[i].t, obj.st.eff}
        BY <1>3, <1>6, Zenon DEF Members
    <2>3. obj.st.eff # NoVersion
        BY <1>2, ZenonT(30) DEF Body, Is
    <2>4. Footing'
        BY <1>0, <1>1, <1>6, <2>1, <2>2, <2>3, ZenonT(30) DEF Footing
    <2>5. Low => Low'
        BY <1>0, <1>6, <2>1, <2>2, Zenon DEF Low
    <2>6. /\ wl'[Cfg].t # NoVersion => Is(wl'[Cfg].t, From) \/ Is(wl'[Cfg].t, To)
          /\ \A i \in Members : Is(wl'[i].t, From) \/ Is(wl'[i].t, To)
        BY <1>2, <2>2, Zenon DEF Body
    <2>7. Raised => /\ Moving /\ obj.st.ready = TRUE
                    /\ Is(obj.st.eff, To) /\ Is(wl'[Cfg].t, To) /\ Is(wl[Cfg].v, To)
                    /\ \A i \in Members : Is(wl'[i].t, To)
        BY <1>2, <2>2, ZenonT(30) DEF Body
    <2>8. To # From /\ ~ Initiated(Cfg) /\ (Is(wl'[Cfg].t, To) \/ Is(wl[Cfg].v, To)) => Ahead /\ Moving
        <3>1. CASE wl'[Cfg].t = wl[Cfg].t
            BY <1>2, <3>1, Zenon DEF Body
        <3>2. CASE wl'[Cfg].t = obj.st.eff
            <4>1. To # From /\ ~ Initiated(Cfg) /\ Is(wl'[Cfg].t, To) => Ahead /\ Moving
                BY <1>4, <3>2, Zenon DEF Ahead, Moving
            <4> QED BY <1>2, <4>1, Zenon DEF Body
        <3> QED BY <2>2, <3>1, <3>2, Zenon
    <2>9. obj.st.up # "Validating"
        BY <1>4, Zenon
    <2>10. Body'
        BY <1>0, <1>2, <1>6, <2>1, <2>2, <2>5, <2>6, <2>7, <2>8, <2>9, Zenon DEF Body
    <2> QED BY <1>2, <1>6, <2>1, <2>4, <2>5, <2>10, SMTT(30) DEF FState
<1>7. CASE reconcileConfigServer
    <2>1. pc = "Cfg" /\ pc' = "Shards" /\ UNCHANGED <<obj, mdbsh, desired>> /\ Apply({Cfg})
        BY <1>7, SMTT(30) DEF reconcileConfigServer, RunningAt, Goto
    <2>2. wl'[Cfg].t = obj.st.eff
        BY <1>1, <1>3, <2>1, ApplyFacts, Zenon
    <2>3. FState' /\ To' = To /\ From' = From /\ (Low => Low') /\ (Raised' <=> Raised) /\ (Ahead' <=> Ahead)
        BY <1>1, <1>6, <2>1, ApplyFacts
    <2>4. Wanted' = desired
        BY <2>1 DEF Wanted
    <2>5. FPass'
        BY <1>1, <1>2, <1>4, <2>1, <2>2, <2>3, <2>4, Zenon DEF FPass, Deciding, Late, Last, View
    <2> QED BY <2>3, <2>5 DEF FOK
<1>8. CASE reconcileShard
    <2>1. CASE isConfigServerReady
        <3>1. pc = "Shards" /\ pc' = "Mongos" /\ UNCHANGED <<obj, mdbsh, desired>> /\ Apply(Declared(mdbsh))
            BY <1>8, <2>1 DEF reconcileShard, RunningAt, Goto
        <3>2. Declared(mdbsh) = InitIds /\ InitIds \subseteq ShardIds
            BY <1>1, ResourceParts, DeclaredIds, Zenon DEF InitIds
        <3>3. wl'[Cfg] = wl[Cfg] /\ \A i \in InitIds : wl'[i].t = obj.st.eff
            BY <1>1, <1>3, <3>1, <3>2, ApplyFacts, Zenon
        <3>4. FState' /\ To' = To /\ From' = From /\ (Low => Low') /\ (Raised' <=> Raised) /\ (Ahead' <=> Ahead)
            BY <1>1, <1>6, <3>1, ApplyFacts, Zenon
        <3>5. Wanted' = desired
            BY <3>1 DEF Wanted
        <3>6. wl[Cfg].t = obj.st.eff
            BY <1>1, <3>1, ZenonT(30) DEF FPass, Late
        <3>7. wl[Cfg].v # NoVersion
            <4>1. wl[Cfg].ready \in BOOLEAN
                BY <1>3 DEF WorkloadType
            <4> QED BY <1>1, <2>1, <4>1 DEF isConfigServerReady, Footing
        <3>8. FPass'
            BY <1>1, <1>2, <1>4, <3>1, <3>3, <3>4, <3>5, <3>6, <3>7, Zenon DEF FPass, Deciding, Late, Last, View
        <3> QED BY <3>4, <3>8 DEF FOK
    <2>2. CASE ~ isConfigServerReady
        BY <1>5, <1>8, <2>2 DEF reconcileShard
    <2> QED BY <2>1, <2>2
<1>9. CASE reconcileMongos
    <2>1. CASE areShardsReady
        <3>1. /\ pc = "Mongos" /\ pc' = (IF obj.st.up = "Upgrading" THEN "Validating" ELSE "CfgInit")
              /\ UNCHANGED <<obj, mdbsh, desired>> /\ Apply({Mongos})
            BY <1>1, <1>9, <2>1, Zenon DEF reconcileMongos, RunningAt, Goto, View
        <3>2. wl'[Cfg] = wl[Cfg] /\ \A i \in InitIds : wl'[i].t = wl[i].t
            <4>1. \A w \in Workloads : w # Mongos => wl'[w] = wl[w]
                BY <1>1, <3>1, ApplyFacts, Zenon
            <4>2. \A i \in InitIds : i \in Workloads /\ i # Mongos
                BY <1>3 DEF InitIds
            <4> QED BY <1>3, <4>1, <4>2, SMTT(30)
        <3>3. FState' /\ To' = To /\ From' = From /\ (Low => Low') /\ (Raised' <=> Raised) /\ (Ahead' <=> Ahead)
            BY <1>1, <1>6, <3>1, ApplyFacts, ZenonT(30)
        <3>4. Wanted' = desired
            BY <3>1 DEF Wanted
        <3>5. wl[Cfg].t = obj.st.eff /\ wl[Cfg].v # NoVersion /\ \A i \in InitIds : wl[i].t = obj.st.eff
            BY <1>1, <3>1, Zenon DEF FPass, Late
        <3>6. FPass'
            BY <1>1, <1>2, <1>4, <3>1, <3>2, <3>3, <3>4, <3>5, ZenonT(30) DEF FPass, Deciding, Late, Last, View
        <3> QED BY <3>3, <3>6 DEF FOK
    <2>2. CASE ~ areShardsReady
        BY <1>5, <1>9, <2>2, Zenon DEF reconcileMongos
    <2> QED BY <2>1, <2>2, Zenon
<1>10. CASE SetValidating
    <2>1. pc = "Validating" /\ obj' = setValidating(Base) /\ Return /\ UNCHANGED wl
        BY <1>10 DEF SetValidating, RunningAt, WriteAndReturn, env
    <2>2. Rest(obj', obj) /\ obj'.st.up = "Validating" /\ obj'.st.upGen = obj.st.upGen
        BY <1>1, <2>1, PhaseClosures, RestBase, Zenon DEF View
    <2>3. obj.st.up = "Upgrading" /\ wl[Cfg].t = obj.st.eff /\ \A i \in InitIds : wl[i].t = obj.st.eff
        BY <1>1, <2>1, Zenon DEF FPass, Late
    <2>4. \A i \in Members : wl[i].t = obj.st.eff
        BY <1>1, <2>3 DEF Footing
    <2>5. Moving'
        BY <2>2, SMTT(30) DEF Moving
    <2>6. FState'
        BY <1>0, <1>1, <1>2, <2>1, <2>2, <2>3, <2>4, <2>5, PhaseWrite, Zenon
    <2> QED BY <2>1, <2>6, FReturn
<1> QED BY <1>7, <1>8, <1>9, <1>10, Zenon

\* Initiating the config server gives the cluster its first FCV.
LEMMA CfgInitStep ==
    ASSUME TInv, FOK, reconcileConfigServerInit
    PROVE  FOK'
<1>0. pc = "CfgInit" /\ pc # "Idle" /\ pc \in Late /\ UNCHANGED wl
    BY DEF reconcileConfigServerInit, RunningAt, Late
<1>1. /\ FState /\ FPass /\ View(mdbsh, obj) /\ Footing /\ Base \in Resource /\ View(Base, obj)
      /\ Base.spec = obj.spec
    BY <1>0, PassFacts
<1>2. obj.st.version # NoVersion /\ Body /\ (Is(desired, To) \/ (Is(desired, From) /\ Low))
    BY <1>0, SeededFacts
<1>3. /\ obj.st.up = "" /\ ~ Raised /\ ~ Ahead /\ wl[Cfg].t = obj.st.eff /\ wl[Cfg].v # NoVersion
      /\ \A i \in InitIds : wl[i].t = obj.st.eff
    BY <1>0, <1>1, Zenon DEF FPass, Late
<1>4. mongo \in ClusterType
    BY DEF TInv, EnvOK
<1>5. ASSUME FState', To' = To, From' = From, Low => Low', ~ Raised', ~ Ahead', Initiated(Cfg)',
             pc' = "ShardsInit", desired' = desired, View(mdbsh', obj'),
             obj'.st.version = obj.st.version, obj'.st.up = obj.st.up, obj'.st.eff = obj.st.eff
      PROVE  FOK'
    <2>1. Wanted' = desired
        BY <1>5 DEF Wanted
    <2>2. FPass'
        BY <1>0, <1>2, <1>3, <1>5, <2>1, Zenon DEF FPass, Deciding, Late, Last
    <2> QED BY <1>5, <2>2 DEF FOK
<1>6. CASE mdbsh.st.cfgInit
    <2>1. UNCHANGED <<obj, mdbsh, mongo, desired>> /\ pc' = "ShardsInit"
        BY <1>6, Zenon DEF reconcileConfigServerInit, Goto
    <2>2. Initiated(Cfg)
        BY <1>1, <1>6 DEF View, Footing
    <2>3. Frame
        BY <1>0, <2>1, SameEnv, ViewRefl, Zenon DEF Frame
    <2>4. FState' /\ Initiated(Cfg)'
        BY <1>1, <2>1, <2>2, <2>3, StateFrame DEF Frame, Initiated
    <2> QED BY <1>1, <1>3, <1>5, <2>1, <2>3, <2>4, FrameFacts, Zenon
<1>7. CASE ~ mdbsh.st.cfgInit
    <2> DEFINE new == {w \in {Cfg} : AnonymousAdmin /\ ~ Initiated(w)}
               x == [w \in DOMAIN mongo.store |-> IF w \in new THEN "rs" ELSE mongo.store[w]]
               c == [mongo EXCEPT !.store = x]
               f == IF Cfg \in new THEN MajorMinor(wl[Cfg].v) ELSE c.fcv
    <2>1. mongo' = [c EXCEPT !.fcv = f]
        BY <1>7, Zenon DEF reconcileConfigServerInit, Initiate
    <2>2. c.fcv = mongo.fcv /\ c.shard = mongo.shard /\ c.store = x /\ c \in [DOMAIN mongo -> {c[k] : k \in DOMAIN c}]
        <3> HIDE DEF x
        <3> QED BY <1>4 DEF ClusterType
    <2>3. mongo'.fcv = f /\ mongo'.shard = mongo.shard /\ mongo'.store = x
        <3> HIDE DEF c, x, f
        <3> QED BY <1>4, <2>1, <2>2, SMTT(30) DEF ClusterType
    <2>4. x[Cfg] = IF Cfg \in new THEN "rs" ELSE mongo.store[Cfg]
        BY <1>4, ClusterParts
    <2>5. Members' = Members
        BY <2>3 DEF Members
    <2>6. Cfg \in new <=> AnonymousAdmin /\ ~ Initiated(Cfg)
        OBVIOUS
    <2> HIDE DEF x, c, new
    <2>7. CASE ~ Initiated(Cfg) /\ ~ AnonymousAdmin
        <3>1. updateStatusError
            BY <1>7, <2>7 DEF reconcileConfigServerInit
        <3>2. Templates /\ Servers
            BY <1>0, <2>2, <2>3, <2>4, <2>5, <2>6, <2>7 DEF Templates, Servers
        <3> QED BY <1>1, <3>1, <3>2, FrameFailure, Zenon
    <2>8. CASE Initiated(Cfg) \/ AnonymousAdmin
        <3>1. obj' = setConfigServerInitialized(Base) /\ mdbsh' = obj' /\ pc' = "ShardsInit" /\ desired' = desired
            BY <1>7, <2>8, SMTT(30) DEF reconcileConfigServerInit, Write, Goto
        <3>2. /\ obj'.spec = obj.spec /\ obj'.st.version = obj.st.version /\ obj'.st.eff = obj.st.eff
              /\ obj'.st.prev = obj.st.prev /\ obj'.st.up = obj.st.up /\ obj'.st.fcv = obj.st.fcv
              /\ obj'.st.ready = obj.st.ready
            BY <1>1, <3>1, CfgInitFields, ZenonT(30) DEF View
        <3>3. To' = To /\ From' = From /\ View(mdbsh', obj')
            BY <3>1, <3>2, ViewRefl, Zenon DEF To, From
        <3>4. CASE Initiated(Cfg)
            <4>1. mongo'.fcv = mongo.fcv /\ Initiated(Cfg)'
                BY <2>2, <2>3, <2>4, <2>6, <3>4, Zenon DEF Initiated
            <4>2. (Raised' <=> Raised) /\ ~ Ahead' /\ (Moving' <=> Moving)
                BY <3>2, <3>3, <3>4, <4>1, Zenon DEF Raised, Ahead, Moving
            <4>3. Footing'
                BY <1>0, <1>1, <2>5, <3>4, <4>1, Zenon DEF Footing
            <4>4. Low => Low'
                BY <1>0, <2>5, <3>2, <3>3, <3>4, <4>1, Zenon DEF Low
            <4>5. Body'
                BY <1>0, <1>2, <2>5, <3>2, <3>3, <3>4, <4>1, <4>2, <4>4, ZenonT(30) DEF Body
            <4>6. FState'
                BY <1>2, <3>2, <4>3, <4>5, ZenonT(30) DEF FState
            <4> QED BY <1>3, <1>5, <3>1, <3>2, <3>3, <4>1, <4>2, <4>4, <4>6, Zenon
        <3>5. CASE ~ Initiated(Cfg)
            <4>1. mongo'.fcv = MajorMinor(wl[Cfg].v) /\ Initiated(Cfg)'
                BY <2>3, <2>4, <2>6, <2>8, <3>5 DEF Initiated
            <4>2. FState' /\ (Low => Low') /\ ~ Raised' /\ ~ Ahead'
                BY <1>0, <1>1, <1>2, <1>3, <2>3, <3>2, <3>5, <4>1, Initiation, Zenon
            <4> QED BY <1>5, <3>1, <3>2, <3>3, <4>1, <4>2, Zenon
        <3> QED BY <3>4, <3>5
    <2> QED BY <2>7, <2>8
<1> QED BY <1>6, <1>7

\* An edit that is not hasty meets a cluster that completed its upgrade.
LEMMA EditStep ==
    ASSUME TInv, FOK, NEW s \in Specs, EditSpec(s), ~ Hasty(s)
    PROVE  FOK'
<1>0. obj \in Resource /\ obj.spec.version \in Nat \ {0} /\ s.version \in Nat \ {0}
    BY ResourceParts, SpecFacts, Zenon DEF TInv, PassOK
<1>1. UNCHANGED <<mdbsh, pc, idx, desired, wl, mongo>>
    BY DEF EditSpec, env
<1>2. obj'.st = obj.st /\ obj'.spec = s
    <2> DEFINE g == obj.gen + 1
    <2>1. obj' = [obj EXCEPT !.spec = s, !.gen = g]
        BY <1>0 DEF EditSpec, Resource
    <2> HIDE DEF g
    <2> QED BY <1>0, <2>1 DEF Resource
<1>3. View(obj', obj)
    BY <1>2 DEF View
<1>4. CASE MajorMinor(s.version) = MajorMinor(obj.spec.version)
    <2>1. Frame
        BY <1>1, <1>2, <1>3, <1>4, SameEnv, Zenon DEF Frame
    <2> QED BY <1>1, <2>1, FrameEnv, SMTT(30)
<1>5. CASE MajorMinor(s.version) # MajorMinor(obj.spec.version)
    <2>1. obj.st.version = obj.spec.version
        BY <1>5, SMTT(30) DEF Hasty
    <2>2. From = To /\ From' = From /\ To' # From /\ obj.st.version # NoVersion
        BY <1>0, <1>2, <1>5, <2>1 DEF From, To, NoVersion
    <2>3. Precedes(From, To')
        BY <1>0, <1>2, <1>5, <2>1, PathStep, Zenon DEF EditSpec, From, To
    <2>4. FState /\ Footing /\ Body
        BY <2>2, SMTT(30) DEF FOK, FState
    <2>5. Members' = Members /\ (Initiated(Cfg)' <=> Initiated(Cfg)) /\ (Moving' <=> Moving)
        BY <1>1, <1>2 DEF Members, Initiated, Moving
    <2>6. Low
        BY <2>2, <2>4, ZenonT(30) DEF Body, Low
    <2>7. Low'
        BY <1>1, <1>2, <2>2, <2>5, <2>6, ZenonT(30) DEF Low
    <2>8. ~ Raised' /\ ~ Ahead'
        BY <1>1, <1>2, <2>2, <2>5, <2>6, ZenonT(30) DEF Low, Raised, Ahead, Is
    <2>9. Footing'
        BY <1>1, <1>2, <2>4, <2>5, ZenonT(30) DEF Footing
    <2>10. ~ Is(wl[Cfg].t, To') /\ ~ Is(wl[Cfg].v, To')
        BY <2>2, <2>6, Zenon DEF Low, Is
    <2>11. Body'
        BY <1>1, <1>2, <2>2, <2>3, <2>4, <2>5, <2>6, <2>7, <2>8, <2>10, Zenon DEF Body, Low
    <2>12. FState'
        BY <1>2, <2>2, <2>9, <2>11, Zenon DEF FState
    <2>13. FPass => FPass'
        <3> SUFFICES ASSUME FPass PROVE FPass'
            OBVIOUS
        <3>1. Wanted' = Wanted
            BY <1>1 DEF Wanted
        <3>2. Is(Wanted, From)
            BY <2>2, Zenon DEF FPass
        <3>3. View(mdbsh', obj')
            BY <1>1, <1>2, Zenon DEF FPass, View
        <3> QED BY <1>1, <1>2, <2>2, <2>5, <2>7, <2>8, <3>1, <3>2, <3>3, Zenon DEF FPass
    <2> QED BY <1>1, <2>12, <2>13 DEF FOK
<1> QED BY <1>4, <1>5

\* The steps of kubelets, of the backup controller, of other writers and of
\* faults.
LEMMA BackgroundSteps ==
    ASSUME TInv, FOK,
           \/ CallFails \/ Crash \/ Balancer \/ BackupController \/ Tick \/ AppCreatesCollection
           \/ Touch \/ (\E i \in ShardIds : AppWrites(i)) \/ UNCHANGED vars
    PROVE  FOK'
<1>0. mongo \in ClusterType /\ obj \in Resource /\ obj.st \in StatusType
    BY ResourceParts DEF TInv, EnvOK, PassOK
<1>1. FState
    BY SMTT(30) DEF FOK
<1>2. CASE UNCHANGED <<obj, mdbsh, pc, idx, desired, wl>> /\ mongo'.fcv = mongo.fcv
           /\ mongo'.store = mongo.store /\ mongo'.shard = mongo.shard
    <2>1. Frame
        BY <1>2, ViewRefl, Zenon DEF Frame, Templates, Servers, Members
    <2> QED BY <1>2, <2>1, FrameEnv, SMTT(30)
<1>3. CASE CallFails
    <2>1. View(mdbsh, obj) /\ updateStatusError /\ wl' = wl /\ mongo' = mongo
        BY <1>3, PassFacts DEF CallFails, RunningAt, env
    <2> QED BY <1>1, <2>1, SameEnv, FrameFailure
<1>4. CASE Crash
    <2>1. Return /\ UNCHANGED <<obj, wl, mongo>>
        BY <1>4 DEF Crash, env
    <2>2. Frame
        BY <2>1, SameEnv, ViewRefl, Zenon DEF Frame
    <2> QED BY <1>1, <2>1, <2>2, FrameReturn
<1>5. CASE Balancer \/ AppCreatesCollection \/ (\E i \in ShardIds : AppWrites(i))
    <2>1. UNCHANGED <<obj, mdbsh, pc, idx, desired, wl>>
        BY <1>5 DEF Balancer, Balance, AppCreatesCollection, AppWrites
    <2>2. (\E x : mongo' = [mongo EXCEPT !.data = x]) \/ (\E x : mongo' = [mongo EXCEPT !.coll = x])
        BY <1>5, Zenon DEF Balancer, Balance, AppCreatesCollection, AppWrites
    <2>3. mongo'.fcv = mongo.fcv /\ mongo'.store = mongo.store /\ mongo'.shard = mongo.shard
        BY <1>0, <2>2 DEF ClusterType
    <2> QED BY <1>2, <2>1, <2>3
<1>6. CASE BackupController \/ Touch \/ UNCHANGED vars
    <2>1. UNCHANGED <<obj, mdbsh, pc, idx, desired, wl, mongo>>
        BY <1>6 DEF BackupController, BackupEnds, Touch, env, vars
    <2> QED BY <1>2, <2>1
<1>7. CASE Tick
    <2> DEFINE t == obj.st.start + 1
               u == [obj.st EXCEPT !.start = t]
    <2>1. obj' = [obj EXCEPT !.st = u] /\ UNCHANGED <<mdbsh, pc, idx, desired, wl, mongo>>
        BY <1>7 DEF Tick, env
    <2>2. /\ u.version = obj.st.version /\ u.eff = obj.st.eff /\ u.prev = obj.st.prev
          /\ u.up = obj.st.up /\ u.upGen = obj.st.upGen /\ u.fcv = obj.st.fcv
          /\ u.ready = obj.st.ready /\ u.cfgInit = obj.st.cfgInit
        <3> HIDE DEF t
        <3> QED BY <1>0, Zenon DEF StatusType
    <2>3. obj'.st = u /\ obj'.spec = obj.spec
        <3> HIDE DEF u
        <3> QED BY <1>0, <2>1 DEF Resource
    <2> HIDE DEF u
    <2>4. Frame
        BY <2>1, <2>2, <2>3, SameEnv DEF Frame, View
    <2> QED BY <2>1, <2>4, FrameEnv
<1> QED BY <1>3, <1>4, <1>5, <1>6, <1>7, Zenon

\* What is not hasty after a step was not before it.
LEMMA NotHastyBefore ==
    ASSUME TInv, [Next]_vars, ~ hist'.hasty
    PROVE  ~ hist.hasty /\ \A s \in Specs : EditSpec(s) => ~ Hasty(s)
<1>0. hist \in HistType
    BY DEF TInv
<1>1. ASSUME NEW s \in Specs, EditSpec(s) PROVE ~ hist.hasty /\ ~ Hasty(s)
    <2> DEFINE n == IF RunningAt("Idle") THEN hist.touches ELSE hist.touches + 1
               d == hist.deep \/ Deep(s)
               h == hist.hasty \/ Hasty(s)
    <2>1. hist' = [hist EXCEPT !.touches = n, !.deep = d, !.hasty = h]
        <3>1. hist = [faults |-> hist.faults, touches |-> hist.touches, flakes |-> hist.flakes,
                      started |-> hist.started, deep |-> hist.deep, hasty |-> hist.hasty]
            BY <1>0 DEF HistType
        <3> QED BY <1>1, <3>1 DEF EditSpec
    <2> HIDE DEF n, d, h
    <2>2. hist'.hasty = h
        BY <1>0, <2>1, Zenon DEF HistType
    <2> QED BY <2>2, Zenon DEF h
<1>2. ASSUME UNCHANGED hist PROVE ~ hist.hasty
    BY <1>2
<1>3. ASSUME StartUpgrade PROVE ~ hist.hasty
    <2> DEFINE S == hist.started \cup {mdbsh.gen}
    <2>1. hist' = [hist EXCEPT !.started = S]
        BY <1>3, Zenon DEF StartUpgrade
    <2> HIDE DEF S
    <2> QED BY <1>0, <2>1 DEF HistType
<1>4. ASSUME NEW n, hist' = [hist EXCEPT !.faults = n] PROVE ~ hist.hasty
    BY <1>0, <1>4 DEF HistType
<1>5. ASSUME Fault PROVE ~ hist.hasty
    BY <1>4, <1>5 DEF Fault
<1>6. ASSUME Touch PROVE ~ hist.hasty
    <2> DEFINE n == hist.touches + 1
    <2>1. hist' = [hist EXCEPT !.touches = n]
        BY <1>6 DEF Touch
    <2> HIDE DEF n
    <2> QED BY <1>0, <2>1 DEF HistType
<1>7. ASSUME NEW w, PodReady(w), hist' # hist PROVE ~ hist.hasty
    <2> DEFINE n == hist.flakes + 1
    <2>1. hist' = [hist EXCEPT !.flakes = n]
        BY <1>7 DEF PodReady
    <2> HIDE DEF n
    <2> QED BY <1>0, <2>1 DEF HistType
<1>8. ASSUME Pods PROVE ~ hist.hasty
    BY <1>2, <1>7, <1>8 DEF Pods, Roll
<1>9. ASSUME Faults PROVE ~ hist.hasty
    BY <1>5, <1>9 DEF Faults, CleanupFails, CallFails, Crash, PodDown
<1>10. ASSUME Reconcile PROVE ~ hist.hasty
    BY <1>2, <1>3, <1>10, PassKeepsHist
<1>11. ASSUME \/ Balancer \/ BackupController \/ Tick \/ AppCreatesCollection
              \/ (\E i \in ShardIds : AppWrites(i)) \/ UNCHANGED vars
       PROVE  ~ hist.hasty
    <2>1. UNCHANGED hist
        BY <1>11 DEF Balancer, Balance, BackupController, BackupEnds, Tick,
           AppCreatesCollection, AppWrites, vars
    <2> QED BY <1>2, <2>1
<1>12. ~ hist.hasty
    BY <1>1, <1>6, <1>8, <1>9, <1>10, <1>11 DEF Next
<1> QED BY <1>1, <1>12

\* Every step preserves FInv, and it holds at the start.
LEMMA FInductive ==
    ASSUME TInv, FInv, SameCount, Whitelisted, [Next]_vars
    PROVE  FInv'
<1> SUFFICES ASSUME ~ hist'.hasty PROVE FOK'
    BY DEF FInv, FOK
<1>1. FOK /\ \A s \in Specs : EditSpec(s) => ~ Hasty(s)
    BY NotHastyBefore DEF FInv, FOK
<1>2. CASE Reconcile
    BY <1>1, <1>2, OpeningSteps, DecidingSteps, CommitStep, CompleteStep, WorkloadSteps, CfgInitStep,
       FlagSteps, ScaleInSteps, AddSteps, SMTT(30) DEF Reconcile
<1>3. CASE Faults
    BY <1>1, <1>3, ScaleInSteps, BackgroundSteps, PodStep DEF Faults
<1>4. CASE Pods
    BY <1>1, <1>4, RollStep, PodStep DEF Pods
<1>5. CASE \E s \in Specs : EditSpec(s)
    BY <1>1, <1>5, EditStep
<1> QED BY <1>1, <1>2, <1>3, <1>4, <1>5, BackgroundSteps DEF Next

LEMMA FInit == Init => FInv
<1> SUFFICES ASSUME Init PROVE FState /\ pc = "Idle"
    BY SMTT(30) DEF FInv
<1>1. obj.st = EmptyStatus /\ mongo.shard = [i \in ShardIds |-> "absent"] /\ mongo.fcv = 0
      /\ mongo.store = [w \in ShardIds \cup {Cfg} |-> "none"] /\ pc = "Idle"
    BY SMTT(30) DEF Init, Created
<1>2. wl[Cfg] = NoWorkload
    BY DEF Init, Workloads
<1>3. /\ obj.st.version = NoVersion /\ obj.st.eff = NoVersion /\ obj.st.up = "" /\ obj.st.upGen = 0
      /\ obj.st.fcv = 0 /\ obj.st.ready = TRUE /\ obj.st.cfgInit = FALSE
    <2>1. /\ EmptyStatus.version = NoVersion /\ EmptyStatus.eff = NoVersion /\ EmptyStatus.up = ""
          /\ EmptyStatus.upGen = 0 /\ EmptyStatus.fcv = 0
        BY Zenon DEF EmptyStatus
    <2>2. EmptyStatus.ready = TRUE /\ EmptyStatus.cfgInit = FALSE
        BY Zenon DEF EmptyStatus
    <2> QED BY <1>1, <2>1, <2>2, ZenonT(30)
<1>4. wl[Cfg].t = NoVersion /\ wl[Cfg].v = NoVersion /\ wl[Cfg].ready = FALSE
    BY <1>2 DEF NoWorkload
<1>5. ~ Initiated(Cfg) /\ Members = {}
    BY <1>1 DEF Initiated, Members
<1>6. Footing /\ Blank
    BY <1>1, <1>3, <1>4, <1>5, Zenon DEF Footing, Blank
<1> QED BY <1>1, <1>3, <1>6, Zenon DEF FState

\* FCVStrandsNoMember.  Every member's template names a binary that starts at the
\* FCV of the cluster, upgrades, rollbacks, crashes and stale copies included, as
\* long as no edit precedes the completion of the last one, for specs that the
\* webhook admits and that declare the same shards.
THEOREM FCVStrandsNoMember ==
    ASSUME SameCount, Whitelisted
    PROVE  Spec => []FCVNeverStrands
<1>1. TInv /\ FInv /\ [Next]_vars => TInv' /\ FInv'
    BY TypeInductive, FInductive
<1>2. FInv => FCVNeverStrands
    BY FCVMeans
<1> QED BY <1>1, <1>2, TypeInit, FInit, PTL DEF Spec
=============================================================================
