---------------------- MODULE MongoDBReconciler_proofs ----------------------
(***************************************************************************)
(* Theorems about MongoDBReconciler, for every number of members, set of   *)
(* specs, bounds and behaviour of the environment.                         *)
(***************************************************************************)
EXTENDS MongoDBReconciler, TLAPS

USE DEF NoVersion, NoTime

-----------------------------------------------------------------------------
(* Facts about the constants and the closures. *)

\* The validation timeout of reconcileUpgradeValidation is a natural number.
LEMMA TimeoutNat == Timeout \in Nat
<1>1. N * Budget \in Nat
  BY ConstantsAssumption
<1> QED
  BY <1>1, ConstantsAssumption DEF Timeout

\* A version of the status is one of a spec, or empty; no spec has the empty one.
LEMMA VersionFacts ==
    /\ Versions \subseteq Nat \ {NoVersion}
    /\ \A s \in Specs : s.version \in Versions
BY ConstantsAssumption DEF Versions

\* Every closure that a status write applies keeps the status well typed.
LEMMA ClosureTypes ==
    ASSUME NEW o \in Objects, desired \in Versions \cup {NoVersion}, mdb \in Objects
    PROVE  /\ setInitializing(o) \in Status /\ seed(o) \in Status
           /\ clearUpgrade(o) \in Status /\ initUpgrade(o) \in Status
           /\ setUpgrading(o) \in Status /\ abortUpgrade(o) \in Status
           /\ completeUpgrade(o) \in Status /\ setRollingBack(o) \in Status
           /\ failUpgrade(o) \in Status /\ finishRollback(o) \in Status
           /\ setValidating(o) \in Status /\ setRSInitialized(o) \in Status
           /\ setAdminCreated(o) \in Status /\ applyStatus(o) \in Status
           /\ setFailed(o) \in Status
<1>1. o.st \in Status /\ o.gen \in 1 .. MaxGen /\ o.spec \in Specs
  BY DEF Objects
<1>2. /\ o.spec.version \in Versions
      /\ mdb.st.version \in Versions \cup {NoVersion}
  BY <1>1, VersionFacts DEF Objects, Status
<1>3. 0 \in 0 .. Timeout /\ o.gen \in 0 .. MaxGen
  BY <1>1, TimeoutNat, ConstantsAssumption
<1>4. setInitializing(o) \in Status /\ setFailed(o) \in Status
  BY <1>1 DEF Status, setInitializing, setFailed
<1>5. seed(o) \in Status
  BY <1>1, ZenonT(60) DEF Status, seed
<1>6. clearUpgrade(o) \in Status /\ abortUpgrade(o) \in Status
  BY <1>1, ZenonT(60) DEF Status, clearUpgrade, abortUpgrade, UpgradePhases
<1>7. initUpgrade(o) \in Status
  <2>1. (IF o.spec.backup THEN "BackingUp" ELSE "Upgrading") \in UpgradePhases
    BY DEF UpgradePhases
  <2> QED
    BY <1>1, <1>2, <1>3, <2>1, ZenonT(60) DEF Status, initUpgrade
<1>8. setUpgrading(o) \in Status /\ setRollingBack(o) \in Status
  BY <1>1 DEF Status, setUpgrading, setRollingBack, UpgradePhases
<1>9. completeUpgrade(o) \in Status
  <2>1. fcvMajorMinor(desired) \in {fcvMajorMinor(v) : v \in Versions \cup {NoVersion}}
    OBVIOUS
  <2>2. 0 \in 0 .. MaxRetry
    BY ConstantsAssumption
  <2> QED
    BY <1>1, <1>3, <2>1, <2>2, ZenonT(60) DEF Status, completeUpgrade, UpgradePhases
<1>10. failUpgrade(o) \in Status
  BY <1>1, <1>3, ZenonT(60) DEF Status, failUpgrade, UpgradePhases
<1>11. finishRollback(o) \in Status
  <2>1. o.st.retry \in 0 .. MaxRetry /\ o.st.prev \in Versions \cup {NoVersion}
    BY <1>1 DEF Status
  <2>2. (IF o.st.retry < MaxRetry THEN o.st.retry + 1 ELSE o.st.retry) \in 0 .. MaxRetry
    BY <2>1, ConstantsAssumption
  <2> QED
    BY <1>1, <1>3, <2>1, <2>2, ZenonT(60) DEF Status, finishRollback, UpgradePhases
<1>12. setValidating(o) \in Status
  BY <1>1, <1>3, ZenonT(60) DEF Status, setValidating, UpgradePhases
<1>13. setRSInitialized(o) \in Status /\ setAdminCreated(o) \in Status
  BY <1>1, ZenonT(60) DEF Status, setRSInitialized, setAdminCreated
<1>14. applyStatus(o) \in Status
  BY <1>1, <1>2 DEF Status, applyStatus
<1> QED
  BY <1>4, <1>5, <1>6, <1>7, <1>8, <1>9, <1>10, <1>11, <1>12, <1>13, <1>14

\* The resource as created is well typed.
LEMMA CreatedType == Created \in Objects
<1>1. NewStatus \in Status
  BY ConstantsAssumption DEF NewStatus, Status, UpgradePhases
<1> QED
  BY <1>1, ConstantsAssumption DEF Created, Objects

\* The passing of time keeps an object well typed.
LEMMA OlderType == ASSUME NEW o \in Objects PROVE Older(o) \in Objects
<1>1. o.st \in Status /\ o.st.start \in {NoTime} \cup 0 .. Timeout
  BY DEF Objects, Status
<1>2. (IF o.st.start = NoTime \/ o.st.start = Timeout THEN o.st.start ELSE o.st.start + 1)
         \in {NoTime} \cup 0 .. Timeout
  BY <1>1, TimeoutNat
<1> QED
  BY <1>1, <1>2 DEF Older, Objects, Status

-----------------------------------------------------------------------------
(* Type correctness. *)

\* Writing a well-typed status leaves a well-typed object.
LEMMA WriteType ==
    ASSUME NEW o \in Objects, NEW st \in Status
    PROVE  [o EXCEPT !.st = st] \in Objects
BY DEF Objects

\* The initial state is well typed.
LEMMA InitType == Init => TypeOK
<1> SUFFICES ASSUME Init PROVE TypeOK
  OBVIOUS
<1>1. mongo \in [rs : BOOLEAN, admin : BOOLEAN, hook : {"run", "initiated", "done"},
                 fcv : {fcvMajorMinor(v) : v \in Versions \cup {NoVersion}}]
  BY DEF Init
<1>2. hist \in [tries : 0 .. 2, faults : 0 .. MaxFaults, flakes : 0 .. MaxFlakes]
  BY ConstantsAssumption DEF Init
<1> QED
  BY <1>1, <1>2, CreatedType DEF Init, TypeOK, Steps

\* Every step of the operator, the cluster and the user keeps the state well typed.
LEMMA NextType == TypeOK /\ [Next]_vars => TypeOK'
<1> SUFFICES ASSUME TypeOK, [Next]_vars PROVE TypeOK'
  OBVIOUS
<1> USE DEF TypeOK, crd, cluster, Steps
<1>0. CASE UNCHANGED vars
  BY <1>0 DEF vars
<1>1. CASE StartReconcile
  BY <1>1 DEF StartReconcile
<1>2. CASE ReconcilePhase
  <2>0. [obj EXCEPT !.st = setInitializing(obj)] \in Objects
    BY ClosureTypes, WriteType
  <2>1. obj' \in Objects /\ mdb' \in Objects
    BY <1>2, <2>0 DEF ReconcilePhase, UpdateWithRetry
  <2>2. desired' \in Versions
    BY <1>2, <2>1, VersionFacts DEF ReconcilePhase, Objects
  <2> QED
    BY <1>2, <2>1, <2>2 DEF ReconcilePhase, UpdateWithRetry
<1>3. CASE SeedVersions
  <2>1. [obj EXCEPT !.st = seed(obj)] \in Objects
    BY ClosureTypes, WriteType
  <2> QED
    BY <1>3, <2>1 DEF SeedVersions, WriteAndGoto, UpdateWithRetry, Goto
<1>4. CASE NoUpgrade
  <2>1. [obj EXCEPT !.st = clearUpgrade(obj)] \in Objects
    BY ClosureTypes, WriteType
  <2> QED
    BY <1>4, <2>1 DEF NoUpgrade, WriteAndGoto, UpdateWithRetry, Goto
<1>5. CASE AwaitSpecChange
  BY <1>5 DEF AwaitSpecChange, Goto
<1>6. CASE InitUpgrade
  <2>1. [obj EXCEPT !.st = initUpgrade(obj)] \in Objects
    BY ClosureTypes, WriteType
  <2>2. hist' \in [tries : 0 .. 2, faults : 0 .. MaxFaults, flakes : 0 .. MaxFlakes]
    <3>1. (IF hist.tries < 2 THEN hist.tries + 1 ELSE hist.tries) \in 0 .. 2
      OBVIOUS
    <3> QED
      BY <1>6, <3>1 DEF InitUpgrade
  <2> QED
    BY <1>6, <2>1, <2>2, CreatedType DEF InitUpgrade, UpdateWithRetry, Return
<1>7. CASE UpgradeWaits
  BY <1>7, CreatedType DEF UpgradeWaits, Return
<1>8. CASE CreateBackup
  BY <1>8, CreatedType, ZenonT(60) DEF CreateBackup, Return
<1>9. CASE BackupCompleted
  <2>1. [obj EXCEPT !.st = setUpgrading(obj)] \in Objects
    BY ClosureTypes, WriteType
  <2> QED
    BY <1>9, <2>1, CreatedType DEF BackupCompleted, WriteAndReturn, UpdateWithRetry, Return
<1>10. CASE BackupFailed
  <2>1. [obj EXCEPT !.st = abortUpgrade(obj)] \in Objects
    BY ClosureTypes, WriteType
  <2> QED
    BY <1>10, <2>1, CreatedType DEF BackupFailed, WriteAndReturn, UpdateWithRetry, Return
<1>11. CASE commitFCV
  <2>1. mongo' \in [rs : BOOLEAN, admin : BOOLEAN, hook : {"run", "initiated", "done"},
                    fcv : {fcvMajorMinor(v) : v \in Versions \cup {NoVersion}}]
    BY <1>11 DEF commitFCV
  <2> QED
    BY <1>11, <2>1 DEF commitFCV, Goto
<1>12. CASE FCVRefused
  BY <1>12, CreatedType DEF FCVRefused, Return
<1>13. CASE CompleteUpgrade
  <2>1. [obj EXCEPT !.st = completeUpgrade(obj)] \in Objects
    BY ClosureTypes, WriteType
  <2> QED
    BY <1>13, <2>1, CreatedType DEF CompleteUpgrade, WriteAndReturn, UpdateWithRetry, Return
<1>14. CASE upgradeValidationFailed
  <2>1. /\ [obj EXCEPT !.st = setRollingBack(obj)] \in Objects
        /\ [obj EXCEPT !.st = failUpgrade(obj)] \in Objects
    BY ClosureTypes, WriteType
  <2> QED
    BY <1>14, <2>1, CreatedType
       DEF upgradeValidationFailed, WriteAndReturn, UpdateWithRetry, Return
<1>15. CASE reconcileUpgradeRollback
  <2>1. /\ [obj EXCEPT !.st = clearUpgrade(obj)] \in Objects
        /\ [obj EXCEPT !.st = failUpgrade(obj)] \in Objects
        /\ [obj EXCEPT !.st = finishRollback(obj)] \in Objects
    BY ClosureTypes, WriteType
  <2> QED
    BY <1>15, <2>1, CreatedType
       DEF reconcileUpgradeRollback, WriteAndReturn, UpdateWithRetry, Return
<1>16. CASE KeepUpgrading
  BY <1>16 DEF KeepUpgrading, Goto
<1>17. CASE reconcileStatefulSet
  <2>1. effectiveMongoDBVersion(mdb.spec, mdb.st.eff) \in Versions \cup {NoVersion}
    BY VersionFacts DEF effectiveMongoDBVersion, Objects, Status
  <2> QED
    BY <1>17, <2>1, Zenon DEF reconcileStatefulSet, Goto
<1>18. CASE SetValidating
  <2>1. [obj EXCEPT !.st = setValidating(obj)] \in Objects
    BY ClosureTypes, WriteType
  <2> QED
    BY <1>18, <2>1, CreatedType DEF SetValidating, WriteAndReturn, UpdateWithRetry, Return
<1>19. CASE areAllPodsReady
  BY <1>19, CreatedType DEF areAllPodsReady, Goto, Return
<1>20. CASE reconcileReplicaSetInitialization
  <2>1. [obj EXCEPT !.st = setRSInitialized(obj)] \in Objects
    BY ClosureTypes, WriteType
  <2>2. pods[0].v \in Versions \cup {NoVersion}
    BY ConstantsAssumption DEF Members
  <2>3. mongo' \in [rs : BOOLEAN, admin : BOOLEAN, hook : {"run", "initiated", "done"},
                    fcv : {fcvMajorMinor(v) : v \in Versions \cup {NoVersion}}]
    BY <1>20, <2>2, ZenonT(60) DEF reconcileReplicaSetInitialization
  <2> QED
    BY <1>20, <2>1, <2>3
       DEF reconcileReplicaSetInitialization, WriteAndGoto, UpdateWithRetry
<1>21. CASE WaitForPrimary
  BY <1>21, CreatedType DEF WaitForPrimary, Goto, Return
<1>22. CASE BootstrapAdminUser
  <2>1. mongo' \in [rs : BOOLEAN, admin : BOOLEAN, hook : {"run", "initiated", "done"},
                    fcv : {fcvMajorMinor(v) : v \in Versions \cup {NoVersion}}]
    BY <1>22, ZenonT(60) DEF BootstrapAdminUser
  <2> QED
    BY <1>22, <2>1 DEF BootstrapAdminUser, Goto
<1>23. CASE verifyAdminUser
  <2>1. [obj EXCEPT !.st = setAdminCreated(obj)] \in Objects
    BY ClosureTypes, WriteType
  <2> QED
    BY <1>23, <2>1 DEF verifyAdminUser, WriteAndGoto, UpdateWithRetry
<1>24. CASE updateStatus
  <2>1. [obj EXCEPT !.st.phase = ObservedPhase(obj.st)] \in Objects
    BY DEF ObservedPhase, Objects, Status
  <2>2. PICK base \in Objects : obj' = [base EXCEPT !.st = applyStatus(base)]
    BY <1>24, <2>1, ZenonT(60) DEF updateStatus
  <2>3. obj' \in Objects
    BY <2>2, ClosureTypes, WriteType
  <2> QED
    BY <1>24, <2>3, CreatedType DEF updateStatus, Return
<1>25. CASE ReconcileError
  <2>1. [obj EXCEPT !.st = setFailed(obj)] \in Objects
    BY ClosureTypes, WriteType
  <2>2. hist' \in [tries : 0 .. 2, faults : 0 .. MaxFaults, flakes : 0 .. MaxFlakes]
    BY <1>25, ConstantsAssumption DEF ReconcileError, Fault
  <2> QED
    BY <1>25, <2>1, <2>2, CreatedType DEF ReconcileError, UpdateWithRetry, Return
<1>26. CASE Crash
  <2>1. hist' \in [tries : 0 .. 2, faults : 0 .. MaxFaults, flakes : 0 .. MaxFlakes]
    BY <1>26, ConstantsAssumption DEF Crash, Fault
  <2> QED
    BY <1>26, <2>1, CreatedType DEF Crash, Return
<1>27. CASE EditSpec
  <2>0. obj.gen + 1 \in 1 .. MaxGen
    BY <1>27, ConstantsAssumption DEF EditSpec, Objects
  <2>1. obj' \in Objects
    BY <1>27, <2>0, ZenonT(60) DEF EditSpec, Objects
  <2>2. hist' \in [tries : 0 .. 2, faults : 0 .. MaxFaults, flakes : 0 .. MaxFlakes]
    BY <1>27 DEF EditSpec
  <2> QED
    BY <1>27, <2>1, <2>2 DEF EditSpec
<1>28. CASE SyncCache
  BY <1>28 DEF SyncCache
<1>29. CASE Tick
  BY <1>29, OlderType DEF Tick
<1>30. CASE StsObserve
  <2>1. /\ sts'.template \in Versions \cup {NoVersion}
        /\ sts'.current \in Versions \cup {NoVersion}
        /\ sts'.update \in Versions \cup {NoVersion}
        /\ sts'.updated \in SUBSET Members /\ sts'.ready \in SUBSET Members
    BY <1>30 DEF StsObserve
  <2> QED
    BY <1>30, <2>1, ZenonT(60) DEF StsObserve
<1>31. ASSUME NEW m \in Members, RollPod(m) PROVE TypeOK'
  BY <1>31 DEF RollPod, Start
<1>32. ASSUME NEW m \in Members, PodReady(m) PROVE TypeOK'
  BY <1>32 DEF PodReady
<1>33. ASSUME NEW m \in Members, PodCrashes(m) PROVE TypeOK'
  <2>1. hist' \in [tries : 0 .. 2, faults : 0 .. MaxFaults, flakes : 0 .. MaxFlakes]
    BY <1>33, ConstantsAssumption DEF PodCrashes, Flake
  <2> QED
    BY <1>33, <2>1 DEF PodCrashes, Start
<1>34. CASE HookInitiate
  <2>1. pods[0].v \in Versions \cup {NoVersion}
    BY ConstantsAssumption DEF Members
  <2>2. mongo' \in [rs : BOOLEAN, admin : BOOLEAN, hook : {"run", "initiated", "done"},
                    fcv : {fcvMajorMinor(v) : v \in Versions \cup {NoVersion}}]
    BY <1>34, <2>1, ZenonT(60) DEF HookInitiate
  <2> QED
    BY <1>34, <2>2 DEF HookInitiate
<1>35. CASE HookCreateUser
  BY <1>35, ZenonT(60) DEF HookCreateUser
<1>36. CASE HookSkips
  <2>1. hist' \in [tries : 0 .. 2, faults : 0 .. MaxFaults, flakes : 0 .. MaxFlakes]
    BY <1>36, ConstantsAssumption DEF HookSkips, Flake
  <2> QED
    BY <1>36, <2>1 DEF HookSkips
<1>37. ASSUME NEW v \in Versions, BackupEnds(v) PROVE TypeOK'
  BY <1>37 DEF BackupEnds
<1> HIDE DEF TypeOK, crd, cluster, Steps
<1>38. CASE ReconcileUpgrade
  BY <1>38, <1>4, <1>5, <1>6, <1>7, <1>8, <1>9, <1>10, <1>11, <1>12, <1>13, <1>14, <1>15, <1>16
     DEF ReconcileUpgrade
<1>39. CASE Reconcile
  BY <1>39, <1>38, <1>1, <1>2, <1>3, <1>17, <1>18, <1>19, <1>20, <1>21, <1>22, <1>23, <1>24
     DEF Reconcile
<1>40. CASE Environment
  BY <1>40, <1>28, <1>30, <1>31, <1>32, <1>33, <1>34, <1>35, <1>36, <1>37 DEF Environment
<1> QED
  BY <1>0, <1>25, <1>26, <1>27, <1>29, <1>39, <1>40 DEF Next, Act

\* Type correctness: no step of a reconcile, of the cluster or of the user, in any order,
\* leaves a field of the resource, the StatefulSet or the pods outside its range; the
\* retry counter and the generations stay within their bounds.
THEOREM TypeCorrect == Spec => []TypeOK
BY InitType, NextType, PTL DEF Spec

-----------------------------------------------------------------------------
(* The bootstrap flags. *)

(***************************************************************************)
(* BootstrapFlagsTruthful speaks of the resource in the API server only.   *)
(* A reconcile decides on its own copy, read from the cache, and a status  *)
(* write may replace the resource by that copy; so the invariant has to    *)
(* hold of all three.                                                      *)
(***************************************************************************)
Truthful(o) ==
    /\ o.st.rsInit => mongo.rs
    /\ o.st.admin => mongo.admin
    /\ o.st.phase = "Running" => o.st.rsInit /\ o.st.admin

BootstrapInv == Truthful(obj) /\ Truthful(cache) /\ Truthful(mdb)

\* The status st has the flags of o and its phase is not newly Running.
SameFlags(o, st) ==
    /\ st.rsInit = o.st.rsInit /\ st.admin = o.st.admin
    /\ st.phase \in {o.st.phase, "Initializing", "Failed"}

\* All closures but setRSInitialized and setAdminCreated leave the flags alone.
LEMMA ClosuresKeepFlags ==
    ASSUME NEW o \in Objects
    PROVE  /\ SameFlags(o, setInitializing(o)) /\ SameFlags(o, setFailed(o))
           /\ SameFlags(o, seed(o)) /\ SameFlags(o, applyStatus(o))
           /\ SameFlags(o, clearUpgrade(o)) /\ SameFlags(o, abortUpgrade(o))
           /\ SameFlags(o, initUpgrade(o)) /\ SameFlags(o, setUpgrading(o))
           /\ SameFlags(o, setValidating(o)) /\ SameFlags(o, completeUpgrade(o))
           /\ SameFlags(o, setRollingBack(o)) /\ SameFlags(o, failUpgrade(o))
           /\ SameFlags(o, finishRollback(o))
<1> USE DEF SameFlags
<1>0. o.st \in Status
  BY DEF Objects
<1>1. SameFlags(o, setInitializing(o)) /\ SameFlags(o, setFailed(o))
  BY <1>0 DEF Status, setInitializing, setFailed
<1>2. SameFlags(o, seed(o)) /\ SameFlags(o, applyStatus(o))
  BY <1>0 DEF Status, seed, applyStatus
<1>3. SameFlags(o, clearUpgrade(o)) /\ SameFlags(o, abortUpgrade(o))
  BY <1>0 DEF Status, clearUpgrade, abortUpgrade
<1>4. SameFlags(o, initUpgrade(o)) /\ SameFlags(o, setUpgrading(o))
  BY <1>0 DEF Status, initUpgrade, setUpgrading
<1>5. SameFlags(o, setValidating(o)) /\ SameFlags(o, completeUpgrade(o))
  BY <1>0 DEF Status, setValidating, completeUpgrade
<1>6. SameFlags(o, setRollingBack(o)) /\ SameFlags(o, failUpgrade(o))
  BY <1>0 DEF Status, setRollingBack, failUpgrade
<1>7. SameFlags(o, finishRollback(o))
  BY <1>0 DEF Status, finishRollback
<1> QED
  BY <1>1, <1>2, <1>3, <1>4, <1>5, <1>6, <1>7

\* Writing such a status to a truthful object leaves it truthful.
LEMMA TruthfulWrite ==
    ASSUME NEW o \in Objects, NEW st, SameFlags(o, st), Truthful(o)
    PROVE  Truthful([o EXCEPT !.st = st])
BY DEF SameFlags, Truthful, Objects

\* The resource as created claims nothing.
LEMMA CreatedTruthful == Truthful(Created)
BY DEF Truthful, Created, NewStatus

\* The steps that write the flags or the phase, and those that touch the database, one
\* by one; all others leave the three copies and the database alone.
LEMMA BootstrapNext == TypeOK /\ BootstrapInv /\ [Next]_vars => BootstrapInv'
<1> SUFFICES ASSUME TypeOK, BootstrapInv, [Next]_vars PROVE BootstrapInv'
  OBVIOUS
<1> USE DEF BootstrapInv, crd, cluster
<1>a. obj \in Objects /\ cache \in Objects /\ mdb \in Objects
  BY DEF TypeOK
<1>b. \A st : SameFlags(obj, st) => Truthful([obj EXCEPT !.st = st])
  BY <1>a, TruthfulWrite, SMTT(30)
<1>0. CASE UNCHANGED vars
  BY <1>0 DEF vars, Truthful
<1>1. CASE StartReconcile
  BY <1>1 DEF StartReconcile, Truthful
<1>2. CASE ReconcilePhase
  <2>1. Truthful([obj EXCEPT !.st = setInitializing(obj)])
    BY <1>a, <1>b, ClosuresKeepFlags
  <2> QED
    BY <1>2, <2>1, ZenonT(60)
       DEF ReconcilePhase, UpdateWithRetry, Truthful
<1>3. CASE SeedVersions
  <2>1. Truthful([obj EXCEPT !.st = seed(obj)])
    BY <1>a, <1>b, ClosuresKeepFlags
  <2> QED
    BY <1>3, <2>1, ZenonT(60)
       DEF SeedVersions, WriteAndGoto, Goto, UpdateWithRetry, Truthful
<1>4. CASE NoUpgrade
  <2>1. Truthful([obj EXCEPT !.st = clearUpgrade(obj)])
    BY <1>a, <1>b, ClosuresKeepFlags
  <2> QED
    BY <1>4, <2>1, ZenonT(60)
       DEF NoUpgrade, WriteAndGoto, Goto, UpdateWithRetry, Truthful
<1>5. CASE AwaitSpecChange
  BY <1>5 DEF AwaitSpecChange, Goto, Truthful
<1>6. CASE InitUpgrade
  <2>1. Truthful([obj EXCEPT !.st = initUpgrade(obj)])
    BY <1>a, <1>b, ClosuresKeepFlags
  <2> QED
    BY <1>6, <2>1, CreatedTruthful
       DEF InitUpgrade, UpdateWithRetry, Return, Truthful
<1>7. CASE UpgradeWaits
  BY <1>7, CreatedTruthful DEF UpgradeWaits, Return, Truthful
<1>8. CASE CreateBackup
  BY <1>8, CreatedTruthful DEF CreateBackup, Return, Truthful
<1>9. CASE BackupCompleted
  <2>1. Truthful([obj EXCEPT !.st = setUpgrading(obj)])
    BY <1>a, <1>b, ClosuresKeepFlags
  <2> QED
    BY <1>9, <2>1, CreatedTruthful
       DEF BackupCompleted, WriteAndReturn, UpdateWithRetry, Return, Truthful
<1>10. CASE BackupFailed
  <2>1. Truthful([obj EXCEPT !.st = abortUpgrade(obj)])
    BY <1>a, <1>b, ClosuresKeepFlags
  <2> QED
    BY <1>10, <2>1, CreatedTruthful
       DEF BackupFailed, WriteAndReturn, UpdateWithRetry, Return, Truthful
<1>11. CASE commitFCV
  <2>1. mongo'.rs = mongo.rs /\ mongo'.admin = mongo.admin
    BY <1>11 DEF commitFCV, TypeOK
  <2> QED
    BY <1>11, <2>1 DEF commitFCV, Goto, Truthful
<1>12. CASE FCVRefused
  BY <1>12, CreatedTruthful DEF FCVRefused, Return, Truthful
<1>13. CASE CompleteUpgrade
  <2>1. Truthful([obj EXCEPT !.st = completeUpgrade(obj)])
    BY <1>a, <1>b, ClosuresKeepFlags
  <2> QED
    BY <1>13, <2>1, CreatedTruthful
       DEF CompleteUpgrade, WriteAndReturn, UpdateWithRetry, Return, Truthful
<1>14. CASE upgradeValidationFailed
  <2>1. /\ Truthful([obj EXCEPT !.st = setRollingBack(obj)])
        /\ Truthful([obj EXCEPT !.st = failUpgrade(obj)])
    BY <1>a, <1>b, ClosuresKeepFlags
  <2> QED
    BY <1>14, <2>1, CreatedTruthful, ZenonT(60)
       DEF upgradeValidationFailed, WriteAndReturn, UpdateWithRetry, Return, Truthful
<1>15. CASE reconcileUpgradeRollback
  <2>1. /\ Truthful([obj EXCEPT !.st = clearUpgrade(obj)])
        /\ Truthful([obj EXCEPT !.st = failUpgrade(obj)])
        /\ Truthful([obj EXCEPT !.st = finishRollback(obj)])
    BY <1>a, <1>b, ClosuresKeepFlags
  <2> QED
    BY <1>15, <2>1, CreatedTruthful, ZenonT(60)
       DEF reconcileUpgradeRollback, WriteAndReturn, UpdateWithRetry, Return, Truthful
<1>16. CASE KeepUpgrading
  BY <1>16 DEF KeepUpgrading, Goto, Truthful
<1>17. CASE reconcileStatefulSet
  BY <1>17 DEF reconcileStatefulSet, Goto, Truthful
<1>18. CASE SetValidating
  <2>1. Truthful([obj EXCEPT !.st = setValidating(obj)])
    BY <1>a, <1>b, ClosuresKeepFlags
  <2> QED
    BY <1>18, <2>1, CreatedTruthful
       DEF SetValidating, WriteAndReturn, UpdateWithRetry, Return, Truthful
<1>19. CASE areAllPodsReady
  BY <1>19, CreatedTruthful DEF areAllPodsReady, Goto, Return, Truthful
<1>20. CASE reconcileReplicaSetInitialization
  <2>1. mongo'.rs /\ mongo'.admin = mongo.admin
    BY <1>20 DEF reconcileReplicaSetInitialization, TypeOK
  <2>2. /\ obj'.st.admin = obj.st.admin /\ obj'.st.phase = obj.st.phase /\ obj'.st.rsInit
        /\ mdb' = obj' /\ cache' = cache
    BY <1>20, <1>a DEF reconcileReplicaSetInitialization, WriteAndGoto, UpdateWithRetry,
                     setRSInitialized, Objects, Status
  <2> QED
    BY <2>1, <2>2 DEF Truthful
<1>21. CASE WaitForPrimary
  BY <1>21, CreatedTruthful DEF WaitForPrimary, Goto, Return, Truthful
<1>22. CASE BootstrapAdminUser
  <2>1. mongo'.rs = mongo.rs /\ (mongo.admin => mongo'.admin)
    BY <1>22 DEF BootstrapAdminUser, TypeOK
  <2> QED
    BY <1>22, <2>1 DEF BootstrapAdminUser, Goto, Truthful
<1>23. CASE verifyAdminUser
  <2>1. mongo' = mongo /\ mongo.admin
    BY <1>23 DEF verifyAdminUser
  <2>2. /\ obj'.st.rsInit = obj.st.rsInit /\ obj'.st.phase = obj.st.phase /\ obj'.st.admin
        /\ mdb' = obj' /\ cache' = cache
    BY <1>23, <1>a DEF verifyAdminUser, WriteAndGoto, UpdateWithRetry,
                     setAdminCreated, Objects, Status
  <2> QED
    BY <2>1, <2>2 DEF Truthful
<1>24. CASE updateStatus
  <2> DEFINE seen == [obj EXCEPT !.st.phase = ObservedPhase(obj.st)]
  <2>1. seen \in Objects
    BY <1>a DEF ObservedPhase, Objects, Status
  <2>2. Truthful(seen)
    BY <1>a DEF ObservedPhase, Objects, Status, Truthful
  <2>3. PICK base \in {obj, seen} : obj' = [base EXCEPT !.st = applyStatus(base)]
    BY <1>24, ZenonT(60) DEF updateStatus
  <2> HIDE DEF seen
  <2>4. base \in Objects /\ Truthful(base)
    BY <1>a, <2>1, <2>2
  <2>5. Truthful([base EXCEPT !.st = applyStatus(base)])
    BY <2>4, ClosuresKeepFlags, TruthfulWrite
  <2> QED
    BY <1>24, <2>3, <2>5, CreatedTruthful, ZenonT(60) DEF updateStatus, Return, Truthful
<1>25. CASE ReconcileError
  <2>1. Truthful([obj EXCEPT !.st = setFailed(obj)])
    BY <1>a, <1>b, ClosuresKeepFlags
  <2> QED
    BY <1>25, <2>1, CreatedTruthful
       DEF ReconcileError, UpdateWithRetry, Return, Truthful
<1>26. CASE Crash
  BY <1>26, CreatedTruthful DEF Crash, Return, Truthful
<1>27. CASE EditSpec
  <2>1. obj'.st = obj.st
    BY <1>27, <1>a DEF EditSpec, Objects
  <2> QED
    BY <1>27, <2>1 DEF EditSpec, Truthful
<1>28. CASE SyncCache
  BY <1>28 DEF SyncCache, Truthful
<1>29. CASE Tick
  <2>1. \A o \in Objects : SameFlags(o, Older(o).st)
    BY DEF Older, SameFlags, Objects, Status
  <2> QED
    BY <1>29, <1>a, <2>1 DEF Tick, SameFlags, Truthful
<1>30. CASE StsObserve
  BY <1>30 DEF StsObserve, Truthful
<1>31. ASSUME NEW m \in Members, RollPod(m) \/ PodCrashes(m) PROVE BootstrapInv'
  <2>1. mongo'.rs = mongo.rs /\ mongo'.admin = mongo.admin
    BY <1>31 DEF RollPod, PodCrashes, Start, TypeOK
  <2> QED
    BY <1>31, <2>1 DEF RollPod, PodCrashes, Start, Truthful
<1>32. ASSUME NEW m \in Members, PodReady(m) PROVE BootstrapInv'
  BY <1>32 DEF PodReady, Truthful
<1>33. CASE HookInitiate \/ HookCreateUser \/ HookSkips
  <2>1. (mongo.rs => mongo'.rs) /\ (mongo.admin => mongo'.admin)
    BY <1>33, ZenonT(60) DEF HookInitiate, HookCreateUser, HookSkips, TypeOK
  <2> QED
    BY <1>33, <2>1 DEF HookInitiate, HookCreateUser, HookSkips, Truthful
<1>34. ASSUME NEW v \in Versions, BackupEnds(v) PROVE BootstrapInv'
  BY <1>34 DEF BackupEnds, Truthful
<1> HIDE DEF BootstrapInv, crd, cluster
<1>35. CASE ReconcileUpgrade
  BY <1>35, <1>4, <1>5, <1>6, <1>7, <1>8, <1>9, <1>10, <1>11, <1>12, <1>13, <1>14, <1>15, <1>16
     DEF ReconcileUpgrade
<1>36. CASE Reconcile
  BY <1>36, <1>35, <1>1, <1>2, <1>3, <1>17, <1>18, <1>19, <1>20, <1>21, <1>22, <1>23, <1>24
     DEF Reconcile
<1>37. CASE Environment
  BY <1>37, <1>28, <1>30, <1>31, <1>32, <1>33, <1>34 DEF Environment
<1> QED
  BY <1>0, <1>25, <1>26, <1>27, <1>29, <1>36, <1>37 DEF Next, Act

\* The flags in the status are truthful, for every number of members, every set of specs,
\* with or without the webhook, a lagging cache, crashes and failures at any step.
THEOREM BootstrapFlags == Spec => []BootstrapFlagsTruthful
<1>1. Init => BootstrapInv
  BY CreatedTruthful DEF Init, BootstrapInv
<1>2. BootstrapInv => BootstrapFlagsTruthful
  BY DEF BootstrapInv, Truthful, BootstrapFlagsTruthful
<1> QED
  BY <1>1, <1>2, TypeCorrect, BootstrapNext, PTL DEF Spec

-----------------------------------------------------------------------------
(* The record of the upgrade, and what each step does to it and to the cluster: what the *)
(* theorems about upgrades build on.                                                     *)

(***************************************************************************)
(* A reconcile writes what it decided on its own, possibly old, copy onto  *)
(* whatever the API server holds by then: a copy that says BackingUp may   *)
(* put phase Upgrading on a resource whose upgrade ended meanwhile.  So    *)
(* the record must be complete in all three copies, and what a copy has    *)
(* recorded the resource must still have: prev and eff, once set, are      *)
(* never cleared.                                                          *)
(***************************************************************************)
Record(st) ==
    /\ st.up # "None" => st.prev # NoVersion /\ st.eff # NoVersion
    /\ st.up = "Validating" => st.start # NoTime

\* What the status st has recorded is recorded in the newer status new, too.
Kept(st, new) ==
    /\ st.prev # NoVersion => new.prev # NoVersion
    /\ st.eff # NoVersion => new.eff # NoVersion

RecordInv ==
    /\ Record(obj.st) /\ Record(cache.st) /\ Record(mdb.st)
    /\ Kept(cache.st, obj.st) /\ Kept(mdb.st, obj.st)
    /\ pc \notin {"Idle", "Phase"} => desired \in Versions
    /\ pc = "Validating" => mdb.st.up = "Upgrading"

\* A write onto the resource keeps the record when the status written is complete and
\* has cleared nothing.
Sound(o, st) == Record(st) /\ Kept(o.st, st)

LEMMA WriteKeeps ==
    ASSUME NEW o \in Objects, NEW st
    PROVE  [o EXCEPT !.st = st].st = st
BY Zenon DEF Objects

\* The closures that start nothing.
LEMMA HarmlessClosures ==
    ASSUME NEW o \in Objects, Record(o.st)
    PROVE  /\ Sound(o, setInitializing(o)) /\ Sound(o, setFailed(o))
           /\ Sound(o, clearUpgrade(o)) /\ Sound(o, abortUpgrade(o))
           /\ Sound(o, failUpgrade(o)) /\ Sound(o, applyStatus(o))
           /\ Sound(o, setRSInitialized(o)) /\ Sound(o, setAdminCreated(o))
<1> USE DEF Sound, Record, Kept
<1>0. o.st \in Status
  BY DEF Objects
<1>1. Sound(o, setInitializing(o)) /\ Sound(o, setFailed(o))
  BY <1>0 DEF Status, setInitializing, setFailed
<1>2. Sound(o, clearUpgrade(o)) /\ Sound(o, abortUpgrade(o))
  BY <1>0 DEF Status, clearUpgrade, abortUpgrade
<1>3. Sound(o, failUpgrade(o)) /\ Sound(o, applyStatus(o))
  BY <1>0 DEF Status, failUpgrade, applyStatus
<1>4. Sound(o, setRSInitialized(o)) /\ Sound(o, setAdminCreated(o))
  BY <1>0 DEF Status, setRSInitialized, setAdminCreated
<1> QED
  BY <1>1, <1>2, <1>3, <1>4

\* The closures that write the version the reconcile is after.
LEMMA VersionClosures ==
    ASSUME NEW o \in Objects, Record(o.st), desired \in Versions
    PROVE  /\ Sound(o, seed(o)) /\ Sound(o, completeUpgrade(o))
           /\ mdb.st.version # NoVersion => Sound(o, initUpgrade(o))
<1> USE DEF Sound, Record, Kept
<1>0. o.st \in Status /\ desired # NoVersion
  BY VersionFacts DEF Objects
<1>1. Sound(o, seed(o))
  BY <1>0 DEF Status, seed
<1>2. Sound(o, completeUpgrade(o))
  BY <1>0 DEF Status, completeUpgrade
<1>3. mdb.st.version # NoVersion => Sound(o, initUpgrade(o))
  BY <1>0 DEF Status, initUpgrade
<1> QED
  BY <1>1, <1>2, <1>3

\* The closures that move an upgrade on, applied where a rollback target is recorded.
LEMMA PhaseClosures ==
    ASSUME NEW o \in Objects, Record(o.st), o.st.prev # NoVersion, o.st.eff # NoVersion
    PROVE  /\ Sound(o, setUpgrading(o)) /\ Sound(o, setRollingBack(o))
           /\ Sound(o, setValidating(o)) /\ Sound(o, finishRollback(o))
<1> USE DEF Sound, Record, Kept
<1>0. o.st \in Status
  BY DEF Objects
<1>1. Sound(o, setUpgrading(o)) /\ Sound(o, setRollingBack(o))
  BY <1>0 DEF Status, setUpgrading, setRollingBack
<1>2. Sound(o, setValidating(o))
  BY <1>0 DEF Status, setValidating, NoTime
<1>3. Sound(o, finishRollback(o))
  BY <1>0 DEF Status, finishRollback
<1> QED
  BY <1>1, <1>2, <1>3

LEMMA CreatedRecord == Record(Created.st) /\ \A st : Kept(Created.st, st)
BY DEF Record, Kept, Created, NewStatus

\* Time passing neither sets nor clears a field.
LEMMA OlderRecord ==
    ASSUME NEW o \in Objects, Record(o.st)
    PROVE  /\ Record(Older(o).st)
           /\ Older(o).st.prev = o.st.prev /\ Older(o).st.eff = o.st.eff
           /\ Older(o).st.up = o.st.up
BY TimeoutNat DEF Older, Record, Objects, Status, NoTime

LEMMA RecordNext == TypeOK /\ RecordInv /\ [Next]_vars => RecordInv'
<1> SUFFICES ASSUME TypeOK, RecordInv, [Next]_vars PROVE RecordInv'
  OBVIOUS
<1> USE DEF RecordInv, crd, cluster
<1>a. /\ obj \in Objects /\ cache \in Objects /\ mdb \in Objects
      /\ Record(obj.st)
  BY DEF TypeOK
<1>b. \A st : [obj EXCEPT !.st = st].st = st
  BY <1>a, WriteKeeps
<1>r. ASSUME NEW st, Sound(obj, st), obj' = [obj EXCEPT !.st = st], cache' = cache, Return
      PROVE  RecordInv'
  <2>1. obj'.st = st /\ Record(st) /\ Kept(obj.st, st)
    BY <1>b, <1>r DEF Sound
  <2>2. mdb' = Created /\ pc' = "Idle"
    BY <1>r DEF Return
  <2>3. Record(mdb'.st) /\ Kept(mdb'.st, obj'.st)
    BY <2>2, CreatedRecord
  <2>4. Kept(cache'.st, obj'.st)
    BY <1>r, <2>1 DEF Kept
  <2> QED
    BY <1>r, <2>1, <2>2, <2>3, <2>4
<1>0. CASE UNCHANGED vars
  BY <1>0 DEF vars
<1>1. CASE StartReconcile
  BY <1>1 DEF StartReconcile, Kept
<1>2. CASE ReconcilePhase
  <2>1. Sound(obj, setInitializing(obj))
    BY <1>a, HarmlessClosures
  <2>2. mdb'.spec.version \in Versions
    BY <1>2, <1>a, <1>b, VersionFacts DEF ReconcilePhase, UpdateWithRetry, Objects
  <2> QED
    BY <1>2, <2>1, <2>2, <1>a, <1>b, ZenonT(60) DEF ReconcilePhase, UpdateWithRetry, Sound, Kept
<1>3. CASE SeedVersions
  <2>1. Sound(obj, seed(obj))
    BY <1>3, <1>a, VersionClosures DEF SeedVersions
  <2> QED
    BY <1>3, <2>1, <1>a, <1>b, ZenonT(60)
       DEF SeedVersions, WriteAndGoto, Goto, UpdateWithRetry, Sound, Kept
<1>4. CASE NoUpgrade
  <2>1. Sound(obj, clearUpgrade(obj))
    BY <1>4, <1>a, HarmlessClosures DEF NoUpgrade
  <2> QED
    BY <1>4, <2>1, <1>a, <1>b, ZenonT(60)
       DEF NoUpgrade, WriteAndGoto, Goto, UpdateWithRetry, Sound, Kept
<1>5. CASE AwaitSpecChange \/ KeepUpgrading
  BY <1>5 DEF AwaitSpecChange, KeepUpgrading, AtUpgrade, Goto
<1>6. CASE InitUpgrade
  <2>1. Sound(obj, initUpgrade(obj))
    BY <1>6, <1>a, VersionClosures DEF InitUpgrade, AtUpgrade, UpgradeNeeded
  <2> QED
    BY <1>6, <2>1, <1>r DEF InitUpgrade, UpdateWithRetry
<1>7. CASE UpgradeWaits \/ CreateBackup \/ FCVRefused
  BY <1>7, CreatedRecord DEF UpgradeWaits, CreateBackup, FCVRefused, Return
<1>8. CASE BackupCompleted
  <2>1. Sound(obj, setUpgrading(obj))
    BY <1>8, <1>a, PhaseClosures DEF BackupCompleted, AtUpgrade, Record, Kept
  <2> QED
    BY <1>8, <2>1, <1>r DEF BackupCompleted, WriteAndReturn, UpdateWithRetry
<1>9. CASE BackupFailed
  <2>1. Sound(obj, abortUpgrade(obj))
    BY <1>9, <1>a, HarmlessClosures DEF BackupFailed
  <2> QED
    BY <1>9, <2>1, <1>r DEF BackupFailed, WriteAndReturn, UpdateWithRetry
<1>10. CASE commitFCV
  BY <1>10 DEF commitFCV, AtValidation, AtUpgrade, Goto
<1>11. CASE CompleteUpgrade
  <2>1. Sound(obj, completeUpgrade(obj))
    BY <1>11, <1>a, VersionClosures DEF CompleteUpgrade
  <2> QED
    BY <1>11, <2>1, <1>r DEF CompleteUpgrade, WriteAndReturn, UpdateWithRetry
<1>12. CASE upgradeValidationFailed
  <2>1. Sound(obj, setRollingBack(obj)) /\ Sound(obj, failUpgrade(obj))
    BY <1>12, <1>a, HarmlessClosures, PhaseClosures
       DEF upgradeValidationFailed, AtValidation, AtUpgrade, Record, Kept
  <2>2. PICK st \in {setRollingBack(obj), failUpgrade(obj)} :
          obj' = [obj EXCEPT !.st = st] /\ cache' = cache /\ Return
    BY <1>12 DEF upgradeValidationFailed, WriteAndReturn, UpdateWithRetry
  <2> QED
    BY <2>1, <2>2, <1>r
<1>13. CASE reconcileUpgradeRollback
  <2>1. /\ Sound(obj, clearUpgrade(obj)) /\ Sound(obj, failUpgrade(obj))
        /\ Sound(obj, finishRollback(obj))
    BY <1>13, <1>a, HarmlessClosures, PhaseClosures
       DEF reconcileUpgradeRollback, AtUpgrade, Record, Kept
  <2>2. PICK st \in {clearUpgrade(obj), failUpgrade(obj), finishRollback(obj)} :
          obj' = [obj EXCEPT !.st = st] /\ cache' = cache /\ Return
    BY <1>13 DEF reconcileUpgradeRollback, WriteAndReturn, UpdateWithRetry
  <2> QED
    BY <2>1, <2>2, <1>r
<1>14. CASE reconcileStatefulSet
  BY <1>14 DEF reconcileStatefulSet, Goto
<1>15. CASE SetValidating
  <2>1. Sound(obj, setValidating(obj))
    BY <1>15, <1>a, PhaseClosures DEF SetValidating, Record, Kept
  <2> QED
    BY <1>15, <2>1, <1>r DEF SetValidating, WriteAndReturn, UpdateWithRetry
<1>16. CASE areAllPodsReady \/ WaitForPrimary \/ BootstrapAdminUser
  BY <1>16, CreatedRecord
     DEF areAllPodsReady, WaitForPrimary, BootstrapAdminUser, Goto, Return
<1>17. CASE reconcileReplicaSetInitialization
  <2>1. Sound(obj, setRSInitialized(obj))
    BY <1>a, HarmlessClosures
  <2>2. obj'.st = setRSInitialized(obj) /\ mdb' = obj' /\ cache' = cache
    BY <1>17, <1>b DEF reconcileReplicaSetInitialization, WriteAndGoto, UpdateWithRetry
  <2>3. pc = "RSInit" /\ pc' = "Primary" /\ desired' = desired
    BY <1>17 DEF reconcileReplicaSetInitialization, WriteAndGoto
  <2> QED
    BY <2>1, <2>2, <2>3 DEF Sound, Kept
<1>18. CASE verifyAdminUser
  <2>1. Sound(obj, setAdminCreated(obj))
    BY <1>a, HarmlessClosures
  <2>2. obj'.st = setAdminCreated(obj) /\ mdb' = obj' /\ cache' = cache
    BY <1>18, <1>b DEF verifyAdminUser, WriteAndGoto, UpdateWithRetry
  <2>3. pc = "Verify" /\ pc' = "Status" /\ desired' = desired
    BY <1>18 DEF verifyAdminUser, WriteAndGoto
  <2> QED
    BY <2>1, <2>2, <2>3 DEF Sound, Kept
<1>19. CASE updateStatus
  <2> DEFINE seen == [obj EXCEPT !.st.phase = ObservedPhase(obj.st)]
  <2>1. seen \in Objects /\ Sound(obj, seen.st)
    BY <1>a DEF ObservedPhase, Objects, Status, Sound, Record, Kept
  <2>2. PICK base \in {obj, seen} : obj' = [base EXCEPT !.st = applyStatus(base)]
    BY <1>19, ZenonT(60) DEF updateStatus
  <2> HIDE DEF seen
  <2>3. base \in Objects /\ Sound(obj, base.st)
    BY <1>a, <2>1, <2>2 DEF Sound, Kept
  <2>4. obj'.st = applyStatus(base) /\ Sound(base, applyStatus(base))
    BY <2>2, <2>3, WriteKeeps, HarmlessClosures DEF Sound
  <2>5. Record(obj'.st) /\ Kept(obj.st, obj'.st)
    BY <2>3, <2>4 DEF Sound, Kept
  <2> QED
    BY <1>19, <2>5, CreatedRecord DEF updateStatus, Return, Kept
<1>20. CASE ReconcileError
  <2>1. Sound(obj, setFailed(obj))
    BY <1>20, <1>a, HarmlessClosures DEF ReconcileError
  <2> QED
    BY <1>20, <2>1, <1>r DEF ReconcileError, UpdateWithRetry
<1>21. CASE Crash
  BY <1>21, CreatedRecord DEF Crash, Return
<1>22. CASE EditSpec
  <2>1. obj'.st = obj.st
    BY <1>22, <1>a DEF EditSpec, Objects
  <2> QED
    BY <1>22, <2>1 DEF EditSpec
<1>23. CASE SyncCache
  BY <1>23 DEF SyncCache, Kept
<1>24. CASE Tick
  BY <1>24, <1>a, OlderRecord DEF Tick, Kept
<1>25. CASE StsObserve \/ HookInitiate \/ HookCreateUser \/ HookSkips
  BY <1>25 DEF StsObserve, HookInitiate, HookCreateUser, HookSkips
<1>26. ASSUME NEW m \in Members, RollPod(m) \/ PodReady(m) \/ PodCrashes(m) PROVE RecordInv'
  BY <1>26 DEF RollPod, PodReady, PodCrashes, Start
<1>27. ASSUME NEW v \in Versions, BackupEnds(v) PROVE RecordInv'
  BY <1>27 DEF BackupEnds
<1> HIDE DEF RecordInv, crd, cluster
<1>28. CASE ReconcileUpgrade
  BY <1>28, <1>4, <1>5, <1>6, <1>7, <1>8, <1>9, <1>10, <1>11, <1>12, <1>13
     DEF ReconcileUpgrade
<1>29. CASE Reconcile
  BY <1>29, <1>28, <1>1, <1>2, <1>3, <1>14, <1>15, <1>16, <1>17, <1>18, <1>19 DEF Reconcile
<1>30. CASE Environment
  BY <1>30, <1>23, <1>25, <1>26, <1>27 DEF Environment
<1> QED
  BY <1>0, <1>20, <1>21, <1>22, <1>24, <1>29, <1>30 DEF Next, Act

\* An upgrade in progress can always be finished, whatever the number of members, the
\* specs, the delays of the cache and the crashes: initUpgrade records the version to
\* roll back to before anything else, and no later write of any reconcile loses it.
THEOREM UpgradeRecord == Spec => []UpgradeRecordComplete
<1>1. Init => RecordInv
  BY CreatedRecord DEF Init, RecordInv
<1>2. RecordInv => UpgradeRecordComplete
  BY DEF RecordInv, Record, UpgradeRecordComplete
<1> QED
  BY <1>1, <1>2, TypeCorrect, RecordNext, PTL DEF Spec

-----------------------------------------------------------------------------
(* What the steps do to the parts the remaining proofs speak of. *)

\* Two statuses agree on the versions, and on the whole record of the upgrade.
SameVersions(s, t) ==
    t.version = s.version /\ t.eff = s.eff /\ t.prev = s.prev /\ t.rb = s.rb /\ t.fcv = s.fcv

SameUpgrade(s, t) ==
    SameVersions(s, t) /\ t.up = s.up /\ t.start = s.start /\ t.upGen = s.upGen

\* The steps of a reconcile after the StatefulSet.
Later == {"Ready", "RSInit", "Primary", "Admin", "Verify", "Status"}

\* A step that is not about upgrades: it leaves the resource's record alone, and either the
\* reconcile, too, or ends it, or moves it on past the StatefulSet.
Bystander ==
    /\ obj'.spec = obj.spec /\ obj'.gen = obj.gen /\ SameUpgrade(obj.st, obj'.st)
    /\ hist'.tries = hist.tries
    /\ \/ UNCHANGED <<obj, mdb, pc, desired>>
       \/ Return
       \/ /\ pc \in Later /\ pc' \in Later /\ desired' = desired
          /\ mdb' = obj' \/ UNCHANGED <<obj, mdb>>

Passes ==
    /\ pc = "Upgrade" /\ pc' = "Sts" /\ UNCHANGED <<obj, mdb, desired, hist>>
    /\ UpgradeNeeded
    /\ mdb.st.up = "Upgrading" \/ (mdb.st.up = "None" /\ AlreadyTerminal)

LEMMA Writing ==
    ASSUME NEW o \in Objects, NEW st
    PROVE  LET new == [o EXCEPT !.st = st]
           IN  new.st = st /\ new.spec = o.spec /\ new.gen = o.gen
BY DEF Objects

LEMMA SameIsReflexive == \A s : SameUpgrade(s, s)
BY DEF SameUpgrade, SameVersions

LEMMA FlagClosures ==
    ASSUME NEW o \in Objects
    PROVE  /\ SameUpgrade(o.st, setInitializing(o)) /\ SameUpgrade(o.st, setFailed(o))
           /\ SameUpgrade(o.st, setRSInitialized(o)) /\ SameUpgrade(o.st, setAdminCreated(o))
<1>0. o.st \in Status
    BY DEF Objects
<1>1. SameUpgrade(o.st, setInitializing(o)) /\ SameUpgrade(o.st, setFailed(o))
    BY <1>0 DEF Status, SameUpgrade, SameVersions, setInitializing, setFailed
<1>2. SameUpgrade(o.st, setRSInitialized(o)) /\ SameUpgrade(o.st, setAdminCreated(o))
    BY <1>0, Zenon DEF Status, SameUpgrade, SameVersions, setRSInitialized, setAdminCreated
<1> QED BY <1>1, <1>2

LEMMA UpgradeClosures ==
    ASSUME NEW o \in Objects
    PROVE  /\ LET t == clearUpgrade(o)
              IN  SameVersions(o.st, t) /\ t.up = "None" /\ t.upGen = o.st.upGen
           /\ abortUpgrade(o) = clearUpgrade(o)
           /\ LET t == setUpgrading(o)
              IN  SameVersions(o.st, t) /\ t.up = "Upgrading" /\ t.upGen = o.st.upGen
           /\ LET t == setRollingBack(o)
              IN  SameVersions(o.st, t) /\ t.up = "RollingBack" /\ t.upGen = o.st.upGen
           /\ LET t == setValidating(o)
              IN  /\ SameVersions(o.st, t) /\ t.up = "Validating" /\ t.upGen = o.st.upGen
                  /\ t.start = 0
           /\ LET t == failUpgrade(o)
              IN  SameVersions(o.st, t) /\ t.up = "None" /\ t.upGen = o.gen
<1>0. o.st \in Status
    BY DEF Objects
<1> USE <1>0 DEF Status, SameVersions
<1>1. LET t == clearUpgrade(o) IN SameVersions(o.st, t) /\ t.up = "None" /\ t.upGen = o.st.upGen
    BY DEF clearUpgrade
<1>2. abortUpgrade(o) = clearUpgrade(o)
    BY DEF clearUpgrade, abortUpgrade
<1>3. LET t == setUpgrading(o)
      IN  SameVersions(o.st, t) /\ t.up = "Upgrading" /\ t.upGen = o.st.upGen
    BY DEF setUpgrading
<1>4. LET t == setRollingBack(o)
      IN  SameVersions(o.st, t) /\ t.up = "RollingBack" /\ t.upGen = o.st.upGen
    BY DEF setRollingBack
<1>5. LET t == setValidating(o)
      IN  /\ SameVersions(o.st, t) /\ t.up = "Validating" /\ t.upGen = o.st.upGen
          /\ t.start = 0
    BY DEF setValidating
<1>6. LET t == failUpgrade(o) IN SameVersions(o.st, t) /\ t.up = "None" /\ t.upGen = o.gen
    BY DEF failUpgrade
<1> QED BY <1>1, <1>2, <1>3, <1>4, <1>5, <1>6, Zenon

\* What the other closures write.
LEMMA SeedClosure ==
    ASSUME NEW o \in Objects
    PROVE  LET t == seed(o)
           IN  /\ t.eff = (IF o.st.eff = NoVersion THEN desired ELSE o.st.eff)
               /\ t.version = (IF o.st.version = NoVersion THEN t.eff ELSE o.st.version)
               /\ t.prev = o.st.prev /\ t.rb = o.st.rb /\ t.fcv = o.st.fcv
               /\ t.up = o.st.up /\ t.upGen = o.st.upGen /\ t.start = o.st.start
<1>0. o.st \in Status
    BY DEF Objects
<1> QED BY <1>0 DEF seed, Status

LEMMA InitClosure ==
    ASSUME NEW o \in Objects
    PROVE  LET t == initUpgrade(o)
           IN  /\ t.eff = desired /\ t.prev = mdb.st.version /\ t.rb = FALSE
               /\ t.version = o.st.version /\ t.fcv = o.st.fcv /\ t.upGen = o.st.upGen
               /\ t.up = (IF o.spec.backup THEN "BackingUp" ELSE "Upgrading")
<1>0. o.st \in Status
    BY DEF Objects
<1> QED BY <1>0 DEF initUpgrade, Status

LEMMA CompleteClosure ==
    ASSUME NEW o \in Objects
    PROVE  LET t == completeUpgrade(o)
           IN  /\ t.eff = desired /\ t.version = desired /\ t.fcv = fcvMajorMinor(desired)
               /\ t.rb = FALSE /\ t.prev = o.st.prev /\ t.up = "None" /\ t.upGen = o.gen
<1>0. o.st \in Status
    BY DEF Objects
<1> QED BY <1>0 DEF completeUpgrade, Status

LEMMA FinishClosure ==
    ASSUME NEW o \in Objects
    PROVE  LET t == finishRollback(o)
           IN  /\ t.eff = o.st.prev /\ t.version = o.st.version /\ t.fcv = o.st.fcv
               /\ t.rb = TRUE /\ t.prev = o.st.prev /\ t.up = "None" /\ t.upGen = o.gen
<1>0. o.st \in Status
    BY DEF Objects
<1> QED BY <1>0 DEF finishRollback, Status

LEMMA ApplyClosure ==
    ASSUME NEW o \in Objects
    PROVE  LET t == applyStatus(o)
           IN  /\ t.version = o.spec.version /\ t.eff = o.st.eff /\ t.prev = o.st.prev
               /\ t.rb = o.st.rb /\ t.fcv = o.st.fcv /\ t.up = o.st.up
               /\ t.upGen = o.st.upGen /\ t.start = o.st.start
<1>0. o.st \in Status
    BY DEF Objects
<1> QED BY <1>0 DEF applyStatus, Status

\* Every step is one of these.
LEMMA ResourceStep ==
    ASSUME TypeOK, [Next]_vars
    PROVE  \/ Bystander \/ Passes \/ StartReconcile \/ ReconcilePhase \/ SeedVersions
           \/ NoUpgrade \/ InitUpgrade \/ BackupCompleted \/ BackupFailed \/ commitFCV
           \/ CompleteUpgrade \/ upgradeValidationFailed \/ reconcileUpgradeRollback
           \/ reconcileStatefulSet \/ SetValidating \/ updateStatus \/ EditSpec \/ Tick
<1>o. obj \in Objects
    BY DEF TypeOK
<1>h. \/ ~(Fault \/ Flake)
      \/ hist'.tries = hist.tries
    BY DEF Fault, Flake, TypeOK
<1>s. SameUpgrade(obj.st, obj.st)
    BY SameIsReflexive
<1> USE DEF crd, cluster
<1>0. CASE UNCHANGED vars
    BY <1>0, <1>s DEF vars, Bystander
<1>1. CASE UpgradeWaits \/ CreateBackup \/ FCVRefused
    BY <1>1, <1>s DEF UpgradeWaits, CreateBackup, FCVRefused, Bystander
<1>2. CASE AwaitSpecChange \/ KeepUpgrading
    BY <1>2 DEF AwaitSpecChange, KeepUpgrading, AtUpgrade, Goto, Passes
<1>3. CASE areAllPodsReady \/ WaitForPrimary \/ BootstrapAdminUser
    BY <1>3, <1>s
       DEF areAllPodsReady, WaitForPrimary, BootstrapAdminUser, Goto, Bystander, Later
<1>4. CASE reconcileReplicaSetInitialization
    <2>1. /\ obj' = [obj EXCEPT !.st = setRSInitialized(obj)] /\ mdb' = obj'
          /\ pc = "RSInit" /\ pc' = "Primary" /\ UNCHANGED <<desired, hist>>
        BY <1>4 DEF reconcileReplicaSetInitialization, WriteAndGoto, UpdateWithRetry
    <2> QED BY <2>1, <1>o, Writing, FlagClosures DEF Bystander, Later
<1>5. CASE verifyAdminUser
    <2>1. /\ obj' = [obj EXCEPT !.st = setAdminCreated(obj)] /\ mdb' = obj'
          /\ pc = "Verify" /\ pc' = "Status" /\ UNCHANGED <<desired, hist>>
        BY <1>5 DEF verifyAdminUser, WriteAndGoto, UpdateWithRetry
    <2> QED BY <2>1, <1>o, Writing, FlagClosures DEF Bystander, Later
<1>6. CASE ReconcileError
    <2>1. /\ obj' = [obj EXCEPT !.st = setFailed(obj)] /\ Return
          /\ hist' = hist \/ Fault
        BY <1>6 DEF ReconcileError, UpdateWithRetry
    <2> QED BY <2>1, <1>o, <1>h, Writing, FlagClosures DEF Bystander
<1>7. CASE Crash
    BY <1>7, <1>h, <1>s DEF Crash, Bystander
<1>8. CASE Environment
    <2>1. UNCHANGED <<obj, mdb, pc, desired>>
        BY <1>8 DEF Environment, SyncCache, StsObserve, RollPod, PodReady, PodCrashes, Start,
                    HookInitiate, HookCreateUser, HookSkips, BackupEnds
    <2>2. hist' = hist \/ Flake
        BY <1>8, Zenon DEF Environment, SyncCache, StsObserve, RollPod, PodReady, PodCrashes, Start,
                    HookInitiate, HookCreateUser, HookSkips, BackupEnds
    <2> QED BY <2>1, <2>2, <1>h, <1>s DEF Bystander
<1> QED
    BY <1>0, <1>1, <1>2, <1>3, <1>4, <1>5, <1>6, <1>7, <1>8
    DEF Next, Act, Reconcile, ReconcileUpgrade

\* The pods and their versions, the FCV, the backups: what moves them.
LEMMA ClusterStep ==
    ASSUME TypeOK, [Next]_vars
    PROVE  /\ \A m \in Members : \/ pods'[m].v = pods[m].v
                                 \/ pods[m].v # sts.template /\ pods'[m].v = sts.template
           /\ \/ mongo'.fcv = mongo.fcv /\ mongo'.rs = mongo.rs
              \/ ~mongo.rs /\ mongo'.rs /\ mongo'.fcv = fcvMajorMinor(pods[0].v)
              \/ commitFCV
           /\ sts' = sts \/ StsObserve \/ reconcileStatefulSet
           /\ \A v \in Versions : /\ backups[v] = "Completed" => backups'[v] = "Completed"
                                  /\ ~BackupsMayFail /\ backups[v] # "Failed"
                                         => backups'[v] # "Failed"
<1> USE DEF crd, cluster
<1>0. CASE UNCHANGED vars
    BY <1>0 DEF vars
<1>1. CASE UpgradeWaits \/ FCVRefused \/ AwaitSpecChange \/ KeepUpgrading \/ areAllPodsReady
           \/ WaitForPrimary \/ verifyAdminUser \/ ReconcileError \/ Crash
    BY <1>1, Zenon
       DEF UpgradeWaits, FCVRefused, AwaitSpecChange, KeepUpgrading, areAllPodsReady,
           WaitForPrimary, verifyAdminUser, ReconcileError, Crash
<1>2. CASE \/ StartReconcile \/ ReconcilePhase \/ SeedVersions \/ NoUpgrade \/ InitUpgrade
           \/ BackupCompleted \/ BackupFailed \/ CompleteUpgrade \/ upgradeValidationFailed
           \/ reconcileUpgradeRollback \/ SetValidating \/ updateStatus \/ EditSpec \/ Tick
           \/ SyncCache
    BY <1>2, Zenon DEF StartReconcile, ReconcilePhase, SeedVersions, NoUpgrade, InitUpgrade,
                BackupCompleted, BackupFailed, CompleteUpgrade, upgradeValidationFailed,
                reconcileUpgradeRollback, SetValidating, updateStatus, EditSpec, Tick, SyncCache
<1>3. CASE reconcileStatefulSet \/ StsObserve \/ commitFCV
    BY <1>3 DEF reconcileStatefulSet, StsObserve, commitFCV
<1>4. CASE CreateBackup
    <2>1. UNCHANGED <<sts, pods, mongo>> /\ backups[desired] = "none"
          /\ backups' = [backups EXCEPT ![desired] = "Pending"]
        BY <1>4 DEF CreateBackup
    <2> QED BY <2>1 DEF TypeOK
<1>5. CASE \E v \in Versions : BackupEnds(v)
    <2>1. PICK v \in Versions : BackupEnds(v)
        BY <1>5
    <2>2. UNCHANGED <<sts, pods, mongo>> /\ backups[v] = "Pending"
        BY <2>1 DEF BackupEnds
    <2>3. PICK r : /\ r \in {"Completed"} \cup (IF BackupsMayFail THEN {"Failed"} ELSE {})
                   /\ backups' = [backups EXCEPT ![v] = r]
        BY <2>1, Zenon DEF BackupEnds
    <2>4. ~BackupsMayFail => r # "Failed"
        BY <2>3
    <2> QED BY <2>2, <2>3, <2>4 DEF TypeOK
<1>6. CASE reconcileReplicaSetInitialization
    BY <1>6, Zenon DEF reconcileReplicaSetInitialization, TypeOK
<1>7. CASE BootstrapAdminUser \/ HookCreateUser \/ HookSkips
    BY <1>7, Zenon DEF BootstrapAdminUser, HookCreateUser, HookSkips, TypeOK
<1>8. CASE HookInitiate
    BY <1>8, Zenon DEF HookInitiate, TypeOK
<1>9. ASSUME NEW k \in Members, RollPod(k) \/ PodReady(k) \/ PodCrashes(k)
      PROVE  /\ \A m \in Members : \/ pods'[m].v = pods[m].v
                                   \/ pods[m].v # sts.template /\ pods'[m].v = sts.template
             /\ mongo'.fcv = mongo.fcv /\ mongo'.rs = mongo.rs /\ UNCHANGED <<sts, backups>>
    <2>1. CASE RollPod(k)
        BY <2>1 DEF RollPod, UpToDate, Start, TypeOK
    <2>2. CASE PodReady(k)
        BY <2>2 DEF PodReady, TypeOK
    <2>3. CASE PodCrashes(k)
        BY <2>3, Zenon DEF PodCrashes, Start, TypeOK
    <2> QED BY <1>9, <2>1, <2>2, <2>3
<1>10. CASE Environment
    BY <1>10, <1>2, <1>3, <1>5, <1>7, <1>8, <1>9 DEF Environment
<1> QED
    BY <1>0, <1>1, <1>2, <1>3, <1>4, <1>6, <1>7, <1>10
    DEF Next, Act, Reconcile, ReconcileUpgrade

\* The passing of time moves the start of the validation and nothing else.
LEMMA OlderKeeps ==
    ASSUME NEW o \in Objects
    PROVE  LET n == Older(o)
               b == IF o.st.start = NoTime \/ o.st.start = Timeout THEN o.st.start
                    ELSE o.st.start + 1
           IN  /\ n.spec = o.spec /\ n.gen = o.gen
               /\ n.st = [o.st EXCEPT !.start = b]
               /\ SameVersions(o.st, n.st) /\ n.st.up = o.st.up /\ n.st.upGen = o.st.upGen
               /\ n.st.start = b
<1>0. o.st \in Status
    BY DEF Objects
<1> DEFINE b == IF o.st.start = NoTime \/ o.st.start = Timeout THEN o.st.start
                ELSE o.st.start + 1
<1>1. Older(o) = [o EXCEPT !.st.start = b]
    BY DEF Older
<1> HIDE DEF b
<1>2. Older(o).spec = o.spec /\ Older(o).gen = o.gen /\ Older(o).st = [o.st EXCEPT !.start = b]
    BY <1>1 DEF Objects
<1>3. LET t == [o.st EXCEPT !.start = b]
      IN  SameVersions(o.st, t) /\ t.up = o.st.up /\ t.upGen = o.st.upGen /\ t.start = b
    BY <1>0 DEF Status, SameVersions
<1> QED BY <1>2, <1>3 DEF b

\* What an action of ResourceStep writes, and how it goes on.
LEMMA Effects ==
    ASSUME TypeOK
    PROVE  /\ SeedVersions => /\ pc = "Seed" /\ pc' = "Upgrade" /\ UNCHANGED <<desired, hist>>
                              /\ \/ /\ obj' = [obj EXCEPT !.st = seed(obj)] /\ mdb' = obj'
                                 \/ /\ mdb.st.eff # NoVersion /\ mdb.st.version # NoVersion
                                    /\ UNCHANGED <<obj, mdb>>
           /\ NoUpgrade => /\ pc = "Upgrade" /\ pc' = "Sts" /\ ~UpgradeNeeded
                           /\ UNCHANGED <<desired, hist>>
                           /\ \/ obj' = [obj EXCEPT !.st = clearUpgrade(obj)] /\ mdb' = obj'
                              \/ mdb.st.up = "None" /\ UNCHANGED <<obj, mdb>>
           /\ BackupCompleted => /\ obj' = [obj EXCEPT !.st = setUpgrading(obj)]
                                 /\ Return /\ hist' = hist
           /\ BackupFailed => /\ obj' = [obj EXCEPT !.st = clearUpgrade(obj)]
                              /\ Return /\ hist' = hist
           /\ CompleteUpgrade => /\ obj' = [obj EXCEPT !.st = completeUpgrade(obj)]
                                 /\ Return /\ hist' = hist
           /\ upgradeValidationFailed => /\ \/ obj' = [obj EXCEPT !.st = setRollingBack(obj)]
                                            \/ obj' = [obj EXCEPT !.st = failUpgrade(obj)]
                                         /\ Return /\ hist' = hist
           /\ reconcileUpgradeRollback =>
                  /\ \/ /\ mdb.st.prev = NoVersion
                        /\ obj' = [obj EXCEPT !.st = clearUpgrade(obj)]
                     \/ obj' = [obj EXCEPT !.st = finishRollback(obj)]
                     \/ obj' = [obj EXCEPT !.st = failUpgrade(obj)]
                  /\ Return /\ hist' = hist
           /\ SetValidating => /\ obj' = [obj EXCEPT !.st = setValidating(obj)]
                               /\ Return /\ hist' = hist
<1>0. obj \in Objects
    BY DEF TypeOK
<1>1. abortUpgrade(obj) = clearUpgrade(obj)
    BY <1>0, UpgradeClosures
<1> QED
    BY <1>1 DEF SeedVersions, NoUpgrade, BackupCompleted, BackupFailed, CompleteUpgrade,
                upgradeValidationFailed, reconcileUpgradeRollback, SetValidating,
                WriteAndGoto, WriteAndReturn, UpdateWithRetry, Goto, crd

\* updateStatus records the version the spec asks for.
LEMMA UpdateStatusEffect ==
    ASSUME TypeOK, updateStatus
    PROVE  /\ obj'.spec = obj.spec /\ obj'.gen = obj.gen
           /\ obj'.st.version = obj.spec.version /\ obj'.st.eff = obj.st.eff
           /\ obj'.st.prev = obj.st.prev /\ obj'.st.rb = obj.st.rb /\ obj'.st.fcv = obj.st.fcv
           /\ obj'.st.up = obj.st.up /\ obj'.st.upGen = obj.st.upGen
           /\ pc = "Status" /\ Return /\ hist' = hist
<1> DEFINE seen == [obj EXCEPT !.st.phase = ObservedPhase(obj.st)]
<1>1. obj \in Objects /\ obj.st \in Status
    BY DEF TypeOK, Objects
<1>2. seen \in Objects /\ seen.spec = obj.spec /\ seen.gen = obj.gen
    BY <1>1 DEF ObservedPhase, Objects, Status
<1>3. SameUpgrade(obj.st, seen.st)
    BY <1>1 DEF Objects, Status, SameUpgrade, SameVersions
<1>4. PICK base \in {obj, seen} : obj' = [base EXCEPT !.st = applyStatus(base)]
    BY ZenonT(60) DEF updateStatus
<1> HIDE DEF seen
<1>5. /\ base \in Objects /\ base.spec = obj.spec /\ base.gen = obj.gen
      /\ SameUpgrade(obj.st, base.st)
    BY <1>1, <1>2, <1>3, <1>4, SameIsReflexive
<1>6. obj'.st = applyStatus(base) /\ obj'.spec = obj.spec /\ obj'.gen = obj.gen
    BY <1>4, <1>5, Writing
<1>7. LET t == applyStatus(base)
      IN  /\ t.version = base.spec.version /\ t.eff = base.st.eff /\ t.prev = base.st.prev
          /\ t.rb = base.st.rb /\ t.fcv = base.st.fcv /\ t.up = base.st.up
          /\ t.upGen = base.st.upGen
    BY <1>5, ApplyClosure
<1>8. pc = "Status" /\ Return /\ hist' = hist
    BY DEF updateStatus
<1> QED BY <1>5, <1>6, <1>7, <1>8 DEF SameUpgrade, SameVersions

LEMMA EditEffect ==
    ASSUME TypeOK, EditSpec
    PROVE  /\ obj'.st = obj.st /\ obj'.gen = obj.gen + 1 /\ hist'.tries = 0
           /\ Webhook => IsValidUpgradePath(obj.spec.version, obj'.spec.version)
           /\ Edits = "Settled" => Settled
           /\ UNCHANGED <<mdb, pc, desired, sts, pods, mongo, backups>>
<1>1. PICK s \in Specs : /\ Webhook => IsValidUpgradePath(obj.spec.version, s.version)
                         /\ obj' = [obj EXCEPT !.spec = s, !.gen = @ + 1]
                         /\ hist' = [hist EXCEPT !.tries = 0]
    BY Zenon DEF EditSpec
<1> DEFINE n == obj.gen + 1
<1>2. obj' = [obj EXCEPT !.spec = s, !.gen = n]
    BY <1>1
<1> HIDE DEF n
<1>3. obj'.st = obj.st /\ obj'.gen = n /\ obj'.spec = s
    BY <1>2, Zenon DEF TypeOK, Objects
<1>4. hist'.tries = 0
    BY <1>1 DEF TypeOK
<1> QED BY <1>1, <1>3, <1>4 DEF EditSpec, cluster, n

\* With an up-to-date cache a reconcile knows the status; the spec may have changed since.
Fresh ==
    pc # "Idle" => /\ mdb.st = obj.st /\ mdb.gen <= obj.gen
                   /\ mdb.gen = obj.gen => mdb.spec = obj.spec

LEMMA FreshNext ==
    ASSUME FreshCache, TypeOK, Fresh, [Next]_vars
    PROVE  Fresh'
<1>o. obj \in Objects /\ mdb \in Objects /\ obj.gen \in Nat /\ mdb.gen \in Nat
    BY DEF TypeOK, Objects
<1>r. Return => Fresh'
    BY DEF Return, Fresh
<1>n. obj'.gen \in Nat
    BY NextType DEF TypeOK, Objects
<1>w. mdb' = obj' => Fresh'
    BY <1>n DEF Fresh
<1>u. UNCHANGED <<obj, mdb>> /\ pc # "Idle" => Fresh'
    BY DEF Fresh
<1>1. CASE Bystander
    BY <1>1, <1>r, <1>w DEF Bystander, Fresh, Later
<1>2. CASE Passes
    BY <1>2, <1>u DEF Passes
<1>3. CASE StartReconcile
    BY <1>3, <1>w DEF StartReconcile, crd
<1>4. CASE ReconcilePhase
    BY <1>4, <1>w, <1>u DEF ReconcilePhase
<1>5. CASE SeedVersions \/ NoUpgrade
    BY <1>5, <1>w, <1>u, Effects
<1>6. CASE \/ BackupCompleted \/ BackupFailed \/ CompleteUpgrade \/ upgradeValidationFailed
           \/ reconcileUpgradeRollback \/ SetValidating
    BY <1>6, <1>r, Effects
<1>7. CASE InitUpgrade \/ updateStatus
    BY <1>7, <1>r DEF InitUpgrade, updateStatus
<1>8. CASE commitFCV \/ reconcileStatefulSet
    BY <1>8, <1>u DEF commitFCV, reconcileStatefulSet, AtValidation, AtUpgrade, Goto, crd
<1>9. CASE EditSpec
    <2>1. obj'.st = obj.st /\ obj'.gen = obj.gen + 1 /\ UNCHANGED <<mdb, pc>>
        BY <1>9, EditEffect
    <2> QED BY <2>1, <1>o DEF Fresh
<1>10. CASE Tick
    <2>1. obj' = Older(obj) /\ mdb' = Older(mdb) /\ pc' = pc
        BY <1>10 DEF Tick
    <2> DEFINE A(st) == [st EXCEPT !.start = IF st.start = NoTime \/ st.start = Timeout
                                             THEN st.start ELSE st.start + 1]
    <2>2. obj'.st = A(obj.st) /\ mdb'.st = A(mdb.st)
        BY <2>1, <1>o, OlderKeeps
    <2>3. /\ obj'.spec = obj.spec /\ obj'.gen = obj.gen
          /\ mdb'.spec = mdb.spec /\ mdb'.gen = mdb.gen
        BY <2>1, <1>o, OlderKeeps, Zenon
    <2> HIDE DEF A
    <2> QED BY <2>1, <2>2, <2>3 DEF Fresh
<1> QED
    BY <1>1, <1>2, <1>3, <1>4, <1>5, <1>6, <1>7, <1>8, <1>9, <1>10, ResourceStep

SameSpec == obj'.spec = obj.spec /\ obj'.gen = obj.gen

\* The record of the upgrade after each of the writes.
LEMMA Outcomes ==
    ASSUME TypeOK, Fresh
    PROVE  /\ SeedVersions =>
                  /\ SameSpec /\ obj'.st.prev = obj.st.prev /\ obj'.st.rb = obj.st.rb
                  /\ obj'.st.fcv = obj.st.fcv /\ obj'.st.up = obj.st.up
                  /\ obj'.st.upGen = obj.st.upGen /\ obj'.st.start = obj.st.start
                  /\ obj'.st.eff = (IF obj.st.eff = NoVersion THEN desired ELSE obj.st.eff)
                  /\ obj'.st.version = (IF obj.st.version = NoVersion THEN obj'.st.eff
                                        ELSE obj.st.version)
           /\ NoUpgrade =>
                  /\ SameSpec /\ SameVersions(obj.st, obj'.st)
                  /\ obj'.st.up = "None" /\ obj'.st.upGen = obj.st.upGen
           /\ InitUpgrade =>
                  /\ SameSpec /\ obj'.st.eff = desired /\ obj'.st.prev = obj.st.version
                  /\ obj'.st.rb = FALSE /\ obj'.st.version = obj.st.version
                  /\ obj'.st.fcv = obj.st.fcv /\ obj'.st.upGen = obj.st.upGen
                  /\ obj'.st.up = (IF obj.spec.backup THEN "BackingUp" ELSE "Upgrading")
           /\ BackupCompleted =>
                  /\ SameSpec /\ SameVersions(obj.st, obj'.st)
                  /\ obj'.st.up = "Upgrading" /\ obj'.st.upGen = obj.st.upGen
           /\ BackupFailed =>
                  /\ SameSpec /\ SameVersions(obj.st, obj'.st)
                  /\ obj'.st.up = "None" /\ obj'.st.upGen = obj.st.upGen
           /\ CompleteUpgrade =>
                  /\ SameSpec /\ obj'.st.eff = desired /\ obj'.st.version = desired
                  /\ obj'.st.fcv = fcvMajorMinor(desired) /\ obj'.st.rb = FALSE
                  /\ obj'.st.prev = obj.st.prev /\ obj'.st.up = "None"
                  /\ obj'.st.upGen = obj.gen
           /\ upgradeValidationFailed =>
                  /\ SameSpec /\ SameVersions(obj.st, obj'.st)
                  /\ \/ obj'.st.up = "RollingBack" /\ obj'.st.upGen = obj.st.upGen
                     \/ obj'.st.up = "None" /\ obj'.st.upGen = obj.gen
           /\ reconcileUpgradeRollback =>
                  /\ SameSpec /\ obj'.st.version = obj.st.version
                  /\ obj'.st.prev = obj.st.prev /\ obj'.st.fcv = obj.st.fcv
                  /\ obj'.st.up = "None"
                  /\ \/ /\ obj.st.prev = NoVersion /\ obj'.st.upGen = obj.st.upGen
                        /\ SameVersions(obj.st, obj'.st)
                     \/ /\ obj'.st.upGen = obj.gen
                        /\ SameVersions(obj.st, obj'.st)
                     \/ /\ obj'.st.upGen = obj.gen
                        /\ obj'.st.eff = obj.st.prev /\ obj'.st.rb = TRUE
           /\ SetValidating =>
                  /\ SameSpec /\ SameVersions(obj.st, obj'.st)
                  /\ obj'.st.up = "Validating" /\ obj'.st.upGen = obj.st.upGen
                  /\ obj'.st.start = 0
<1>o. obj \in Objects
    BY DEF TypeOK
<1>w. ASSUME NEW st, obj' = [obj EXCEPT !.st = st] PROVE SameSpec /\ obj'.st = st
    BY <1>w, <1>o, Writing DEF SameSpec
<1>f. pc # "Idle" => mdb.st = obj.st
    BY DEF Fresh
<1>u. obj' = obj => SameSpec /\ SameVersions(obj.st, obj'.st)
    BY DEF SameSpec, SameVersions
<1>1. ASSUME SeedVersions
      PROVE  /\ SameSpec /\ obj'.st.prev = obj.st.prev /\ obj'.st.rb = obj.st.rb
             /\ obj'.st.fcv = obj.st.fcv /\ obj'.st.up = obj.st.up
             /\ obj'.st.upGen = obj.st.upGen /\ obj'.st.start = obj.st.start
             /\ obj'.st.eff = (IF obj.st.eff = NoVersion THEN desired ELSE obj.st.eff)
             /\ obj'.st.version = (IF obj.st.version = NoVersion THEN obj'.st.eff
                                   ELSE obj.st.version)
    <2>1. CASE obj' = [obj EXCEPT !.st = seed(obj)]
        <3>1. SameSpec /\ obj'.st = seed(obj)
            BY <2>1, <1>w
        <3> HIDE <2>1, <1>w, <1>f, <1>u, <1>1
        <3> QED BY <3>1, <1>o, SeedClosure, Zenon
    <2>2. CASE obj' = obj /\ mdb.st.eff # NoVersion /\ mdb.st.version # NoVersion
        BY <1>1, <2>2, <1>f, <1>u, Effects
    <2> QED BY <1>1, <2>1, <2>2, Effects
<1>2. ASSUME NoUpgrade
      PROVE  /\ SameSpec /\ SameVersions(obj.st, obj'.st)
             /\ obj'.st.up = "None" /\ obj'.st.upGen = obj.st.upGen
    <2>1. CASE obj' = [obj EXCEPT !.st = clearUpgrade(obj)]
        BY <2>1, <1>o, <1>w, UpgradeClosures
    <2>2. CASE obj' = obj /\ mdb.st.up = "None"
        BY <1>2, <2>2, <1>f, <1>u, Effects
    <2> QED BY <1>2, <2>1, <2>2, Effects
<1>3. ASSUME InitUpgrade
      PROVE  /\ SameSpec /\ obj'.st.eff = desired /\ obj'.st.prev = obj.st.version
             /\ obj'.st.rb = FALSE /\ obj'.st.version = obj.st.version
             /\ obj'.st.fcv = obj.st.fcv /\ obj'.st.upGen = obj.st.upGen
             /\ obj'.st.up = (IF obj.spec.backup THEN "BackingUp" ELSE "Upgrading")
    <2>1. obj' = [obj EXCEPT !.st = initUpgrade(obj)] /\ mdb.st = obj.st
        BY <1>3, <1>f DEF InitUpgrade, UpdateWithRetry, AtUpgrade
    <2>2. SameSpec /\ obj'.st = initUpgrade(obj)
        BY <2>1, <1>w
    <2> HIDE <1>w, <1>f, <1>u, <1>3
    <2> QED BY <2>1, <2>2, <1>o, InitClosure, Zenon
<1>4. ASSUME BackupCompleted
      PROVE  /\ SameSpec /\ SameVersions(obj.st, obj'.st)
             /\ obj'.st.up = "Upgrading" /\ obj'.st.upGen = obj.st.upGen
    <2>1. SameSpec /\ obj'.st = setUpgrading(obj)
        BY <1>4, <1>w, Effects
    <2> QED BY <2>1, <1>o, UpgradeClosures, Zenon
<1>8. ASSUME BackupFailed
      PROVE  /\ SameSpec /\ SameVersions(obj.st, obj'.st)
             /\ obj'.st.up = "None" /\ obj'.st.upGen = obj.st.upGen
    <2>1. SameSpec /\ obj'.st = clearUpgrade(obj)
        BY <1>8, <1>w, Effects
    <2> QED BY <2>1, <1>o, UpgradeClosures, Zenon
<1>9. ASSUME SetValidating
      PROVE  /\ SameSpec /\ SameVersions(obj.st, obj'.st)
             /\ obj'.st.up = "Validating" /\ obj'.st.start = 0 /\ obj'.st.upGen = obj.st.upGen
    <2>1. SameSpec /\ obj'.st = setValidating(obj)
        BY <1>9, <1>w, Effects
    <2> QED BY <2>1, <1>o, UpgradeClosures, Zenon
<1>5. ASSUME CompleteUpgrade
      PROVE  /\ SameSpec /\ obj'.st.eff = desired /\ obj'.st.version = desired
             /\ obj'.st.fcv = fcvMajorMinor(desired) /\ obj'.st.rb = FALSE
             /\ obj'.st.prev = obj.st.prev /\ obj'.st.up = "None" /\ obj'.st.upGen = obj.gen
    <2>1. SameSpec /\ obj'.st = completeUpgrade(obj)
        BY <1>5, <1>w, Effects
    <2> QED BY <2>1, <1>o, CompleteClosure, Zenon
<1>6. ASSUME upgradeValidationFailed
      PROVE  /\ SameSpec /\ SameVersions(obj.st, obj'.st)
             /\ \/ obj'.st.up = "RollingBack" /\ obj'.st.upGen = obj.st.upGen
                \/ obj'.st.up = "None" /\ obj'.st.upGen = obj.gen
    <2>1. SameSpec /\ obj'.st \in {setRollingBack(obj), failUpgrade(obj)}
        BY <1>6, <1>w, Effects
    <2>2. CASE obj'.st = setRollingBack(obj)
        BY <2>1, <2>2, <1>o, UpgradeClosures, Zenon
    <2>3. CASE obj'.st = failUpgrade(obj)
        BY <2>1, <2>3, <1>o, UpgradeClosures, Zenon
    <2> QED BY <2>1, <2>2, <2>3
<1>7. ASSUME reconcileUpgradeRollback
      PROVE  /\ SameSpec /\ obj'.st.version = obj.st.version
             /\ obj'.st.prev = obj.st.prev /\ obj'.st.fcv = obj.st.fcv /\ obj'.st.up = "None"
             /\ \/ /\ obj.st.prev = NoVersion /\ obj'.st.upGen = obj.st.upGen
                   /\ SameVersions(obj.st, obj'.st)
                \/ obj'.st.upGen = obj.gen /\ SameVersions(obj.st, obj'.st)
                \/ /\ obj'.st.upGen = obj.gen
                   /\ obj'.st.eff = obj.st.prev /\ obj'.st.rb = TRUE
    <2>0. mdb.st = obj.st
        BY <1>7, <1>f DEF reconcileUpgradeRollback, AtUpgrade
    <2>1. CASE mdb.st.prev = NoVersion /\ obj' = [obj EXCEPT !.st = clearUpgrade(obj)]
        BY <2>0, <2>1, <1>o, <1>w, UpgradeClosures DEF SameVersions
    <2>2. CASE obj' = [obj EXCEPT !.st = finishRollback(obj)]
        <3>1. SameSpec /\ obj'.st = finishRollback(obj)
            BY <2>2, <1>w
        <3> QED BY <3>1, <1>o, FinishClosure, Zenon
    <2>3. CASE obj' = [obj EXCEPT !.st = failUpgrade(obj)]
        BY <2>3, <1>o, <1>w, UpgradeClosures DEF SameVersions
    <2> QED BY <1>7, <2>1, <2>2, <2>3, Effects, Zenon
<1> QED BY <1>1, <1>2, <1>3, <1>4, <1>5, <1>6, <1>7, <1>8, <1>9, Zenon

\* ReconcilePhase reads the version the rest of the reconcile works for.
LEMMA PhaseEffect ==
    ASSUME TypeOK, Fresh, ReconcilePhase
    PROVE  /\ SameSpec /\ SameUpgrade(obj.st, obj'.st) /\ hist' = hist
           /\ mdb' = obj' \/ UNCHANGED <<obj, mdb>>
           /\ pc = "Phase" /\ pc' = "Seed" /\ desired' = mdb'.spec.version
<1>1. obj \in Objects
    BY DEF TypeOK
<1>2. CASE obj' = [obj EXCEPT !.st = setInitializing(obj)] /\ mdb' = obj'
    BY <1>1, <1>2, Writing, FlagClosures DEF SameSpec, ReconcilePhase
<1>3. CASE UNCHANGED <<obj, mdb>>
    BY <1>3, SameIsReflexive DEF SameSpec, ReconcilePhase
<1> QED BY <1>2, <1>3 DEF ReconcilePhase, UpdateWithRetry

LEMMA VersionsAreNamed == NoVersion \notin Versions
BY ConstantsAssumption DEF Versions

LEMMA SpecVersions == TypeOK => obj.spec.version \in Versions /\ mdb.spec.version \in Versions
BY DEF TypeOK, Objects, Versions

LEMMA TemplateStep ==
    ASSUME TypeOK, [Next]_vars
    PROVE  reconcileStatefulSet \/ sts'.template = sts.template
BY ClusterStep, Zenon DEF StsObserve, TypeOK

\* reconcileStatefulSet, for a reconcile that knows the resource.
LEMMA StsEffect ==
    ASSUME TypeOK, reconcileStatefulSet
    PROVE  /\ UNCHANGED <<obj, mdb, desired, hist, pods, mongo, backups>> /\ pc = "Sts"
           /\ pc' = IF mdb.st.up = "Upgrading" THEN "Validating" ELSE "Ready"
           /\ sts'.template = effectiveMongoDBVersion(mdb.spec, mdb.st.eff)
           /\ sts'.updated = sts.updated
           /\ sts'.observed <=> sts.observed /\ sts'.template = sts.template
<1> DEFINE v == effectiveMongoDBVersion(mdb.spec, mdb.st.eff)
           b == sts.observed /\ sts.template = v
<1>1. /\ UNCHANGED <<obj, mdb, desired, hist, pods, mongo, backups>> /\ pc = "Sts"
      /\ pc' = IF mdb.st.up = "Upgrading" THEN "Validating" ELSE "Ready"
      /\ sts' = [sts EXCEPT !.template = v, !.observed = b]
    BY DEF reconcileStatefulSet, Goto, crd
<1> HIDE DEF v, b
<1>2. sts'.template = v /\ sts'.updated = sts.updated /\ sts'.observed = b
    BY <1>1, Zenon DEF TypeOK
<1> QED BY <1>1, <1>2, Zenon DEF v, b

-----------------------------------------------------------------------------
(***************************************************************************)
(* What MongoDBReconciler promises of an upgrade: a generation is tried    *)
(* once, a version is backed up before it is rolled out, it is rolled out  *)
(* before it is declared complete, and the feature compatibility version   *)
(* follows it.  Each holds under conditions, which its theorem states.     *)
(***************************************************************************)

(* One attempt for each generation. *)

\* At first nothing runs, no version is recorded and no upgrade was tried.
LEMMA NothingYet ==
    ASSUME Init
    PROVE  /\ pc = "Idle" /\ sts.template = NoVersion /\ sts.updated = {} /\ ~mongo.rs
           /\ mongo.fcv = fcvMajorMinor(NoVersion) /\ hist.tries = 0
           /\ obj.gen = 1 /\ obj.st.up = "None" /\ obj.st.upGen = 0 /\ ~obj.st.rb
           /\ obj.st.fcv = fcvMajorMinor(NoVersion)
           /\ obj.st.eff = NoVersion /\ obj.st.prev = NoVersion /\ obj.st.version = NoVersion
           /\ \A m \in Members : pods[m].v = NoVersion
           /\ \A v \in Versions : backups[v] # "Failed"
<1>1. obj.gen = 1 /\ obj.st = NewStatus /\ pc = "Idle"
    BY Zenon DEF Init, Created
<1>2. /\ NewStatus.up = "None" /\ NewStatus.upGen = 0 /\ NewStatus.rb = FALSE
      /\ NewStatus.fcv = fcvMajorMinor(NoVersion) /\ NewStatus.eff = NoVersion
      /\ NewStatus.prev = NoVersion /\ NewStatus.version = NoVersion
    BY Zenon DEF NewStatus
<1>3. /\ sts.template = NoVersion /\ sts.updated = {} /\ ~mongo.rs
      /\ mongo.fcv = fcvMajorMinor(NoVersion) /\ hist.tries = 0
    BY Zenon DEF Init
<1>4. /\ \A m \in Members : pods[m].v = NoVersion
      /\ \A v \in Versions : backups[v] # "Failed"
    BY Zenon DEF Init
<1> QED BY <1>1, <1>2, <1>3, <1>4, Zenon

\* The attempt of this generation is under way, is over, or has become needless.
Spent == obj.st.up # "None" \/ obj.st.upGen = obj.gen \/ obj.st.version = obj.spec.version

\* After an attempt no reconcile works for another generation or another version.
AttemptInv ==
    /\ hist.tries \in {0, 1}
    /\ hist.tries = 1 => /\ Spent /\ obj.st.version # NoVersion
                         /\ pc # "Idle" => mdb.gen = obj.gen
                         /\ pc \notin {"Idle", "Phase"} => desired = obj.spec.version
    /\ \A v \in Versions : backups[v] # "Failed"

LEMMA AttemptNext ==
    ASSUME FreshCache, ~BackupsMayFail, TypeOK, Fresh, RecordInv, AttemptInv, [Next]_vars
    PROVE  AttemptInv'
<1>o. /\ obj.spec.version \in Versions /\ NoVersion \notin Versions
      /\ obj.gen \in 1 .. MaxGen /\ mdb.gen \in 1 .. MaxGen /\ hist.tries \in 0 .. 2
    BY SpecVersions, VersionsAreNamed DEF TypeOK, Objects
<1>b. \A v \in Versions : backups'[v] # "Failed"
    BY ClusterStep DEF AttemptInv
<1>f. pc # "Idle" => /\ mdb.st = obj.st
                     /\ mdb.gen = obj.gen => mdb.spec = obj.spec
    BY DEF Fresh
<1>a. /\ hist.tries \in {0, 1}
      /\ hist.tries = 1 => /\ Spent /\ obj.st.version # NoVersion
                           /\ pc # "Idle" => mdb.gen = obj.gen
                           /\ pc \notin {"Idle", "Phase"} => desired = obj.spec.version
    BY DEF AttemptInv
\* A step that keeps the version, or the attempt, and ends the reconcile or goes on with it.
<1>s. ASSUME SameSpec, hist'.tries = hist.tries,
             hist.tries = 1 => Spent' /\ obj'.st.version # NoVersion,
             Return \/ (/\ mdb' = obj' \/ UNCHANGED <<obj, mdb>>
                        /\ pc \notin {"Idle", "Phase"} /\ desired' = desired)
      PROVE  AttemptInv'
    <2>1. CASE Return
        BY <1>s, <1>a, <1>b, <2>1 DEF AttemptInv, Return
    <2>2. CASE /\ mdb' = obj' \/ UNCHANGED <<obj, mdb>>
               /\ pc \notin {"Idle", "Phase"} /\ desired' = desired
        BY <1>s, <1>a, <1>b, <2>2 DEF AttemptInv, SameSpec
    <2> QED BY <1>s, <2>1, <2>2
<1>d. pc \notin {"Idle", "Phase"} => desired \in Versions
    BY DEF RecordInv
<1>1. CASE Bystander
    <2>1. /\ SameSpec /\ hist'.tries = hist.tries
          /\ hist.tries = 1 => Spent' /\ obj'.st.version # NoVersion
        BY <1>1, <1>a DEF Bystander, SameSpec, SameUpgrade, SameVersions, Spent
    <2>2. CASE UNCHANGED <<obj, mdb, pc, desired>>
        BY <2>1, <2>2, <1>a, <1>b DEF AttemptInv
    <2> QED BY <1>1, <2>1, <2>2, <1>s DEF Bystander, Later
<1>2. CASE Passes \/ commitFCV \/ reconcileStatefulSet
    <2>1. UNCHANGED <<obj, mdb, desired, hist>> /\ pc \notin {"Idle", "Phase"}
        BY <1>2 DEF Passes, commitFCV, reconcileStatefulSet, AtValidation, AtUpgrade, Goto, crd
    <2> QED BY <2>1, <1>a, <1>s DEF SameSpec, Spent
<1>3. CASE StartReconcile
    BY <1>3, <1>a, <1>b DEF StartReconcile, crd, AttemptInv, Spent
<1>4. CASE ReconcilePhase
    <2>1. /\ SameSpec /\ SameUpgrade(obj.st, obj'.st) /\ hist' = hist
          /\ mdb' = obj' \/ UNCHANGED <<obj, mdb>>
          /\ pc = "Phase" /\ pc' = "Seed" /\ desired' = mdb'.spec.version
        BY <1>4, PhaseEffect
    <2>2. hist.tries = 1 => Spent' /\ obj'.st.version # NoVersion
        BY <2>1, <1>a DEF SameSpec, SameUpgrade, SameVersions, Spent
    <2>3. hist.tries = 1 => mdb'.gen = obj'.gen /\ mdb'.spec.version = obj'.spec.version
        BY <2>1, <1>a, <1>f
    <2> QED BY <2>1, <2>2, <2>3, <1>a, <1>b DEF AttemptInv
<1>5. CASE SeedVersions
    <2>1. /\ SameSpec /\ obj'.st.up = obj.st.up /\ obj'.st.upGen = obj.st.upGen
          /\ obj.st.version # NoVersion => obj'.st.version = obj.st.version
        BY <1>5, Outcomes
    <2>2. hist.tries = 1 => Spent' /\ obj'.st.version # NoVersion
        BY <2>1, <1>a, <1>o DEF SameSpec, Spent
    <2> QED BY <1>5, <2>1, <2>2, <1>s, Effects, Zenon
<1>6. CASE NoUpgrade
    <2>1. /\ SameSpec /\ SameVersions(obj.st, obj'.st)
          /\ pc = "Upgrade" /\ ~UpgradeNeeded /\ UNCHANGED <<desired, hist>>
          /\ mdb' = obj' \/ UNCHANGED <<obj, mdb>>
        BY <1>6, Outcomes, Effects
    <2>2. hist.tries = 1 => Spent' /\ obj'.st.version # NoVersion
        BY <2>1, <1>a, <1>f DEF SameSpec, SameVersions, Spent, UpgradeNeeded
    <2> QED BY <2>1, <2>2, <1>s
<1>7. CASE InitUpgrade
    <2>1. /\ mdb.st.up = "None" /\ ~AlreadyTerminal /\ UpgradeNeeded
          /\ pc = "Upgrade" /\ Return
          /\ hist' = [hist EXCEPT !.tries = IF @ < 2 THEN @ + 1 ELSE @]
        BY <1>7 DEF InitUpgrade, AtUpgrade
    <2>2. hist.tries = 0
        <3>1. ~(hist.tries = 1)
            BY <2>1, <1>a, <1>f, <1>o DEF Spent, AlreadyTerminal, UpgradeNeeded
        <3> QED BY <3>1, <1>a
    <2>3. hist'.tries = 1
        BY <2>1, <2>2 DEF TypeOK
    <2>4. Spent' /\ obj'.st.version # NoVersion
        BY <1>7, <2>1, <1>f, Outcomes DEF Spent, UpgradeNeeded
    <2> QED BY <2>1, <2>3, <2>4, <1>b DEF AttemptInv, Return
<1>8. CASE BackupFailed
    <2>1. pc = "Upgrade" /\ backups[desired] = "Failed"
        BY <1>8 DEF BackupFailed, AtUpgrade
    <2> QED BY <2>1, <1>d DEF AttemptInv
<1>9. CASE BackupCompleted \/ upgradeValidationFailed \/ SetValidating
    <2>1. /\ SameSpec /\ SameVersions(obj.st, obj'.st)
          /\ obj'.st.up # "None" \/ obj'.st.upGen = obj.gen
        BY <1>9, Outcomes
    <2>2. hist.tries = 1 => Spent' /\ obj'.st.version # NoVersion
        BY <2>1, <1>a DEF SameSpec, SameVersions, Spent
    <2> QED BY <1>9, <2>1, <2>2, <1>s, Effects, Zenon
<1>10. CASE CompleteUpgrade
    <2>1. SameSpec /\ obj'.st.upGen = obj.gen /\ obj'.st.version = desired
        BY <1>10, Outcomes
    <2>2. desired \in Versions
        BY <1>10, <1>d DEF CompleteUpgrade
    <2>3. Spent' /\ obj'.st.version # NoVersion
        BY <2>1, <2>2, <1>o DEF SameSpec, Spent
    <2> QED BY <1>10, <2>1, <2>3, <1>s, Effects, Zenon
<1>11. CASE reconcileUpgradeRollback
    <2>1. mdb.st = obj.st /\ mdb.st.up = "RollingBack"
        BY <1>11, <1>f DEF reconcileUpgradeRollback, AtUpgrade
    <2>2. obj.st.prev # NoVersion
        BY <2>1 DEF RecordInv, Record
    <2>3. SameSpec /\ obj'.st.upGen = obj.gen /\ obj'.st.version = obj.st.version
        BY <1>11, <2>2, Outcomes, Zenon
    <2>4. hist.tries = 1 => Spent' /\ obj'.st.version # NoVersion
        BY <2>3, <1>a DEF SameSpec, Spent
    <2> QED BY <1>11, <2>3, <2>4, <1>s, Effects
<1>12. CASE updateStatus
    <2>1. /\ SameSpec /\ obj'.st.version = obj.spec.version /\ Return /\ hist' = hist
        BY <1>12, UpdateStatusEffect DEF SameSpec
    <2>2. Spent' /\ obj'.st.version # NoVersion
        BY <2>1, <1>o DEF SameSpec, Spent
    <2> QED BY <2>1, <2>2, <1>s
<1>13. CASE EditSpec
    <2>1. hist'.tries = 0
        BY <1>13, EditEffect
    <2> QED BY <2>1, <1>b DEF AttemptInv
<1>14. CASE Tick
    <2>1. obj' = Older(obj) /\ mdb' = Older(mdb) /\ UNCHANGED <<pc, desired, hist>>
        BY <1>14 DEF Tick
    <2>2. /\ SameSpec /\ SameVersions(obj.st, obj'.st) /\ obj'.st.up = obj.st.up
          /\ obj'.st.upGen = obj.st.upGen /\ mdb'.gen = mdb.gen
        BY <2>1, OlderKeeps, Zenon DEF TypeOK, SameSpec
    <2> QED BY <2>1, <2>2, <1>a, <1>b DEF AttemptInv, SameSpec, SameVersions, Spent
<1> QED
    BY <1>1, <1>2, <1>3, <1>4, <1>5, <1>6, <1>7, <1>8, <1>9, <1>10, <1>11, <1>12, <1>13,
       <1>14, ResourceStep

\* When the user waits for one edit to settle before the next, a reconcile knows the whole
\* resource, and a generation that is marked, or has an upgrade under way, was tried.
SettledInv ==
    /\ pc # "Idle" => mdb = obj
    /\ pc \notin {"Idle", "Phase"} => desired = obj.spec.version
    /\ pc = "Complete" => obj.st.up = "Validating"
    /\ obj.st.upGen <= obj.gen
    /\ obj.st.up # "None" \/ obj.st.upGen = obj.gen => hist.tries > 0

LEMMA SettledNext ==
    ASSUME FreshCache, Edits = "Settled", TypeOK, RecordInv, SettledInv, [Next]_vars
    PROVE  SettledInv'
<1>o. /\ obj \in Objects /\ mdb \in Objects /\ obj.gen \in 1 .. MaxGen
      /\ obj.st.upGen \in 0 .. MaxGen /\ hist.tries \in 0 .. 2
    BY DEF TypeOK, Objects, Status
<1>f. Fresh
    BY <1>o DEF SettledInv, Fresh
<1>a. /\ pc # "Idle" => mdb = obj
      /\ pc \notin {"Idle", "Phase"} => desired = obj.spec.version
      /\ pc = "Complete" => obj.st.up = "Validating"
      /\ obj.st.upGen <= obj.gen
      /\ obj.st.up # "None" \/ obj.st.upGen = obj.gen => hist.tries > 0
    BY DEF SettledInv
<1>i. obj'.gen \in Nat
    BY NextType DEF TypeOK, Objects
\* A step that starts no attempt and marks no generation that was not tried.
<1>s. ASSUME SameSpec, hist'.tries = hist.tries,
             obj'.st.upGen = obj.st.upGen \/ obj'.st.upGen = obj.gen,
             obj'.st.up # "None" \/ obj'.st.upGen = obj.gen => hist.tries > 0,
             Return \/ (/\ mdb' = obj' \/ (UNCHANGED <<obj, mdb>> /\ pc # "Idle")
                        /\ pc \notin {"Idle", "Phase"} /\ pc' # "Complete"
                        /\ desired' = desired)
      PROVE  SettledInv'
    <2>0. /\ obj'.st.upGen <= obj'.gen
          /\ obj'.st.up # "None" \/ obj'.st.upGen = obj'.gen => hist'.tries > 0
        BY <1>s, <1>a, <1>o DEF SameSpec
    <2>1. CASE Return
        BY <2>0, <2>1 DEF SettledInv, Return
    <2>2. CASE /\ mdb' = obj' \/ (UNCHANGED <<obj, mdb>> /\ pc # "Idle")
               /\ pc \notin {"Idle", "Phase"} /\ pc' # "Complete" /\ desired' = desired
        BY <1>s, <1>a, <2>0, <2>2 DEF SettledInv, SameSpec
    <2> QED BY <1>s, <2>1, <2>2
<1>1. CASE Bystander
    <2>1. /\ SameSpec /\ hist'.tries = hist.tries
          /\ obj'.st.upGen = obj.st.upGen /\ obj'.st.up = obj.st.up
        BY <1>1 DEF Bystander, SameSpec, SameUpgrade
    <2>2. CASE UNCHANGED <<obj, mdb, pc, desired>>
        BY <2>1, <2>2, <1>a DEF SettledInv
    <2>3. obj'.st.up # "None" \/ obj'.st.upGen = obj.gen => hist.tries > 0
        BY <2>1, <1>a
    <2> QED BY <1>1, <2>1, <2>2, <2>3, <1>s DEF Bystander, Later
<1>2. CASE Passes \/ reconcileStatefulSet
    <2>1. UNCHANGED <<obj, mdb, desired, hist>> /\ pc \in {"Upgrade", "Sts"} /\ pc' # "Complete"
        BY <1>2 DEF Passes, reconcileStatefulSet, Goto, crd
    <2> QED BY <2>1, <1>a, <1>s DEF SameSpec
<1>3. CASE commitFCV
    <2>1. /\ UNCHANGED <<obj, mdb, desired, hist>> /\ pc = "Upgrade" /\ pc' = "Complete"
          /\ mdb.st.up = "Validating"
        BY <1>3 DEF commitFCV, AtValidation, AtUpgrade, Goto, crd
    <2> QED BY <2>1, <1>a DEF SettledInv
<1>4. CASE StartReconcile
    BY <1>4, <1>a DEF StartReconcile, crd, SettledInv
<1>5. CASE ReconcilePhase
    <2>1. /\ SameSpec /\ SameUpgrade(obj.st, obj'.st) /\ hist' = hist
          /\ mdb' = obj' \/ UNCHANGED <<obj, mdb>>
          /\ pc = "Phase" /\ pc' = "Seed" /\ desired' = mdb'.spec.version
        BY <1>5, <1>f, PhaseEffect
    <2>2. mdb' = obj'
        BY <2>1, <1>a
    <2> QED BY <2>1, <2>2, <1>a DEF SettledInv, SameSpec, SameUpgrade
<1>6. CASE SeedVersions
    <2>1. SameSpec /\ obj'.st.up = obj.st.up /\ obj'.st.upGen = obj.st.upGen
        BY <1>6, <1>f, Outcomes, Zenon
    <2>2. /\ pc = "Seed" /\ pc' = "Upgrade" /\ UNCHANGED <<desired, hist>>
          /\ mdb' = obj' \/ UNCHANGED <<obj, mdb>>
        BY <1>6, Effects
    <2> QED BY <2>1, <2>2, <1>a, <1>s, Zenon
<1>7. CASE NoUpgrade
    <2>1. SameSpec /\ obj'.st.up = "None" /\ obj'.st.upGen = obj.st.upGen
        BY <1>7, <1>f, Outcomes, Zenon
    <2>2. /\ pc = "Upgrade" /\ pc' = "Sts" /\ UNCHANGED <<desired, hist>>
          /\ mdb' = obj' \/ UNCHANGED <<obj, mdb>>
        BY <1>7, Effects
    <2> QED BY <2>1, <2>2, <1>a, <1>s, Zenon
<1>8. CASE InitUpgrade
    <2>1. SameSpec /\ obj'.st.upGen = obj.st.upGen
        BY <1>8, <1>f, Outcomes
    <2>2. Return /\ hist' = [hist EXCEPT !.tries = IF @ < 2 THEN @ + 1 ELSE @]
        BY <1>8 DEF InitUpgrade
    <2>3. hist'.tries > 0
        BY <2>2 DEF TypeOK
    <2> QED BY <2>1, <2>2, <2>3, <1>a, Zenon DEF SettledInv, SameSpec, Return
<1>9. CASE \/ BackupCompleted \/ BackupFailed \/ CompleteUpgrade \/ upgradeValidationFailed
           \/ reconcileUpgradeRollback \/ SetValidating
    <2>1. Return /\ hist' = hist
        BY <1>9, Effects
    <2>2. SameSpec /\ (obj'.st.upGen = obj.st.upGen \/ obj'.st.upGen = obj.gen)
        BY <1>9, <1>f, Outcomes, Zenon
    <2>3. pc # "Idle" /\ (mdb.st.up # "None" \/ pc = "Complete")
        BY <1>9 DEF BackupCompleted, BackupFailed, CompleteUpgrade, upgradeValidationFailed,
                    reconcileUpgradeRollback, SetValidating, AtValidation, AtUpgrade, RecordInv
    <2>4. hist.tries > 0
        BY <2>3, <1>a
    <2> QED BY <2>1, <2>2, <2>4, <1>s
<1>10. CASE updateStatus
    <2>1. /\ SameSpec /\ obj'.st.up = obj.st.up /\ obj'.st.upGen = obj.st.upGen
          /\ Return /\ hist' = hist
        BY <1>10, UpdateStatusEffect DEF SameSpec
    <2> QED BY <2>1, <1>a, <1>s
<1>11. CASE EditSpec
    <2>1. /\ obj'.st = obj.st /\ obj'.gen = obj.gen + 1 /\ Settled
          /\ UNCHANGED <<mdb, pc, desired>>
        BY <1>11, EditEffect
    <2>2. pc = "Idle" /\ obj.st.up = "None"
        BY <2>1 DEF Settled
    <2>3. obj'.st.upGen < obj'.gen
        BY <2>1, <1>a, <1>o
    <2> QED BY <2>1, <2>2, <2>3, <1>o DEF SettledInv
<1>12. CASE Tick
    <2>1. obj' = Older(obj) /\ mdb' = Older(mdb) /\ UNCHANGED <<pc, desired, hist>>
        BY <1>12 DEF Tick
    <2>2. SameSpec /\ obj'.st.up = obj.st.up /\ obj'.st.upGen = obj.st.upGen
        BY <2>1, <1>o, OlderKeeps, Zenon DEF SameSpec
    <2>3. pc # "Idle" => mdb' = obj'
        BY <2>1, <1>a
    <2> QED BY <2>1, <2>2, <2>3, <1>a DEF SettledInv, SameSpec
<1> QED
    BY <1>1, <1>2, <1>3, <1>4, <1>5, <1>6, <1>7, <1>8, <1>9, <1>10, <1>11, <1>12, ResourceStep, Zenon

\* OneAttemptPerGeneration holds whenever in a reconcile the user edits: no generation of
\* the spec starts a second upgrade, whatever failed or was rolled back in between.  Needed:
\* Get returns the newest object, and pre-upgrade backups do not fail (abortUpgrade lets the
\* same generation try again).
THEOREM OneAttempt ==
    ASSUME FreshCache, ~BackupsMayFail
    PROVE  Spec => []OneAttemptPerGeneration
<1> DEFINE Inv == TypeOK /\ RecordInv /\ Fresh /\ AttemptInv
<1>1. Init => Inv
    <2>1. Init => TypeOK /\ RecordInv
        BY InitType, CreatedRecord, Zenon DEF Init, RecordInv
    <2>2. Init => Fresh /\ AttemptInv
        BY DEF Init, Fresh, AttemptInv
    <2> QED BY <2>1, <2>2, Zenon
<1>2. Inv /\ [Next]_vars => Inv'
    BY NextType, RecordNext, FreshNext, AttemptNext
<1>3. Inv => OneAttemptPerGeneration
    BY DEF AttemptInv, OneAttemptPerGeneration
<1> QED
    BY <1>1, <1>2, <1>3, PTL DEF Spec

\* AttemptedExactlyOnce, for any number of members, versions, edits, crashes and failed
\* calls: ObservedUpgradeGeneration stands for exactly one attempt of a generation.
\* Needed, besides what OneAttempt needs: the user waits for one edit to settle.
THEOREM AttemptedOnce ==
    ASSUME FreshCache, ~BackupsMayFail, Edits = "Settled"
    PROVE  Spec => []AttemptedExactlyOnce
<1> DEFINE Inv == TypeOK /\ RecordInv /\ Fresh /\ AttemptInv /\ SettledInv
<1>1. Init => Inv
    <2>1. Init => TypeOK /\ RecordInv
        BY InitType, CreatedRecord, Zenon DEF Init, RecordInv
    <2>2. Init => Fresh /\ AttemptInv /\ SettledInv
        <3>1. Init => Fresh /\ AttemptInv
            BY NothingYet DEF Fresh, AttemptInv
        <3>2. Init => SettledInv
            BY NothingYet DEF SettledInv
        <3> QED BY <3>1, <3>2, Zenon
    <2> QED BY <2>1, <2>2, Zenon
<1>2. Inv /\ [Next]_vars => Inv'
    BY NextType, RecordNext, FreshNext, AttemptNext, SettledNext
<1>3. Inv => AttemptedExactlyOnce
    BY DEF AttemptInv, SettledInv, AttemptedExactlyOnce, OneAttemptPerGeneration,
           TerminalWasAttempted
<1> QED
    BY <1>1, <1>2, <1>3, PTL DEF Spec

-----------------------------------------------------------------------------
(* What is deployed while an upgrade is prepared, rolled out and validated. *)

\* An upgrade is due: the next reconcile will start it.
Due ==
    /\ obj.st.version \notin {obj.spec.version, NoVersion}
    /\ obj.st.up = "None" /\ obj.st.upGen # obj.gen

\* Outside of a rollback the StatefulSet and the effective version follow the spec, but for
\* an upgrade that is due; and a reconcile past reconcileUpgrade leaves none due.
RollInv ==
    /\ obj.st.up # "None" => /\ obj.st.eff = obj.spec.version
                             /\ obj.st.version \notin {obj.spec.version, NoVersion}
                             /\ obj.st.upGen # obj.gen
    /\ obj.st.up = "Upgrading" /\ obj.spec.backup => backups[obj.spec.version] = "Completed"
    /\ obj.st.up \in {"Validating", "RollingBack"} => sts.template = obj.spec.version
    /\ obj.st.up = "None" /\ ~obj.st.rb =>
         \/ Due
         \/ /\ obj.st.eff \in {NoVersion, obj.spec.version}
            /\ sts.template \in {NoVersion, obj.spec.version}
    /\ pc \in Later \cup {"Sts", "Validating"} => ~Due
    /\ pc \in Later => obj.st.up = "None"
    /\ pc = "Sts" => obj.st.up \in {"None", "Upgrading"}
    /\ pc = "Validating" => sts.template = obj.spec.version

LEMMA RollNext ==
    ASSUME FreshCache, Edits = "Settled", TypeOK, RecordInv, SettledInv, RollInv, [Next]_vars
    PROVE  RollInv'
<1>o. /\ obj \in Objects /\ mdb \in Objects /\ obj.gen \in 1 .. MaxGen
      /\ obj.st.upGen \in 0 .. MaxGen /\ obj.st.up \in UpgradePhases
      /\ obj.spec.version \in Versions /\ NoVersion \notin Versions /\ obj.st.rb \in BOOLEAN
    BY SpecVersions, VersionsAreNamed DEF TypeOK, Objects, Status
<1>f. Fresh
    BY <1>o DEF SettledInv, Fresh
<1>a. /\ pc # "Idle" => mdb = obj
      /\ pc \notin {"Idle", "Phase"} => desired = obj.spec.version
      /\ pc = "Complete" => obj.st.up = "Validating"
      /\ obj.st.upGen <= obj.gen
    BY DEF SettledInv
<1>b. \A v \in Versions : backups[v] = "Completed" => backups'[v] = "Completed"
    BY ClusterStep
<1>t. reconcileStatefulSet \/ sts'.template = sts.template
    BY TemplateStep
<1>p. obj.st.up # "None" => obj.st.prev # NoVersion /\ obj.st.eff # NoVersion
    BY Zenon DEF RecordInv, Record
\* A step that writes nothing of this.
<1>s. ASSUME SameSpec, SameVersions(obj.st, obj'.st), obj'.st.up = obj.st.up,
             obj'.st.upGen = obj.st.upGen, sts'.template = sts.template
      PROVE  /\ Due' <=> Due
             /\ obj.st.up \in {"None", "Upgrading"} <=> obj'.st.up \in {"None", "Upgrading"}
             /\ pc' \notin Later \cup {"Sts", "Validating"} => RollInv'
             /\ pc' = pc => RollInv'
             /\ pc \in Later /\ pc' \in Later => RollInv'
    <2>1. Due' <=> Due
        BY <1>s DEF SameSpec, SameVersions, Due
    <2> QED BY <1>s, <2>1, <1>b, <1>o, Zenon DEF SameSpec, SameVersions, RollInv, Later
<1>1. CASE Bystander
    <2>1. CASE reconcileStatefulSet
        <3>1. pc = "Sts" /\ pc' \in {"Validating", "Ready"}
            BY <2>1, StsEffect
        <3> QED BY <1>1, <3>1 DEF Bystander, Return, Later
    <2>2. CASE sts'.template = sts.template
        <3>1. /\ SameSpec /\ SameVersions(obj.st, obj'.st) /\ obj'.st.up = obj.st.up
              /\ obj'.st.upGen = obj.st.upGen
            BY <1>1 DEF Bystander, SameSpec, SameUpgrade
        <3>2. pc' = pc \/ (pc \in Later /\ pc' \in Later)
                \/ pc' \notin Later \cup {"Sts", "Validating"}
            BY <1>1, Zenon DEF Bystander, Return, Later
        <3> QED BY <2>2, <3>1, <3>2, <1>s
    <2> QED BY <2>1, <2>2, <1>t, Zenon
<1>2. CASE Passes
    <2>1. /\ UNCHANGED <<obj, mdb>> /\ pc = "Upgrade" /\ pc' = "Sts"
          /\ mdb.st.up = "Upgrading" \/ (mdb.st.up = "None" /\ AlreadyTerminal)
        BY <1>2 DEF Passes
    <2>2. obj.st.up \in {"None", "Upgrading"} /\ ~Due
        BY <2>1, <1>a DEF Due, AlreadyTerminal
    <2>3. sts'.template = sts.template
        BY <2>1, <1>t, StsEffect
    <2> QED BY <2>1, <2>2, <2>3, <1>b, <1>o, Zenon DEF RollInv, Due, Later
<1>3. CASE commitFCV \/ StartReconcile
    <2>1. /\ UNCHANGED <<obj, sts>> /\ pc' \in {"Complete", "Phase"}
        BY <1>3 DEF commitFCV, StartReconcile, Goto, crd, cluster
    <2> QED BY <2>1, <1>s DEF SameSpec, SameVersions, Later
<1>4. CASE ReconcilePhase
    <2>1. SameSpec /\ SameUpgrade(obj.st, obj'.st) /\ pc' = "Seed" /\ sts' = sts
        BY <1>4, <1>f, PhaseEffect DEF ReconcilePhase, cluster
    <2> QED BY <2>1, <1>s DEF SameUpgrade, Later
<1>5. CASE SeedVersions
    <2>1. /\ SameSpec /\ obj'.st.rb = obj.st.rb /\ obj'.st.up = obj.st.up
          /\ obj'.st.upGen = obj.st.upGen
          /\ obj'.st.eff = (IF obj.st.eff = NoVersion THEN desired ELSE obj.st.eff)
          /\ obj'.st.version = (IF obj.st.version = NoVersion THEN obj'.st.eff
                                ELSE obj.st.version)
        BY <1>5, <1>f, Outcomes, Zenon
    <2>2. pc' = "Upgrade" /\ desired = obj.spec.version /\ sts' = sts
        BY <1>5, <1>a, Effects, Zenon DEF SeedVersions, cluster
    <2>3. CASE obj.st.up # "None"
        BY <2>1, <2>2, <2>3, <1>b, <1>o, <1>p, Zenon DEF RollInv, SameSpec, Later
    <2>4. CASE obj.st.up = "None" /\ obj.st.rb
        BY <2>1, <2>2, <2>4, <1>b, <1>o DEF RollInv, SameSpec, Later
    <2>5. CASE obj.st.up = "None" /\ ~obj.st.rb
        <3>1. CASE Due
            BY <2>1, <2>2, <2>5, <3>1, <1>b, <1>o, Zenon DEF RollInv, SameSpec, Later, Due
        <3>2. CASE ~Due
            BY <2>1, <2>2, <2>5, <3>2, <1>b, <1>o, Zenon DEF RollInv, SameSpec, Later
        <3> QED BY <3>1, <3>2, Zenon
    <2> QED BY <2>3, <2>4, <2>5, Zenon
<1>6. CASE NoUpgrade
    <2>1. /\ SameSpec /\ SameVersions(obj.st, obj'.st)
          /\ obj'.st.up = "None" /\ obj'.st.upGen = obj.st.upGen
        BY <1>6, <1>f, Outcomes, Zenon
    <2>2. pc = "Upgrade" /\ pc' = "Sts" /\ ~UpgradeNeeded /\ sts' = sts
        BY <1>6, Effects, Zenon DEF NoUpgrade, cluster
    <2>3. obj.st.version = NoVersion \/ obj.st.version = obj.spec.version
        BY <2>2, <1>a, Zenon DEF UpgradeNeeded
    <2>4. obj.st.up = "None" /\ ~Due /\ ~Due'
        BY <2>1, <2>3, Zenon DEF RollInv, Due, SameSpec, SameVersions
    <2> QED BY <2>1, <2>2, <2>4, <1>b, Zenon DEF RollInv, SameSpec, SameVersions, Later
<1>7. CASE InitUpgrade
    <2>1. /\ SameSpec /\ obj'.st.eff = desired
          /\ obj'.st.version = obj.st.version /\ obj'.st.upGen = obj.st.upGen
          /\ obj'.st.up = (IF obj.spec.backup THEN "BackingUp" ELSE "Upgrading")
        BY <1>7, <1>f, Outcomes, Zenon
    <2>2. pc = "Upgrade" /\ pc' = "Idle" /\ UpgradeNeeded /\ ~AlreadyTerminal /\ mdb.st.up = "None"
        BY <1>7 DEF InitUpgrade, AtUpgrade, Return
    <2>3. Due /\ desired = obj.spec.version
        BY <2>2, <1>a, <1>o, SMTT(30) DEF Due, UpgradeNeeded, AlreadyTerminal
    <2> QED BY <2>1, <2>2, <2>3, Zenon DEF RollInv, Due, SameSpec, Later
<1>8. CASE BackupCompleted
    <2>1. /\ SameSpec /\ SameVersions(obj.st, obj'.st)
          /\ obj'.st.up = "Upgrading" /\ obj'.st.upGen = obj.st.upGen
        BY <1>8, <1>f, Outcomes, Zenon
    <2>2. /\ pc = "Upgrade" /\ pc' = "Idle" /\ mdb.st.up = "BackingUp"
          /\ backups[desired] = "Completed"
        BY <1>8, Zenon DEF BackupCompleted, AtUpgrade, WriteAndReturn, Return
    <2>3. obj.st.up # "None" /\ backups'[obj.spec.version] = "Completed"
        BY <2>2, <1>a, <1>b, <1>o, Zenon
    <2> QED BY <2>1, <2>2, <2>3, Zenon DEF RollInv, SameSpec, SameVersions, Later
<1>9. CASE BackupFailed
    <2>1. /\ SameSpec /\ SameVersions(obj.st, obj'.st)
          /\ obj'.st.up = "None" /\ obj'.st.upGen = obj.st.upGen
        BY <1>9, <1>f, Outcomes, Zenon
    <2>2. pc = "Upgrade" /\ pc' = "Idle" /\ mdb.st.up = "BackingUp"
        BY <1>9, Zenon DEF BackupFailed, AtUpgrade, WriteAndReturn, Return
    <2>3. Due'
        BY <2>1, <2>2, <1>a, Zenon DEF RollInv, Due, SameSpec, SameVersions
    <2> QED BY <2>1, <2>2, <2>3, Zenon DEF RollInv, Later
<1>10. CASE CompleteUpgrade
    <2>1. SameSpec /\ obj'.st.eff = desired /\ obj'.st.up = "None" /\ obj'.st.upGen = obj.gen
        BY <1>10, <1>f, Outcomes, Zenon
    <2>2. pc = "Complete" /\ pc' = "Idle" /\ sts' = sts
        BY <1>10, Zenon DEF CompleteUpgrade, WriteAndReturn, Return, cluster
    <2> QED BY <2>1, <2>2, <1>a, Zenon DEF RollInv, SameSpec, Later
<1>11. CASE upgradeValidationFailed
    <2>1. /\ SameSpec /\ SameVersions(obj.st, obj'.st)
          /\ \/ obj'.st.up = "RollingBack" /\ obj'.st.upGen = obj.st.upGen
             \/ obj'.st.up = "None" /\ obj'.st.upGen = obj.gen
        BY <1>11, <1>f, Outcomes, Zenon
    <2>2. pc = "Upgrade" /\ pc' = "Idle" /\ mdb.st.up = "Validating" /\ sts' = sts
        BY <1>11, Zenon DEF upgradeValidationFailed, AtValidation, AtUpgrade, WriteAndReturn, Return,
                     cluster
    <2> QED BY <2>1, <2>2, <1>a, Zenon DEF RollInv, SameSpec, SameVersions, Later
<1>12. CASE reconcileUpgradeRollback
    <2>1. pc = "Upgrade" /\ pc' = "Idle" /\ mdb.st.up = "RollingBack" /\ sts' = sts
        BY <1>12 DEF reconcileUpgradeRollback, AtUpgrade, WriteAndReturn, Return, cluster
    <2>2. obj.st.prev # NoVersion /\ obj.st.up = "RollingBack"
        BY <2>1, <1>a, <1>p
    <2>3. /\ SameSpec /\ obj'.st.up = "None" /\ obj'.st.upGen = obj.gen
          /\ SameVersions(obj.st, obj'.st) \/ obj'.st.rb = TRUE
        BY <1>12, <2>2, <1>f, Outcomes, Zenon
    <2> QED BY <2>1, <2>2, <2>3 DEF RollInv, SameSpec, SameVersions, Later
<1>13. CASE reconcileStatefulSet
    <2>1. /\ UNCHANGED <<obj, mdb>> /\ pc = "Sts"
          /\ pc' = IF mdb.st.up = "Upgrading" THEN "Validating" ELSE "Ready"
          /\ sts'.template = effectiveMongoDBVersion(mdb.spec, mdb.st.eff)
        BY <1>13, StsEffect, Zenon
    <2>2. mdb = obj /\ ~Due /\ obj.st.up \in {"None", "Upgrading"}
        BY <2>1, <1>a DEF RollInv
    <2>3. obj.st.eff \in {NoVersion, obj.spec.version} => sts'.template = obj.spec.version
        BY <2>1, <2>2, Zenon DEF effectiveMongoDBVersion
    <2>4. CASE obj.st.up = "Upgrading"
        BY <2>1, <2>2, <2>3, <2>4, <1>b, <1>o, Zenon DEF RollInv, Later, Due
    <2>5. CASE obj.st.up = "None"
        BY <2>1, <2>2, <2>3, <2>5, Zenon DEF RollInv, Later, Due
    <2> QED BY <2>2, <2>4, <2>5
<1>14. CASE SetValidating
    <2>1. /\ SameSpec /\ SameVersions(obj.st, obj'.st)
          /\ obj'.st.up = "Validating" /\ obj'.st.upGen = obj.st.upGen
        BY <1>14, <1>f, Outcomes, Zenon
    <2>2. pc = "Validating" /\ pc' = "Idle" /\ sts' = sts
        BY <1>14 DEF SetValidating, WriteAndReturn, Return, cluster
    <2>3. obj.st.up = "Upgrading"
        BY <2>2, <1>a DEF RecordInv
    <2> QED BY <2>1, <2>2, <2>3, Zenon DEF RollInv, SameSpec, SameVersions, Later
<1>15. CASE updateStatus
    <2>1. /\ SameSpec /\ obj'.st.version = obj.spec.version /\ obj'.st.eff = obj.st.eff
          /\ obj'.st.rb = obj.st.rb
          /\ obj'.st.up = obj.st.up /\ obj'.st.upGen = obj.st.upGen
          /\ pc = "Status" /\ pc' = "Idle"
        BY <1>15, UpdateStatusEffect, Zenon DEF SameSpec, Return
    <2>2. obj.st.up = "None" /\ ~Due
        BY <2>1 DEF RollInv, Later
    <2>3. sts' = sts
        BY <1>15 DEF updateStatus, cluster
    <2> QED BY <2>1, <2>2, <2>3, Zenon DEF RollInv, SameSpec, Later
<1>16. CASE EditSpec
    <2>1. /\ obj'.st = obj.st /\ obj'.gen = obj.gen + 1 /\ Settled
          /\ UNCHANGED <<mdb, pc, desired, sts>>
        BY <1>16, EditEffect
    <2>2. pc = "Idle" /\ obj.st.up = "None" /\ obj.st.version = obj.spec.version
        BY <2>1 DEF Settled
    <2>3. obj'.st.upGen < obj'.gen
        BY <2>1, <1>a, <1>o, SMTT(30)
    <2>4. CASE obj'.spec.version = obj.spec.version
        BY <2>1, <2>2, <2>4, Zenon DEF RollInv, Due, Later
    <2>5. CASE obj'.spec.version # obj.spec.version
        <3>1. Due'
            BY <2>1, <2>2, <2>3, <2>5, <1>o, SMTT(30) DEF Due
        <3> QED BY <2>1, <2>2, <3>1 DEF RollInv, Later
    <2> QED BY <2>4, <2>5, Zenon
<1>17. CASE Tick
    <2>1. obj' = Older(obj) /\ pc' = pc /\ sts' = sts
        BY <1>17 DEF Tick, cluster
    <2>2. /\ SameSpec /\ SameVersions(obj.st, obj'.st) /\ obj'.st.up = obj.st.up
          /\ obj'.st.upGen = obj.st.upGen
        BY <2>1, <1>o, OlderKeeps, Zenon DEF SameSpec
    <2> QED BY <2>1, <2>2, <1>s
<1> QED
    BY <1>1, <1>2, <1>3, <1>4, <1>5, <1>6, <1>7, <1>8, <1>9, <1>10, <1>11, <1>12, <1>13,
       <1>14, <1>15, <1>16, <1>17, ResourceStep, Zenon

\* The StatefulSet's status counts the pods of the template, once it has caught up, which it
\* has when a validation's clock has run; and a complete rollout stays complete.
ObservedInv ==
    /\ sts.observed => \A m \in sts.updated : pods[m].v = sts.template
    /\ obj.st.up = "Validating" /\ obj.st.start > 0 => sts.observed
    /\ pc = "Complete" => \A m \in Members : pods[m].v = sts.template

LEMMA ObserveEffect ==
    ASSUME TypeOK, StsObserve
    PROVE  /\ sts'.template = sts.template /\ sts'.observed = TRUE
           /\ sts'.updated = {m \in Members : UpToDate(m)}
           /\ UNCHANGED <<obj, mdb, pc, pods>>
<1>1. PICK c, r : sts' = [sts EXCEPT !.update = sts.template, !.observed = TRUE,
                                     !.updated = {m \in Members : UpToDate(m)},
                                     !.ready = r, !.current = c]
    BY Zenon DEF StsObserve
<1> DEFINE u == {m \in Members : UpToDate(m)}
<1>2. sts' = [sts EXCEPT !.update = sts.template, !.observed = TRUE, !.updated = u,
                         !.ready = r, !.current = c]
    BY <1>1
<1> HIDE DEF u
<1>3. sts'.template = sts.template /\ sts'.observed = TRUE /\ sts'.updated = u
    BY <1>2, Zenon DEF TypeOK
<1> QED BY <1>3 DEF StsObserve, crd, u

LEMMA ObservedNext ==
    ASSUME FreshCache, PromptSts, Interval > 0, Edits = "Settled",
           TypeOK, RecordInv, SettledInv, RollInv, ObservedInv, [Next]_vars
    PROVE  ObservedInv'
<1>o. /\ obj \in Objects /\ obj.gen \in Nat /\ sts.updated \subseteq Members
      /\ obj.st.start \in Int /\ Interval \in Nat
    BY ConstantsAssumption, SMTT(30) DEF TypeOK, Objects, Status, NoTime, Timeout
<1>f. Fresh
    BY <1>o DEF SettledInv, Fresh
<1>a. /\ pc # "Idle" => mdb = obj
      /\ pc = "Complete" => obj.st.up = "Validating"
    BY Zenon DEF SettledInv
<1>p. \A m \in Members : pods'[m].v = pods[m].v \/ pods'[m].v = sts.template
    BY ClusterStep
<1>s. sts' = sts \/ StsObserve \/ reconcileStatefulSet
    BY ClusterStep
<1>1. sts'.observed => \A m \in sts'.updated : pods'[m].v = sts'.template
    <2>1. CASE sts' = sts
        BY <2>1, <1>p, <1>o DEF ObservedInv
    <2>2. CASE StsObserve
        BY <2>2, ObserveEffect DEF UpToDate
    <2>3. CASE reconcileStatefulSet
        BY <2>3, StsEffect DEF ObservedInv
    <2> QED BY <1>s, <2>1, <2>2, <2>3
<1>2. obj.st.up = "Validating" /\ sts.observed => sts'.observed
    <2>1. CASE reconcileStatefulSet
        <3>1. pc = "Sts"
            BY <2>1, StsEffect, Zenon
        <3> QED BY <3>1 DEF RollInv
    <2> QED BY <1>s, <2>1, ObserveEffect, Zenon
<1>3. \/ obj'.st.up # "Validating"
      \/ obj'.st.up = obj.st.up /\ obj'.st.start = obj.st.start
      \/ obj'.st.start = 0
      \/ Tick
    <2>1. CASE Bystander
        BY <2>1 DEF Bystander, SameUpgrade
    <2>2. CASE Passes \/ StartReconcile \/ commitFCV \/ reconcileStatefulSet
        BY <2>2 DEF Passes, StartReconcile, commitFCV, reconcileStatefulSet, crd
    <2>3. CASE ReconcilePhase
        BY <2>3, <1>f, PhaseEffect, Zenon DEF SameUpgrade
    <2>4. CASE SeedVersions
        BY <2>4, <1>f, Outcomes, Zenon
    <2>5. CASE NoUpgrade \/ BackupFailed \/ CompleteUpgrade \/ reconcileUpgradeRollback
        BY <2>5, <1>f, Outcomes, Zenon
    <2>6. CASE InitUpgrade \/ BackupCompleted \/ upgradeValidationFailed \/ SetValidating
        <3>1. obj'.st.up \in {"BackingUp", "Upgrading", "RollingBack", "None"}
                \/ obj'.st.start = 0
            BY <2>6, <1>f, Outcomes, Zenon
        <3> QED BY <3>1
    <2>7. CASE updateStatus
        <3>1. obj'.st.up = obj.st.up /\ pc = "Status"
            BY <2>7, UpdateStatusEffect
        <3> QED BY <3>1 DEF RollInv, Later
    <2>8. CASE EditSpec
        BY <2>8, EditEffect
    <2> QED BY <2>1, <2>2, <2>3, <2>4, <2>5, <2>6, <2>7, <2>8, ResourceStep, Zenon
<1>4. obj'.st.up = "Validating" /\ obj'.st.start > 0 => sts'.observed
    <2>1. CASE Tick
        BY <2>1 DEF Tick, cluster
    <2>2. CASE obj'.st.up = obj.st.up /\ obj'.st.start = obj.st.start
        BY <2>2, <1>2 DEF ObservedInv
    <2>3. CASE obj'.st.start = 0
        BY <2>3
    <2> QED BY <1>3, <2>1, <2>2, <2>3
<1>5. pc' = "Complete" => pc = "Complete" \/ commitFCV
    <2>1. CASE Bystander
        BY <2>1 DEF Bystander, Return, Later
    <2>2. CASE Passes \/ StartReconcile \/ reconcileStatefulSet \/ ReconcilePhase
        BY <2>2, StsEffect DEF Passes, StartReconcile, ReconcilePhase
    <2>3. CASE SeedVersions \/ NoUpgrade
        BY <2>3, Effects
    <2>4. CASE \/ InitUpgrade \/ BackupCompleted \/ BackupFailed \/ CompleteUpgrade
               \/ upgradeValidationFailed \/ reconcileUpgradeRollback \/ SetValidating
               \/ updateStatus
        BY <2>4, Effects DEF InitUpgrade, updateStatus, Return
    <2>5. CASE EditSpec \/ Tick
        BY <2>5, Zenon DEF EditSpec, Tick
    <2> QED BY <2>1, <2>2, <2>3, <2>4, <2>5, ResourceStep
<1>6. pc' = "Complete" => \A m \in Members : pods'[m].v = sts'.template
    <2>1. CASE commitFCV
        <3>1. /\ pc = "Upgrade" /\ mdb.st.up = "Validating" /\ mdb.st.start >= Interval
              /\ sts.updated = Members /\ UNCHANGED <<sts, pods>>
            BY <2>1 DEF commitFCV, AtValidation, AtUpgrade, stsRolloutComplete
        <3>2. sts.observed
            BY <3>1, <1>a, <1>o DEF ObservedInv
        <3> QED BY <3>1, <3>2 DEF ObservedInv
    <2>2. CASE pc = "Complete"
        <3>1. ~reconcileStatefulSet
            BY <2>2 DEF reconcileStatefulSet
        <3>2. sts'.template = sts.template
            BY <3>1, TemplateStep
        <3> QED BY <2>2, <3>2, <1>p DEF ObservedInv
    <2> QED BY <1>5, <2>1, <2>2
<1> QED BY <1>1, <1>4, <1>6, Zenon DEF ObservedInv

\* BackupBeforeRollout, for any number of members, versions, edits and crashes: with
\* preUpgradeBackup the StatefulSet moves to another version only after the backup taken for
\* it is Completed.  Needed: Get returns the newest object, and the user waits for one edit
\* to settle (claim_backup_first shows an edit that does not).
THEOREM BackedUpFirst ==
    ASSUME FreshCache, Edits = "Settled"
    PROVE  Spec => BackupBeforeRollout
<1> DEFINE Inv == TypeOK /\ RecordInv /\ SettledInv /\ RollInv
           Moves == /\ sts'.template # sts.template /\ sts.template # NoVersion
                    /\ obj.spec.backup /\ ~obj.st.rb
           A == Moves => backups[sts'.template] = "Completed"
<1>1. Init => Inv
    <2>1. Init => TypeOK /\ RecordInv
        BY InitType, CreatedRecord, Zenon DEF Init, RecordInv
    <2>2. Init => SettledInv /\ RollInv
        <3>1. Init => SettledInv
            BY NothingYet DEF SettledInv
        <3>2. Init => RollInv
            BY NothingYet, Zenon DEF RollInv, Later
        <3> QED BY <3>1, <3>2, Zenon
    <2> QED BY <2>1, <2>2, Zenon
<1>2. Inv /\ [Next]_vars => Inv'
    BY NextType, RecordNext, SettledNext, RollNext
<1>3. Inv /\ [Next]_vars => [A]_vars
    <2> SUFFICES ASSUME Inv, [Next]_vars, Moves
                 PROVE  backups[sts'.template] = "Completed"
        OBVIOUS
    <2>1. reconcileStatefulSet
        BY TemplateStep
    <2>2. /\ pc = "Sts" /\ mdb = obj
          /\ sts'.template = effectiveMongoDBVersion(obj.spec, obj.st.eff)
        BY <2>1, StsEffect DEF SettledInv
    <2>3. ~Due /\ obj.st.up \in {"None", "Upgrading"}
        BY <2>2 DEF RollInv
    <2>4. CASE obj.st.up = "Upgrading"
        BY <2>2, <2>4, Zenon DEF RollInv, effectiveMongoDBVersion
    <2>5. CASE obj.st.up = "None"
        BY <2>2, <2>3, <2>5 DEF RollInv, effectiveMongoDBVersion
    <2> QED BY <2>3, <2>4, <2>5
<1> HIDE DEF A
<1>4. Spec => [][A]_vars
    BY <1>1, <1>2, <1>3, PTL DEF Spec
<1> QED
    BY <1>4 DEF A, BackupBeforeRollout

\* CompletedMeansRolledOut, for any number of members, versions, edits, crashes of the
\* operator and of pods: an upgrade is declared complete only when every pod runs the
\* version declared.  Needed: Get returns the newest object, the user waits for one edit to
\* settle (claim_version_aware shows an edit that does not), and the StatefulSet controller
\* reacts within the validation interval.
THEOREM CompletedIsRolledOut ==
    ASSUME FreshCache, PromptSts, Interval > 0, Edits = "Settled"
    PROVE  Spec => CompletedMeansRolledOut
<1> DEFINE Inv == TypeOK /\ RecordInv /\ SettledInv /\ RollInv /\ ObservedInv
           A == UpgradeCompletes => \A m \in Members : pods[m].v = obj'.st.version
<1>1. Init => Inv
    <2>1. Init => TypeOK /\ RecordInv
        BY InitType, CreatedRecord, Zenon DEF Init, RecordInv
    <2>2. Init => SettledInv /\ RollInv /\ ObservedInv
        <3>1. Init => SettledInv
            BY NothingYet DEF SettledInv
        <3>2. Init => RollInv
            BY NothingYet, Zenon DEF RollInv, Later
        <3>3. Init => ObservedInv
            BY NothingYet, Zenon DEF ObservedInv
        <3> QED BY <3>1, <3>2, <3>3, Zenon
    <2> QED BY <2>1, <2>2, Zenon
<1>2. Inv /\ [Next]_vars => Inv'
    BY NextType, RecordNext, SettledNext, RollNext, ObservedNext, Zenon
<1>3. Inv /\ [Next]_vars => [A]_vars
    <2> SUFFICES ASSUME Inv, [Next]_vars, UpgradeCompletes
                 PROVE  \A m \in Members : pods[m].v = obj'.st.version
        OBVIOUS
    <2>f. Fresh
        BY DEF TypeOK, Objects, SettledInv, Fresh
    <2>o. obj \in Objects
        BY DEF TypeOK
    <2>u. obj.st.up = "Validating" /\ obj'.st.up = "None" /\ obj'.st.version # obj.st.version
        BY DEF UpgradeCompletes
    <2>1. CASE Bystander
        BY <2>1, <2>u DEF Bystander, SameUpgrade, SameVersions
    <2>2. CASE Passes \/ StartReconcile \/ commitFCV \/ reconcileStatefulSet
        BY <2>2, <2>u DEF Passes, StartReconcile, commitFCV, reconcileStatefulSet, crd
    <2>3. CASE ReconcilePhase
        BY <2>3, <2>f, <2>u, PhaseEffect, Zenon DEF SameUpgrade, SameVersions
    <2>4. CASE SeedVersions
        BY <2>4, <2>f, <2>u, Outcomes, Zenon
    <2>5. CASE NoUpgrade \/ BackupFailed \/ BackupCompleted \/ upgradeValidationFailed \/ SetValidating
        BY <2>5, <2>f, <2>u, Outcomes, Zenon DEF SameVersions
    <2>6. CASE InitUpgrade \/ reconcileUpgradeRollback
        BY <2>6, <2>f, <2>u, Outcomes, Zenon
    <2>7. CASE updateStatus
        BY <2>7, <2>u, UpdateStatusEffect, Zenon
    <2>8. CASE EditSpec
        BY <2>8, <2>u, EditEffect, Zenon
    <2>9. CASE Tick
        BY <2>9, <2>o, <2>u, OlderKeeps, Zenon DEF Tick, SameVersions
    <2>10. CASE CompleteUpgrade
        <3>1. obj'.st.version = desired /\ pc = "Complete"
            BY <2>10, <2>f, Outcomes, Zenon DEF CompleteUpgrade
        <3>2. desired = obj.spec.version /\ sts.template = obj.spec.version
            BY <3>1, <2>u, Zenon DEF SettledInv, RollInv
        <3> QED BY <3>1, <3>2, Zenon DEF ObservedInv
    <2> QED
        BY <2>1, <2>2, <2>3, <2>4, <2>5, <2>6, <2>7, <2>8, <2>9, <2>10, ResourceStep
<1> HIDE DEF A
<1>4. Spec => [][A]_vars
    BY <1>1, <1>2, <1>3, PTL DEF Spec
<1> QED
    BY <1>4 DEF A, CompletedMeansRolledOut

-----------------------------------------------------------------------------
(***************************************************************************)
(* With the webhook in front and an up-to-date cache versions, and with    *)
(* them the feature compatibility version, only rise, whenever in a        *)
(* reconcile the spec changes.                                             *)
(***************************************************************************)

LEMMA PathsRise ==
    ASSUME NEW from \in Nat, NEW to \in Nat, IsValidUpgradePath(from, to)
    PROVE  MajorMinor(from) <= MajorMinor(to)
<1>1. \A v \in Nat : /\ MajorMinor(v) \in Nat /\ Major(v) \in Nat /\ Minor(v) \in 0 .. 9
                     /\ MajorMinor(v) = 10 * Major(v) + Minor(v)
    BY DEF MajorMinor, Major, Minor
<1>2. CASE from = to
    BY <1>1, <1>2
<1>3. CASE Major(to) # Major(from) /\ checkMajorStep(from, to)
    <2>1. Major(to) = Major(from) + 1
        BY <1>3 DEF checkMajorStep
    <2> QED BY <1>1, <2>1, SMTT(30)
<1>4. CASE Major(to) = Major(from) /\ AdjacentMinor(from, to)
    <2>1. Minor(from) <= Minor(to)
        BY <1>4 DEF AdjacentMinor
    <2> QED BY <1>1, <1>4, <2>1
<1> QED BY <1>2, <1>3, <1>4 DEF IsValidUpgradePath

LEMMA MinorsAreNumbers ==
    /\ \A v \in Versions \cup {NoVersion} : MajorMinor(v) \in Nat /\ fcvMajorMinor(v) = MajorMinor(v)
    /\ MajorMinor(NoVersion) = 0
    /\ Versions \subseteq Nat
<1>1. Versions \subseteq Nat
    BY ConstantsAssumption DEF Versions
<1>2. \A v \in Nat : MajorMinor(v) \in Nat
    BY DEF MajorMinor
<1> QED BY <1>1, <1>2 DEF MajorMinor, fcvMajorMinor, NoVersion

\* The minor of the version the running reconcile was asked for: nothing is ahead of it
\* while the reconcile has not come to the StatefulSet.
Top ==
    IF pc = "Phase" THEN MajorMinor(mdb.spec.version)
    ELSE IF pc \in {"Seed", "Upgrade", "Complete"} THEN MajorMinor(desired)
    ELSE MajorMinor(obj.spec.version)

FCVInv ==
    /\ Top <= MajorMinor(obj.spec.version)
    /\ pc # "Idle" => MajorMinor(mdb.spec.version) <= MajorMinor(obj.spec.version)
    /\ MajorMinor(sts.template) <= Top
    /\ \A m \in Members : MajorMinor(pods[m].v) <= Top
    /\ mongo.fcv <= Top /\ obj.st.fcv <= mongo.fcv
    /\ ~mongo.rs => mongo.fcv = 0
    /\ pc = "Complete" => MajorMinor(desired) <= mongo.fcv
    /\ MajorMinor(obj.st.eff) <= MajorMinor(obj.spec.version)
    /\ MajorMinor(obj.st.prev) <= MajorMinor(obj.spec.version)
    /\ MajorMinor(obj.st.version) <= MajorMinor(obj.spec.version)

\* What the proof that FCVInv is kept needs of the types.
Numbers ==
    /\ MajorMinor(obj.spec.version) \in Nat /\ MajorMinor(mdb.spec.version) \in Nat
    /\ MajorMinor(obj.st.eff) \in Nat /\ MajorMinor(obj.st.prev) \in Nat
    /\ MajorMinor(obj.st.version) \in Nat /\ MajorMinor(desired) \in Nat
    /\ MajorMinor(sts.template) \in Nat /\ mongo.fcv \in Nat /\ obj.st.fcv \in Nat
    /\ \A m \in Members : MajorMinor(pods[m].v) \in Nat

LEMMA TypedNumbers == TypeOK => Numbers
<1> SUFFICES ASSUME TypeOK PROVE Numbers
    BY Zenon
<1>1. /\ obj.spec.version \in Versions /\ mdb.spec.version \in Versions
      /\ {obj.st.eff, obj.st.prev, obj.st.version, desired, sts.template}
             \subseteq Versions \cup {NoVersion}
      /\ \A m \in Members : pods[m].v \in Versions \cup {NoVersion}
    <2>1. obj.st \in Status
        BY Zenon DEF TypeOK, Objects
    <2>2. /\ obj.st.eff \in Versions \cup {NoVersion} /\ obj.st.prev \in Versions \cup {NoVersion}
          /\ obj.st.version \in Versions \cup {NoVersion}
        BY <2>1, Zenon DEF Status
    <2>3. /\ desired \in Versions \cup {NoVersion} /\ sts.template \in Versions \cup {NoVersion}
          /\ \A m \in Members : pods[m].v \in Versions \cup {NoVersion}
        BY Zenon DEF TypeOK
    <2> QED BY SpecVersions, <2>2, <2>3, Zenon
<1>2. /\ mongo.fcv \in {fcvMajorMinor(v) : v \in Versions \cup {NoVersion}}
      /\ obj.st.fcv \in {fcvMajorMinor(v) : v \in Versions \cup {NoVersion}}
    <2>1. obj.st \in Status
        BY Zenon DEF TypeOK, Objects
    <2>2. obj.st.fcv \in {fcvMajorMinor(v) : v \in Versions \cup {NoVersion}}
        BY <2>1, Zenon DEF Status
    <2>3. mongo.fcv \in {fcvMajorMinor(v) : v \in Versions \cup {NoVersion}}
        BY Zenon DEF TypeOK
    <2> QED BY <2>2, <2>3, Zenon
<1>3. mongo.fcv \in Nat /\ obj.st.fcv \in Nat
    <2>1. \A v \in Versions \cup {NoVersion} : fcvMajorMinor(v) \in Nat
        BY MinorsAreNumbers, Zenon
    <2> QED BY <1>2, <2>1
<1> QED BY <1>1, <1>3, MinorsAreNumbers, Zenon DEF Numbers

\* The cluster's side of a step: what Top bounds now, the same Top bounds afterwards.
LEMMA ClusterBounded ==
    ASSUME TypeOK, FCVInv, [Next]_vars, ~reconcileStatefulSet, ~commitFCV
    PROVE  /\ MajorMinor(sts'.template) <= Top
           /\ \A m \in Members : MajorMinor(pods'[m].v) <= Top
           /\ mongo'.fcv <= Top /\ mongo.fcv <= mongo'.fcv
           /\ ~mongo'.rs => mongo'.fcv = 0
<1>1. Numbers /\ 0 \in Members
    BY TypedNumbers, ConstantsAssumption DEF Members
<1>2. sts'.template = sts.template
    BY TemplateStep
<1>3. \A m \in Members : pods'[m].v = pods[m].v \/ pods'[m].v = sts.template
    BY ClusterStep
<1>4. \/ mongo'.fcv = mongo.fcv /\ mongo'.rs = mongo.rs
      \/ ~mongo.rs /\ mongo'.rs /\ mongo'.fcv = fcvMajorMinor(pods[0].v)
    BY ClusterStep
<1>5. fcvMajorMinor(pods[0].v) = MajorMinor(pods[0].v)
    BY DEF fcvMajorMinor
<1>8. /\ MajorMinor(sts'.template) <= Top
      /\ \A m \in Members : MajorMinor(pods'[m].v) <= Top
    BY <1>2, <1>3, Zenon DEF FCVInv
<1>9. mongo.fcv <= Top /\ (~mongo.rs => mongo.fcv = 0) /\ \A m \in Members : MajorMinor(pods[m].v) <= Top
    BY Zenon DEF FCVInv
<1>10. mongo.fcv \in Nat /\ \A m \in Members : MajorMinor(pods[m].v) \in Nat
    BY <1>1, Zenon DEF Numbers
<1>w. \A n \in Nat : n <= n /\ 0 <= n
    OBVIOUS
<1>6. CASE mongo'.fcv = mongo.fcv /\ mongo'.rs = mongo.rs
    BY <1>6, <1>8, <1>9, <1>10, <1>w, Zenon
<1>7. CASE ~mongo.rs /\ mongo'.rs /\ mongo'.fcv = fcvMajorMinor(pods[0].v)
    BY <1>1, <1>5, <1>7, <1>8, <1>9, <1>10, <1>w, Zenon
<1> QED BY <1>4, <1>6, <1>7

LEMMA FCVNext ==
    ASSUME Webhook, FreshCache, TypeOK, Fresh, RecordInv, FCVInv, [Next]_vars
    PROVE  FCVInv'
<1>t. TypeOK'
    BY NextType
<1>n. Numbers /\ Numbers'
    <2>1. TypeOK' => Numbers'
        BY TypedNumbers, PTL
    <2> QED BY <1>t, <2>1, TypedNumbers
<1>v. obj.spec.version \in Nat /\ obj'.spec.version \in Nat /\ MajorMinor(NoVersion) = 0
    <2>1. obj.spec.version \in Versions
        BY SpecVersions, Zenon
    <2>2. obj'.spec.version \in Versions
        BY <1>t DEF TypeOK, Objects, Versions
    <2> QED BY <2>1, <2>2, MinorsAreNumbers, Zenon
<1>o. obj \in Objects /\ mdb \in Objects
    BY DEF TypeOK
<1>f. pc # "Idle" => mdb.st = obj.st
    BY DEF Fresh
<1>a. /\ Top <= MajorMinor(obj.spec.version)
      /\ pc # "Idle" => MajorMinor(mdb.spec.version) <= MajorMinor(obj.spec.version)
      /\ obj.st.fcv <= mongo.fcv
      /\ MajorMinor(obj.st.eff) <= MajorMinor(obj.spec.version)
      /\ MajorMinor(obj.st.prev) <= MajorMinor(obj.spec.version)
      /\ MajorMinor(obj.st.version) <= MajorMinor(obj.spec.version)
    BY DEF FCVInv
<1>p. Top \in Nat /\ Top' \in Nat
    BY <1>n, Zenon DEF Numbers, Top
<1>w. \A n \in Nat : n <= n
    OBVIOUS
<1>m. \A a, b, c \in Nat : a <= b /\ b <= c => a <= c
    OBVIOUS
<1> DEFINE Recorded == /\ MajorMinor(obj.st.eff) <= MajorMinor(obj.spec.version)
                       /\ MajorMinor(obj.st.prev) <= MajorMinor(obj.spec.version)
                       /\ MajorMinor(obj.st.version) <= MajorMinor(obj.spec.version)
           Seen == pc # "Idle" => MajorMinor(mdb.spec.version) <= MajorMinor(obj.spec.version)
\* A step that leaves the StatefulSet and the FCV to the environment, and never lowers Top.
<1>s. ASSUME ~reconcileStatefulSet, ~commitFCV, Top <= Top', Recorded', Seen',
             Top' <= MajorMinor(obj'.spec.version), obj'.st.fcv <= mongo.fcv,
             pc' # "Complete" \/ (pc = "Complete" /\ desired' = desired)
      PROVE  FCVInv'
    <2>1. /\ MajorMinor(sts'.template) <= Top
          /\ \A m \in Members : MajorMinor(pods'[m].v) <= Top
          /\ mongo'.fcv <= Top /\ mongo.fcv <= mongo'.fcv
          /\ ~mongo'.rs => mongo'.fcv = 0
        BY <1>s, ClusterBounded, Zenon
    <2>2. /\ MajorMinor(sts'.template) <= Top'
          /\ \A m \in Members : MajorMinor(pods'[m].v) <= Top'
          /\ mongo'.fcv <= Top' /\ obj'.st.fcv <= mongo'.fcv
        <3>1. /\ MajorMinor(sts'.template) \in Nat /\ mongo.fcv \in Nat /\ mongo'.fcv \in Nat
              /\ obj'.st.fcv \in Nat /\ \A m \in Members : MajorMinor(pods'[m].v) \in Nat
            BY <1>n, Zenon DEF Numbers
        <3> QED BY <2>1, <3>1, <1>s, <1>p, <1>m, Zenon
    <2>3. pc' = "Complete" => MajorMinor(desired') <= mongo'.fcv
        <3>1. mongo.fcv \in Nat /\ mongo'.fcv \in Nat /\ MajorMinor(desired) \in Nat
            BY <1>n, Zenon DEF Numbers
        <3>2. pc = "Complete" => MajorMinor(desired) <= mongo.fcv
            BY Zenon DEF FCVInv
        <3> QED BY <2>1, <3>1, <3>2, <1>s, <1>m, Zenon
    <2> QED BY <2>1, <2>2, <2>3, <1>s, Zenon DEF FCVInv
\* The reconcile ends, or goes on past the StatefulSet.
<1>r. ASSUME SameSpec, pc' \in {"Idle", "Sts", "Validating"} \cup Later
      PROVE  Top' = MajorMinor(obj.spec.version) /\ Top <= Top'
                /\ Top' <= MajorMinor(obj'.spec.version) /\ pc' # "Complete"
    BY <1>r, <1>a, <1>n, <1>w, Zenon DEF SameSpec, Top, Later, Numbers
<1>k. ASSUME SameSpec, SameVersions(obj.st, obj'.st)
      PROVE  Recorded' /\ obj'.st.fcv <= mongo.fcv
    BY <1>k, <1>a DEF SameSpec, SameVersions
<1>q. ASSUME SameSpec, \/ pc' = "Idle" \/ mdb' = obj'
                       \/ mdb' = mdb /\ pc # "Idle"
      PROVE  Seen'
    <2>1. CASE pc' = "Idle"
        BY <2>1, Zenon
    <2>2. CASE mdb' = obj'
        BY <2>2, <1>n DEF Numbers
    <2>3. CASE mdb' = mdb /\ pc # "Idle"
        BY <2>3, <1>q, <1>a DEF SameSpec
    <2> QED BY <1>q, <2>1, <2>2, <2>3
<1>x. /\ pc # "Sts" => ~reconcileStatefulSet
      /\ pc # "Upgrade" => ~commitFCV
      /\ pc' # "Complete" => ~commitFCV
      /\ pc' \notin {"Validating", "Ready"} => ~reconcileStatefulSet
    BY StsEffect DEF commitFCV, AtValidation, AtUpgrade, Goto
<1>1. CASE Bystander
    <2>1. SameSpec /\ SameVersions(obj.st, obj'.st)
        BY <1>1, Zenon DEF Bystander, SameSpec, SameUpgrade
    <2>2. CASE Return
        BY <2>1, <2>2, <1>s, <1>r, <1>k, <1>q, <1>x, Zenon DEF Return
    <2>3. CASE /\ pc \in Later /\ pc' \in Later /\ desired' = desired
               /\ mdb' = obj' \/ UNCHANGED <<obj, mdb>>
        BY <2>1, <2>3, <1>s, <1>r, <1>k, <1>q, <1>x, Zenon DEF Later
    <2>4. CASE UNCHANGED <<obj, mdb, pc, desired>>
        <3>1. Top' = Top /\ Seen'
            BY <2>4, <1>a DEF Top
        <3>2. ~commitFCV /\ ~reconcileStatefulSet
            BY <2>4, <1>x, StsEffect, Zenon DEF commitFCV, AtValidation, AtUpgrade, Goto
        <3> QED BY <2>1, <2>4, <3>1, <3>2, <1>s, <1>k, <1>a, <1>p, <1>w, Zenon
    <2> QED BY <1>1, <2>2, <2>3, <2>4, Zenon DEF Bystander
<1>2. CASE Passes
    <2>1. UNCHANGED <<obj, mdb>> /\ pc = "Upgrade" /\ pc' = "Sts"
        BY <1>2 DEF Passes
    <2>2. SameSpec /\ SameVersions(obj.st, obj'.st)
        BY <2>1, Zenon DEF SameSpec, SameVersions
    <2> QED BY <2>1, <2>2, <1>s, <1>r, <1>k, <1>q, <1>x
<1>3. CASE StartReconcile
    <2>1. UNCHANGED obj /\ mdb' = obj /\ pc = "Idle" /\ pc' = "Phase"
        BY <1>3 DEF StartReconcile, crd
    <2>2. SameSpec /\ SameVersions(obj.st, obj'.st)
        BY <2>1 DEF SameSpec, SameVersions
    <2>3. Top' = Top
        BY <2>1, Zenon DEF Top
    <2> QED BY <2>1, <2>2, <2>3, <1>s, <1>k, <1>q, <1>x, <1>a, <1>p, <1>w, Zenon
<1>4. CASE ReconcilePhase
    <2>1. /\ SameSpec /\ SameUpgrade(obj.st, obj'.st)
          /\ mdb' = obj' \/ UNCHANGED <<obj, mdb>>
          /\ pc = "Phase" /\ pc' = "Seed" /\ desired' = mdb'.spec.version
        BY <1>4, PhaseEffect
    <2>2. SameVersions(obj.st, obj'.st)
        BY <2>1 DEF SameUpgrade
    <2>3. Top = MajorMinor(mdb.spec.version) /\ Top' = MajorMinor(mdb'.spec.version)
        BY <2>1, Zenon DEF Top
    <2>4. Top <= Top' /\ Top' <= MajorMinor(obj'.spec.version)
        BY <2>1, <2>3, <1>a, <1>p, <1>w, Zenon DEF SameSpec
    <2> QED BY <2>1, <2>2, <2>4, <1>s, <1>k, <1>q, <1>x
<1>5. CASE SeedVersions
    <2>1. /\ SameSpec /\ obj'.st.prev = obj.st.prev /\ obj'.st.fcv = obj.st.fcv
          /\ obj'.st.eff \in {desired, obj.st.eff}
          /\ obj'.st.version \in {obj'.st.eff, obj.st.version}
        BY <1>5, Outcomes, Zenon
    <2>2. /\ pc = "Seed" /\ pc' = "Upgrade" /\ desired' = desired
          /\ mdb' = obj' \/ UNCHANGED <<obj, mdb>>
        BY <1>5, Effects
    <2>3. Top = MajorMinor(desired) /\ Top' = MajorMinor(desired)
        BY <2>2 DEF Top
    <2>4. Recorded' /\ obj'.st.fcv <= mongo.fcv
        BY <2>1, <2>3, <1>a, Zenon DEF SameSpec
    <2> QED BY <2>1, <2>2, <2>3, <2>4, <1>s, <1>q, <1>x, <1>a, <1>p, <1>w, Zenon DEF SameSpec
<1>6. CASE NoUpgrade
    <2>1. /\ SameSpec /\ SameVersions(obj.st, obj'.st)
          /\ pc = "Upgrade" /\ pc' = "Sts" /\ (mdb' = obj' \/ UNCHANGED <<obj, mdb>>)
        BY <1>6, Outcomes, Effects, Zenon
    <2> QED BY <2>1, <1>s, <1>r, <1>k, <1>q, <1>x
<1>7. CASE InitUpgrade
    <2>1. /\ SameSpec /\ obj'.st.eff = desired /\ obj'.st.prev = obj.st.version
          /\ obj'.st.version = obj.st.version /\ obj'.st.fcv = obj.st.fcv
        BY <1>7, Outcomes, Zenon
    <2>2. pc = "Upgrade" /\ pc' = "Idle"
        BY <1>7 DEF InitUpgrade, AtUpgrade, Return
    <2>3. MajorMinor(desired) <= MajorMinor(obj.spec.version)
        BY <2>2, <1>a DEF Top
    <2>4. Recorded' /\ obj'.st.fcv <= mongo.fcv
        BY <2>1, <2>3, <1>a, Zenon DEF SameSpec
    <2> QED BY <2>1, <2>2, <2>4, <1>s, <1>r, <1>q, <1>x, Zenon
<1>8. CASE BackupCompleted \/ BackupFailed \/ upgradeValidationFailed \/ SetValidating
    <2>1. SameSpec /\ SameVersions(obj.st, obj'.st) /\ pc' = "Idle"
        BY <1>8, Outcomes, Effects, Zenon DEF Return
    <2> QED BY <2>1, <1>s, <1>r, <1>k, <1>q, <1>x
<1>9. CASE CompleteUpgrade
    <2>1. /\ SameSpec /\ obj'.st.eff = desired /\ obj'.st.version = desired
          /\ obj'.st.fcv = fcvMajorMinor(desired) /\ obj'.st.prev = obj.st.prev
        BY <1>9, Outcomes, Zenon
    <2>2. pc = "Complete" /\ pc' = "Idle"
        BY <1>9, Effects, Zenon DEF CompleteUpgrade, Return
    <2>3. /\ MajorMinor(desired) <= MajorMinor(obj.spec.version)
          /\ fcvMajorMinor(desired) <= mongo.fcv
        BY <2>2, <1>a, Zenon DEF Top, FCVInv, fcvMajorMinor
    <2>4. Recorded' /\ obj'.st.fcv <= mongo.fcv
        BY <2>1, <2>3, <1>a, Zenon DEF SameSpec
    <2> QED BY <2>1, <2>2, <2>4, <1>s, <1>r, <1>q, <1>x, Zenon
<1>10. CASE reconcileUpgradeRollback
    <2>1. /\ SameSpec /\ obj'.st.version = obj.st.version /\ obj'.st.prev = obj.st.prev
          /\ obj'.st.fcv = obj.st.fcv
          /\ SameVersions(obj.st, obj'.st) \/ obj'.st.eff = obj.st.prev
        BY <1>10, Outcomes, Zenon
    <2>2. pc' = "Idle"
        BY <1>10, Effects, Zenon DEF Return
    <2>3. Recorded' /\ obj'.st.fcv <= mongo.fcv
        BY <2>1, <1>a, Zenon DEF SameSpec, SameVersions
    <2> QED BY <2>1, <2>2, <2>3, <1>s, <1>r, <1>q, <1>x
<1>11. CASE updateStatus
    <2>1. /\ SameSpec /\ obj'.st.version = obj.spec.version /\ obj'.st.eff = obj.st.eff
          /\ obj'.st.prev = obj.st.prev /\ obj'.st.fcv = obj.st.fcv /\ pc' = "Idle"
        BY <1>11, UpdateStatusEffect, Zenon DEF SameSpec, Return
    <2>2. Recorded' /\ obj'.st.fcv <= mongo.fcv
        BY <2>1, <1>a, <1>n, <1>w, Zenon DEF SameSpec, Numbers
    <2> QED BY <2>1, <2>2, <1>s, <1>r, <1>q, <1>x, Zenon
<1>12. CASE EditSpec
    <2>1. /\ obj'.st = obj.st /\ IsValidUpgradePath(obj.spec.version, obj'.spec.version)
          /\ UNCHANGED <<mdb, pc, desired>>
        BY <1>12, EditEffect, Zenon
    <2>2. MajorMinor(obj.spec.version) <= MajorMinor(obj'.spec.version)
        BY <2>1, <1>v, PathsRise, Zenon
    <2>3. \A n \in Nat : n <= MajorMinor(obj.spec.version)
                         => n <= MajorMinor(obj'.spec.version)
        <3> HIDE DEF Recorded, Seen
        <3>1. MajorMinor(obj.spec.version) \in Nat /\ MajorMinor(obj'.spec.version) \in Nat
            BY <1>n DEF Numbers
        <3> QED BY <2>2, <3>1, <1>m, Zenon
    <2>4. Recorded' /\ obj'.st.fcv <= mongo.fcv /\ Seen'
        <3>1. Recorded'
            BY <2>1, <2>3, <1>a, <1>n, ZenonT(30) DEF Numbers
        <3>2. obj'.st.fcv <= mongo.fcv
            BY <2>1, <1>a, Zenon
        <3>3. Seen'
            BY <2>1, <2>3, <1>a, <1>n, ZenonT(30) DEF Numbers
        <3> QED BY <3>1, <3>2, <3>3, Zenon
    <2>5. Top <= Top' /\ Top' <= MajorMinor(obj'.spec.version)
        <3>1. Top' = Top \/ (Top = MajorMinor(obj.spec.version) /\ Top' = MajorMinor(obj'.spec.version))
            BY <2>1, Zenon DEF Top
        <3>2. Top' <= MajorMinor(obj'.spec.version)
            <4>1. CASE Top' = Top
                BY <4>1, <2>3, <1>a, <1>p, Zenon
            <4>2. CASE Top' = MajorMinor(obj'.spec.version)
                BY <4>2, <1>p
            <4> QED BY <3>1, <4>1, <4>2, Zenon
        <3>3. Top <= Top'
            BY <3>1, <2>2, <1>p
        <3> QED BY <3>2, <3>3, Zenon
    <2>6. ~commitFCV /\ ~reconcileStatefulSet
        BY <2>1, <1>x, StsEffect, Zenon DEF commitFCV, AtValidation, AtUpgrade, Goto
    <2> QED BY <2>1, <2>4, <2>5, <2>6, <1>s, Zenon
<1>13. CASE Tick
    <2>1. obj' = Older(obj) /\ mdb' = Older(mdb) /\ UNCHANGED <<pc, desired>>
        BY <1>13 DEF Tick
    <2>2. SameSpec /\ SameVersions(obj.st, obj'.st) /\ mdb'.spec = mdb.spec
        BY <2>1, <1>o, OlderKeeps, ZenonT(30) DEF SameSpec
    <2>3. Top' = Top /\ Seen'
        BY <2>1, <2>2, <1>a, Zenon DEF Top, SameSpec
    <2>4. ~commitFCV /\ ~reconcileStatefulSet
        BY <2>1, <1>x, StsEffect, Zenon DEF commitFCV, AtValidation, AtUpgrade, Goto
    <2>5. Recorded' /\ obj'.st.fcv <= mongo.fcv
        BY <2>2, <1>k, Zenon
    <2>6. Top <= Top' /\ Top' <= MajorMinor(obj'.spec.version)
        <3>1. obj'.spec.version = obj.spec.version
            BY <2>2, Zenon DEF SameSpec
        <3>2. Top <= Top'
            BY <2>3, <1>p, <1>w, Zenon
        <3> QED BY <3>1, <3>2, <2>3, <1>a, Zenon
    <2> QED BY <2>1, <2>3, <2>4, <2>5, <2>6, <1>s, Zenon
<1>14. CASE reconcileStatefulSet
    <2>1. /\ UNCHANGED <<obj, mdb, pods, mongo>> /\ pc = "Sts"
          /\ pc' \in {"Validating", "Ready"}
          /\ sts'.template = effectiveMongoDBVersion(mdb.spec, mdb.st.eff)
        BY <1>14, StsEffect
    <2>2. sts'.template \in {mdb.spec.version, obj.st.eff}
        BY <2>1, <1>f, Zenon DEF effectiveMongoDBVersion
    <2>3. Top = MajorMinor(obj.spec.version) /\ Top' = Top
        BY <2>1, Zenon DEF Top
    <2>4. MajorMinor(sts'.template) <= Top'
        BY <2>1, <2>2, <2>3, <1>a
    <2> QED BY <2>1, <2>3, <2>4, Zenon DEF FCVInv
<1>15. CASE commitFCV
    <2>1. /\ UNCHANGED <<obj, mdb, desired, sts, pods>> /\ pc = "Upgrade" /\ pc' = "Complete"
          /\ \/ mdb.st.fcv = fcvMajorMinor(desired) /\ UNCHANGED mongo
             \/ HasPrimary /\ mongo' = [mongo EXCEPT !.fcv = fcvMajorMinor(desired)]
        BY <1>15 DEF commitFCV, AtValidation, AtUpgrade, Goto, crd, FCVAccepted
    <2>2. Top = MajorMinor(desired) /\ Top' = Top
        BY <2>1 DEF Top
    <2>3. fcvMajorMinor(desired) = MajorMinor(desired)
        BY DEF fcvMajorMinor
    <2>4. CASE mdb.st.fcv = fcvMajorMinor(desired) /\ UNCHANGED mongo
        BY <2>1, <2>2, <2>3, <2>4, <1>f DEF FCVInv
    <2>5. CASE HasPrimary /\ mongo' = [mongo EXCEPT !.fcv = fcvMajorMinor(desired)]
        <3>1. mongo'.fcv = MajorMinor(desired) /\ mongo'.rs = mongo.rs
            BY <2>3, <2>5 DEF TypeOK
        <3>2. mongo.rs
            BY <2>5 DEF HasPrimary
        <3>3. obj'.st.fcv <= mongo'.fcv /\ mongo'.fcv <= Top'
            BY <2>1, <2>2, <3>1, <1>n DEF FCVInv, Numbers
        <3>4. /\ pc # "Idle" /\ pc' # "Idle"
              /\ MajorMinor(desired') <= mongo'.fcv
            BY <2>1, <3>1, <1>n DEF Numbers
        <3> QED BY <2>1, <2>2, <3>1, <3>2, <3>3, <3>4, <1>a DEF FCVInv
    <2> QED BY <2>1, <2>4, <2>5
<1> QED
    BY <1>1, <1>2, <1>3, <1>4, <1>5, <1>6, <1>7, <1>8, <1>9, <1>10, <1>11, <1>12, <1>13,
       <1>14, <1>15, ResourceStep, Zenon

LEMMA FCVStep ==
    ASSUME TypeOK, FCVInv, [Next]_vars
    PROVE  mongo'.fcv >= mongo.fcv
<1>n. Numbers
    BY TypedNumbers, Zenon
<1>1. CASE reconcileStatefulSet
    <2>1. mongo.fcv \in Nat /\ mongo' = mongo
        BY <1>1, <1>n, StsEffect, Zenon DEF Numbers
    <2> QED BY <2>1
<1>2. CASE commitFCV
    <2>1. /\ pc = "Upgrade"
          /\ UNCHANGED mongo \/ mongo' = [mongo EXCEPT !.fcv = fcvMajorMinor(desired)]
        BY <1>2 DEF commitFCV, AtValidation, AtUpgrade
    <2>2. mongo.fcv <= fcvMajorMinor(desired)
        BY <2>1 DEF FCVInv, Top, fcvMajorMinor
    <2>3. mongo'.fcv \in {mongo.fcv, fcvMajorMinor(desired)}
        BY <2>1 DEF TypeOK
    <2> QED BY <2>2, <2>3, <1>n DEF Numbers, fcvMajorMinor
<1>3. CASE ~reconcileStatefulSet /\ ~commitFCV
    <2>1. mongo.fcv <= mongo'.fcv
        BY <1>3, ClusterBounded
    <2>2. mongo'.fcv \in Nat
        <3>1. TypeOK' => Numbers'
            BY TypedNumbers, PTL
        <3> QED BY <3>1, NextType DEF Numbers
    <2> QED BY <2>1, <2>2, <1>n DEF Numbers
<1> QED BY <1>1, <1>2, <1>3

\* What holds at the start, and is kept, with the webhook and an up-to-date cache.
RisingInv == TypeOK /\ RecordInv /\ Fresh /\ FCVInv

LEMMA RisingInit == Init => RisingInv
<1> SUFFICES ASSUME Init PROVE RisingInv
    OBVIOUS
<1>1. TypeOK /\ RecordInv /\ Fresh
    BY InitType, CreatedRecord, Zenon DEF Init, RecordInv, Fresh
<1>2. /\ pc = "Idle" /\ sts.template = NoVersion /\ ~mongo.rs
      /\ mongo.fcv = fcvMajorMinor(NoVersion)
      /\ obj.st.fcv = fcvMajorMinor(NoVersion)
      /\ obj.st.eff = NoVersion /\ obj.st.prev = NoVersion /\ obj.st.version = NoVersion
      /\ \A m \in Members : pods[m].v = NoVersion
    BY NothingYet, Zenon
<1>3. fcvMajorMinor(NoVersion) = 0 /\ MajorMinor(NoVersion) = 0
    BY MinorsAreNumbers, Zenon DEF fcvMajorMinor
<1>4. Top = MajorMinor(obj.spec.version) /\ MajorMinor(obj.spec.version) \in Nat
    BY <1>1, <1>2, TypedNumbers, Zenon DEF Top, Numbers
<1>5. FCVInv
    BY <1>2, <1>3, <1>4 DEF FCVInv
<1> QED BY <1>1, <1>5, Zenon DEF RisingInv

\* FCVRecordTruthful, for any number of members, versions, edits, crashes and failed calls:
\* with the webhook in front, and Get returning the newest object, the FCV recorded in the
\* status is never ahead of the one the cluster has.
THEOREM FCVRecorded ==
    ASSUME Webhook, FreshCache
    PROVE  Spec => []FCVRecordTruthful
<1>1. RisingInv /\ [Next]_vars => RisingInv'
    BY NextType, RecordNext, FreshNext, FCVNext, Zenon DEF RisingInv
<1>2. RisingInv => FCVRecordTruthful
    BY DEF RisingInv, FCVInv, FCVRecordTruthful
<1> QED
    BY <1>1, <1>2, RisingInit, PTL DEF Spec

\* FCVNeverLowered, under the same conditions: neither an upgrade nor a rollback nor a
\* replica set initiated late takes the feature compatibility version down.
THEOREM FCVOnlyRises ==
    ASSUME Webhook, FreshCache
    PROVE  Spec => FCVNeverLowered
<1> DEFINE A == mongo'.fcv >= mongo.fcv
<1>1. RisingInv /\ [Next]_vars => RisingInv'
    BY NextType, RecordNext, FreshNext, FCVNext DEF RisingInv
<1>2. RisingInv /\ [Next]_vars => [A]_vars
    BY FCVStep DEF RisingInv
<1> HIDE DEF A
<1>3. Spec => [][A]_vars
    BY <1>1, <1>2, RisingInit, PTL DEF Spec
<1> QED
    BY <1>3 DEF A, FCVNeverLowered

\* Outside of a rollback the StatefulSet's minor is at most the effective version's.
DownInv ==
    /\ ~obj.st.rb => MajorMinor(sts.template) <= MajorMinor(obj.st.eff)
    /\ pc \in {"Upgrade", "Sts"} => obj.st.eff # NoVersion

LEMMA DownNext ==
    ASSUME Webhook, FreshCache, \A s \in Specs : ~s.image,
           RisingInv, DownInv, [Next]_vars
    PROVE  DownInv'
<1>o. TypeOK /\ Fresh /\ RecordInv /\ obj \in Objects /\ Numbers
    BY TypedNumbers DEF RisingInv, TypeOK
<1>f. pc # "Idle" => mdb.st = obj.st
    BY <1>o DEF Fresh
<1>d. pc \notin {"Idle", "Phase"} => desired # NoVersion
    BY <1>o, VersionsAreNamed DEF RecordInv
<1>t. MajorMinor(sts.template) <= Top
    BY Zenon DEF RisingInv, FCVInv
<1>s. ASSUME SameVersions(obj.st, obj'.st), sts'.template = sts.template,
             pc' \in {"Upgrade", "Sts"} => pc \in {"Upgrade", "Sts"}
      PROVE  DownInv'
    BY <1>s, Zenon DEF DownInv, SameVersions
<1>x. pc' \notin {"Validating", "Ready"} \/ pc # "Sts" => sts'.template = sts.template
    BY <1>o, TemplateStep, StsEffect, Zenon
<1>1. CASE Bystander
    <2>1. SameVersions(obj.st, obj'.st)
        BY <1>1 DEF Bystander, SameUpgrade
    <2> QED BY <1>1, <2>1, <1>s, <1>x DEF Bystander, Later, Return
<1>2. CASE Passes \/ NoUpgrade
    <2>1. SameVersions(obj.st, obj'.st) /\ pc = "Upgrade" /\ pc' = "Sts"
        BY <1>2, <1>o, Outcomes, Effects DEF Passes, SameVersions
    <2> QED BY <2>1, <1>s, <1>x, Zenon
<1>3. CASE StartReconcile \/ commitFCV
    <2>1. UNCHANGED <<obj, sts>> /\ pc' \in {"Phase", "Complete"}
        BY <1>3 DEF StartReconcile, commitFCV, Goto, crd, cluster
    <2> QED BY <2>1, <1>s DEF SameVersions
<1>4. CASE ReconcilePhase
    <2>1. SameVersions(obj.st, obj'.st) /\ pc' = "Seed"
        BY <1>4, <1>o, PhaseEffect, Zenon DEF SameUpgrade
    <2> QED BY <2>1, <1>s, <1>x
<1>5. CASE SeedVersions
    <2>1. /\ obj'.st.rb = obj.st.rb
          /\ obj'.st.eff = (IF obj.st.eff = NoVersion THEN desired ELSE obj.st.eff)
        BY <1>5, <1>o, Outcomes, Zenon
    <2>2. pc = "Seed" /\ pc' = "Upgrade"
        BY <1>5, <1>o, Effects
    <2>3. MajorMinor(sts.template) <= MajorMinor(desired)
        BY <2>2, <1>t, Zenon DEF Top
    <2> QED BY <2>1, <2>2, <2>3, <1>d, <1>x, Zenon DEF DownInv
<1>6. CASE InitUpgrade \/ CompleteUpgrade
    <2>1. obj'.st.eff = desired
        BY <1>6, <1>o, Outcomes, Zenon
    <2>2. pc \in {"Upgrade", "Complete"} /\ pc' = "Idle"
        BY <1>6, Zenon DEF InitUpgrade, CompleteUpgrade, AtUpgrade, WriteAndReturn, Return
    <2>3. MajorMinor(sts.template) <= MajorMinor(desired)
        BY <2>2, <1>t DEF Top
    <2> QED BY <2>1, <2>2, <2>3, <1>x, Zenon DEF DownInv
<1>7. CASE BackupCompleted \/ BackupFailed \/ upgradeValidationFailed \/ SetValidating
    <2>1. SameVersions(obj.st, obj'.st) /\ pc' = "Idle"
        BY <1>7, <1>o, Outcomes, Effects DEF Return
    <2> QED BY <2>1, <1>s, <1>x, Zenon
<1>8. CASE reconcileUpgradeRollback
    <2>1. /\ SameVersions(obj.st, obj'.st) \/ obj'.st.rb = TRUE
          /\ pc' = "Idle"
        BY <1>8, <1>o, Outcomes, Effects, Zenon DEF Return
    <2>2. CASE obj'.st.rb = TRUE
        BY <2>1, <2>2 DEF DownInv
    <2> QED BY <2>1, <2>2, <1>s, <1>x, Zenon
<1>9. CASE updateStatus
    <2>1. obj'.st.eff = obj.st.eff /\ obj'.st.rb = obj.st.rb /\ pc' = "Idle"
        BY <1>9, <1>o, UpdateStatusEffect DEF Return
    <2> QED BY <2>1, <1>x DEF DownInv
<1>10. CASE EditSpec
    <2>1. obj'.st = obj.st /\ UNCHANGED <<pc, sts>>
        BY <1>10, <1>o, EditEffect
    <2> QED BY <2>1 DEF DownInv
<1>11. CASE Tick
    <2>1. obj' = Older(obj) /\ UNCHANGED <<pc, sts>>
        BY <1>11 DEF Tick, cluster
    <2>2. SameVersions(obj.st, obj'.st)
        BY <2>1, <1>o, OlderKeeps, Zenon
    <2> QED BY <2>1, <2>2, <1>s
<1>12. CASE reconcileStatefulSet
    <2>1. /\ obj' = obj /\ pc = "Sts" /\ pc' \in {"Validating", "Ready"}
          /\ sts'.template = effectiveMongoDBVersion(mdb.spec, obj.st.eff)
        BY <1>12, <1>o, <1>f, StsEffect, Zenon
    <2>2. obj.st.eff # NoVersion /\ ~mdb.spec.image
        BY <2>1, <1>o, Zenon DEF DownInv, TypeOK, Objects
    <2>3. sts'.template = obj.st.eff
        BY <2>1, <2>2 DEF effectiveMongoDBVersion
    <2> QED BY <2>1, <2>3, <1>o, SMTT(30) DEF DownInv, Numbers
<1> QED
    BY <1>o, <1>1, <1>2, <1>3, <1>4, <1>5, <1>6, <1>7, <1>8, <1>9, <1>10, <1>11, <1>12,
       ResourceStep, Zenon

\* DowngradeOnlyByRollback, under the same conditions and without image overrides: whenever
\* in a reconcile the spec changes, the StatefulSet moves to a lower minor only in a rollback.
THEOREM NoDowngrade ==
    ASSUME Webhook, FreshCache, \A s \in Specs : ~s.image
    PROVE  Spec => DowngradeOnlyByRollback
<1> DEFINE Inv == RisingInv /\ DownInv
           A == MajorMinor(sts'.template) < MajorMinor(sts.template) => mdb.st.rb
<1>1. Init => Inv
    <2>1. Init => RisingInv
        BY RisingInit, Zenon
    <2>2. Init => pc = "Idle" /\ sts.template = NoVersion /\ obj.st.eff = NoVersion
        BY NothingYet, Zenon
    <2> QED BY <2>1, <2>2, MinorsAreNumbers DEF DownInv
<1>2. Inv /\ [Next]_vars => Inv'
    BY NextType, RecordNext, FreshNext, FCVNext, DownNext, Zenon DEF RisingInv
<1>3. Inv /\ [Next]_vars => [A]_vars
    <2> SUFFICES ASSUME Inv, [Next]_vars,
                        MajorMinor(sts'.template) < MajorMinor(sts.template), ~mdb.st.rb
                 PROVE  FALSE
        OBVIOUS
    <2>1. TypeOK /\ Fresh /\ Numbers
        BY TypedNumbers, Zenon DEF RisingInv
    <2>2. CASE reconcileStatefulSet
        <3>1. /\ pc = "Sts" /\ mdb.st = obj.st
              /\ sts'.template = effectiveMongoDBVersion(mdb.spec, obj.st.eff)
            BY <2>1, <2>2, StsEffect, Zenon DEF Fresh
        <3>2. obj.st.eff # NoVersion /\ ~mdb.spec.image
            BY <2>1, <3>1, Zenon DEF DownInv, TypeOK, Objects
        <3>3. sts'.template = obj.st.eff /\ MajorMinor(sts.template) <= MajorMinor(obj.st.eff)
            BY <3>1, <3>2, Zenon DEF effectiveMongoDBVersion, DownInv
        <3> QED BY <2>1, <3>3, SMTT(30) DEF Numbers
    <2>3. CASE sts'.template = sts.template
        BY <2>1, <2>3 DEF Numbers
    <2> QED BY <2>1, <2>2, <2>3, TemplateStep
<1> HIDE DEF A
<1>4. Spec => [][A]_vars
    BY <1>1, <1>2, <1>3, PTL DEF Spec
<1> QED
    BY <1>4 DEF A, DowngradeOnlyByRollback
=============================================================================
