------------------------- MODULE MongoDBReconciler -------------------------
(***************************************************************************)
(* The replica-set controller: MongoDBReconciler.Reconcile of              *)
(* internal/controller/mongodb_controller.go with the version upgrade of   *)
(* internal/controller/upgrade.go, for one MongoDB resource.               *)
(*                                                                         *)
(* One reconcile is a sequence of steps, one for every call that reads or  *)
(* writes state outside the process; between two of them the user, the     *)
(* StatefulSet controller, the pods, the backup controller and the clock   *)
(* may move, and the operator may crash.                                   *)
(*                                                                         *)
(* Left out: the calls of Reconcile that touch none of the state below     *)
(* (keyfile, TLS, ConfigMap, Services, PDB, NetworkPolicy, PVC expansion,  *)
(* exporter Secret, HPA, CronJob), which here can only fail; conditions,   *)
(* member counts and messages of the status; deletion; scaling.            *)
(***************************************************************************)
EXTENDS VersionPath

CONSTANTS
    N,               \* spec.members
    Specs,           \* the specs a user may submit
    InitSpec,        \* the spec the resource was created with
    BadVersions,     \* versions whose image cannot be pulled or crashes
    Interval,        \* spec.upgradeStrategy.validationInterval, in ticks
    Budget,          \* perMemberRolloutBudget, in ticks
    MaxGen,          \* bound: metadata.generation grows up to here
    MaxRetry,        \* bound: status.upgradeRetryCount saturates here
    Webhook,         \* the admission webhook is deployed (it is off by default)
    Edits,           \* when the user edits the spec: "Settled", "Idle" or "Any" time
    FreshCache,      \* Get returns the newest object (else the informer cache may lag)
    PromptSts,       \* the StatefulSet controller reacts before the clock advances
    MaxFaults,       \* bound: crashes and failed calls of the operator
    MaxFlakes,       \* bound: crashes of good pods, and hooks that cannot read rs.status()
    BackupsMayFail,  \* a MongoDBBackup may end in phase Failed
    AnonymousAdmin   \* mongod takes admin commands from outside the pod while it has no user

Members == 0 .. N - 1

Timeout == Interval + N * Budget

NoTime == -1

Versions == {s.version : s \in Specs}

ASSUME ConstantsAssumption ==
    /\ N \in Nat \ {0} /\ Interval \in Nat /\ Budget \in Nat
    /\ MaxGen \in Nat \ {0} /\ MaxRetry \in Nat /\ MaxFaults \in Nat /\ MaxFlakes \in Nat
    /\ Specs \subseteq [version : Nat \ {NoVersion}, image : BOOLEAN,
                        backup : BOOLEAN, rollback : BOOLEAN]
    /\ InitSpec \in Specs /\ Edits \in {"Settled", "Idle", "Any"}
    /\ {Webhook, FreshCache, PromptSts, BackupsMayFail, AnonymousAdmin} \subseteq BOOLEAN

VARIABLES
    obj,      \* the MongoDB resource in the API server: spec, generation, status
    cache,    \* the informer's copy of it
    mdb,      \* the copy the running reconcile works on
    pc,       \* the next step of the running reconcile, "Idle" between reconciles
    desired,  \* the local desiredVersion of reconcileUpgrade
    sts,      \* the StatefulSet: its template's version, its status, and whether that has
              \* caught up with the template (status.observedGeneration)
    pods,     \* version and state of every member's pod
    mongo,    \* replica set initiated, admin user, FCV, and pod 0's postStart hook
    backups,  \* phase of the pre-upgrade MongoDBBackup of every version
    hist      \* history: attempts in this generation, faults and flakes

vars == <<obj, cache, mdb, pc, desired, sts, pods, mongo, backups, hist>>
crd == <<obj, cache, hist>>
cluster == <<sts, pods, mongo, backups>>

\* The empty upgradePhase is "None", the empty phase is the "Pending" it is treated as.
UpgradePhases == {"None", "BackingUp", "Upgrading", "Validating", "RollingBack"}

\* status.startTime is kept as the time elapsed since it, up to Timeout.
Status == [phase : {"Pending", "Initializing", "Running", "Failed"},
           rsInit : BOOLEAN, admin : BOOLEAN,
           version : Versions \cup {NoVersion},
           eff : Versions \cup {NoVersion},
           prev : Versions \cup {NoVersion},
           up : UpgradePhases, start : {NoTime} \cup 0 .. Timeout,
           upGen : 0 .. MaxGen, rb : BOOLEAN, retry : 0 .. MaxRetry,
           fcv : {fcvMajorMinor(v) : v \in Versions \cup {NoVersion}}]

NewStatus == [phase |-> "Pending", rsInit |-> FALSE, admin |-> FALSE,
              version |-> NoVersion, eff |-> NoVersion, prev |-> NoVersion,
              up |-> "None", start |-> NoTime, upGen |-> 0, rb |-> FALSE,
              retry |-> 0, fcv |-> fcvMajorMinor(NoVersion)]

Objects == [spec : Specs, gen : 1 .. MaxGen, st : Status]

Created == [spec |-> InitSpec, gen |-> 1, st |-> NewStatus]

Steps == {"Idle", "Phase", "Seed", "Upgrade", "Complete", "Sts", "Validating",
          "Ready", "RSInit", "Primary", "Admin", "Verify", "Status"}

Init ==
    /\ obj = Created /\ cache = Created /\ mdb = Created
    /\ pc = "Idle" /\ desired = NoVersion
    /\ sts = [template |-> NoVersion, current |-> NoVersion, update |-> NoVersion,
              updated |-> {}, ready |-> {}, observed |-> TRUE]
    /\ pods = [m \in Members |-> [v |-> NoVersion, s |-> "absent"]]
    /\ mongo = [rs |-> FALSE, admin |-> FALSE,
                fcv |-> fcvMajorMinor(NoVersion), hook |-> "run"]
    /\ backups = [v \in Versions |-> "none"]
    /\ hist = [tries |-> 0, faults |-> 0, flakes |-> 0]

-----------------------------------------------------------------------------
(* How a step ends. *)

\* Reconcile returns: the in-memory copy is dropped.
Return == pc' = "Idle" /\ mdb' = Created /\ desired' = NoVersion

\* Something goes wrong that the code cannot rule out: in the operator, in a pod.
Fault == hist.faults < MaxFaults /\ hist' = [hist EXCEPT !.faults = @ + 1]
Flake == hist.flakes < MaxFlakes /\ hist' = [hist EXCEPT !.flakes = @ + 1]

Goto(step) == pc' = step /\ UNCHANGED <<mdb, desired>>

(***************************************************************************)
(* External: commonsstatus.UpdateWithRetry.  A write of a stale object     *)
(* conflicts; the object is then read again and the closure F applied to   *)
(* what was read.  Either way F lands on the newest object.                *)
(***************************************************************************)
UpdateWithRetry(F(_)) == obj' = [obj EXCEPT !.st = F(obj)] /\ UNCHANGED cache

\* The reconcile goes on with the object the server answered with.
WriteAndGoto(F(_), step) ==
    UpdateWithRetry(F) /\ mdb' = obj' /\ pc' = step /\ UNCHANGED <<desired, hist>>

WriteAndReturn(F(_)) == UpdateWithRetry(F) /\ Return /\ UNCHANGED hist

-----------------------------------------------------------------------------
(* Reconcile up to the upgrade. *)

StartReconcile ==
    /\ pc = "Idle"
    /\ mdb' = IF FreshCache THEN obj ELSE cache
    /\ pc' = "Phase"
    /\ UNCHANGED <<crd, desired, cluster>>

setInitializing(o) == [o.st EXCEPT !.phase = "Initializing"]

\* Also reads desiredVersion, the first thing reconcileUpgrade does.
ReconcilePhase ==
    /\ pc = "Phase"
    /\ IF mdb.st.phase = "Pending"
       THEN UpdateWithRetry(setInitializing) /\ mdb' = obj'
       ELSE UNCHANGED <<obj, cache, mdb>>
    /\ pc' = "Seed" /\ desired' = mdb'.spec.version
    /\ UNCHANGED <<hist, cluster>>

seed(o) ==
    LET e == IF o.st.eff = NoVersion THEN desired ELSE o.st.eff
    IN  [o.st EXCEPT !.eff = e, !.version = IF @ = NoVersion THEN e ELSE @]

SeedVersions ==
    /\ pc = "Seed"
    /\ IF mdb.st.eff = NoVersion \/ mdb.st.version = NoVersion
       THEN WriteAndGoto(seed, "Upgrade")
       ELSE Goto("Upgrade") /\ UNCHANGED crd
    /\ UNCHANGED cluster

-----------------------------------------------------------------------------
(* reconcileUpgrade. *)

UpgradeNeeded == mdb.st.version # NoVersion /\ mdb.st.version # desired

\* Mutant: an upgrade that ended bars all later ones.
AlreadyTerminal_AnyGeneration == mdb.st.up = "None" /\ mdb.st.upGen # 0

AlreadyTerminal == mdb.st.up = "None" /\ mdb.st.upGen = mdb.gen /\ mdb.st.upGen # 0

AtUpgrade(phase) == pc = "Upgrade" /\ UpgradeNeeded /\ mdb.st.up = phase

clearUpgrade(o) == [o.st EXCEPT !.up = "None", !.start = NoTime]

NoUpgrade ==
    /\ pc = "Upgrade" /\ ~UpgradeNeeded
    /\ IF mdb.st.up # "None"
       THEN WriteAndGoto(clearUpgrade, "Sts")
       ELSE Goto("Sts") /\ UNCHANGED crd
    /\ UNCHANGED cluster

AwaitSpecChange ==
    /\ AtUpgrade("None") /\ AlreadyTerminal
    /\ Goto("Sts") /\ UNCHANGED <<crd, cluster>>

\* Mutants: the rollback target is not recorded; the backup is skipped.
initUpgrade_NoPrevious(o) ==
    [o.st EXCEPT !.eff = desired, !.rb = FALSE, !.start = 0,
                 !.up = IF o.spec.backup THEN "BackingUp" ELSE "Upgrading"]

initUpgrade_NoBackup(o) ==
    [o.st EXCEPT !.prev = mdb.st.version, !.eff = desired, !.rb = FALSE, !.start = 0,
                 !.up = "Upgrading"]

initUpgrade(o) ==
    [o.st EXCEPT !.prev = mdb.st.version, !.eff = desired, !.rb = FALSE, !.start = 0,
                 !.up = IF o.spec.backup THEN "BackingUp" ELSE "Upgrading"]

InitUpgrade ==
    /\ AtUpgrade("None") /\ ~AlreadyTerminal
    /\ UpdateWithRetry(initUpgrade) /\ Return
    /\ hist' = [hist EXCEPT !.tries = IF @ < 2 THEN @ + 1 ELSE @]
    /\ UNCHANGED cluster

CreateBackup ==
    /\ AtUpgrade("BackingUp") /\ backups[desired] = "none"
    /\ backups' = [backups EXCEPT ![desired] = "Pending"]
    /\ Return /\ UNCHANGED <<crd, sts, pods, mongo>>

KeepUpgrading ==
    /\ AtUpgrade("Upgrading")
    /\ Goto("Sts") /\ UNCHANGED <<crd, cluster>>

\* Mutant: the transition is made outside the closure and lost in a conflict.
setUpgrading_Lost(o) == o.st

setUpgrading(o) == [o.st EXCEPT !.up = "Upgrading"]

BackupCompleted ==
    /\ AtUpgrade("BackingUp") /\ backups[desired] = "Completed"
    /\ WriteAndReturn(setUpgrading) /\ UNCHANGED cluster

abortUpgrade(o) == [o.st EXCEPT !.up = "None", !.start = NoTime]

BackupFailed ==
    /\ AtUpgrade("BackingUp") /\ backups[desired] = "Failed"
    /\ WriteAndReturn(abortUpgrade) /\ UNCHANGED cluster

\* Mutant: readiness alone, as before the check was made version-aware.
stsRolloutComplete_ReadyOnly == sts.ready = Members

\* UpdatedReplicas and ReadyReplicas as sets of members; only their being full is read.
stsRolloutComplete ==
    /\ sts.updated = Members /\ sts.ready = Members
    /\ sts.current = sts.update

\* A container waits in ImagePullBackOff, ErrImagePull, CrashLoopBackOff, InvalidImageName.
stsRolloutStuck == \E m \in Members : pods[m].s = "crashing"

\* The early returns that only ask for another reconcile later.
UpgradeWaits ==
    /\ \/ AtUpgrade("BackingUp") /\ backups[desired] = "Pending"
       \/ /\ AtUpgrade("Validating")
          /\ \/ mdb.st.start = NoTime
             \/ stsRolloutComplete /\ mdb.st.start < Interval
             \/ ~stsRolloutComplete /\ ~stsRolloutStuck /\ mdb.st.start < Timeout
    /\ Return /\ UNCHANGED <<crd, cluster>>

\* External: a primary exists when a majority of the initiated set is up.
HasPrimary ==
    mongo.rs /\ 2 * Cardinality({m \in Members : pods[m].s = "ready"}) > N

\* External: setFeatureCompatibilityVersion is refused unless every member's binary knows f.
FCVAccepted(f) ==
    HasPrimary /\ \A m \in Members : f <= fcvMajorMinor(pods[m].v)

AtValidation == AtUpgrade("Validating") /\ mdb.st.start # NoTime

\* Mutant: a refused SetFCV is taken for a success.
commitFCV_IgnoresRefusal ==
    /\ AtValidation /\ stsRolloutComplete /\ mdb.st.start >= Interval
    /\ mongo' = IF FCVAccepted(fcvMajorMinor(desired))
                THEN [mongo EXCEPT !.fcv = fcvMajorMinor(desired)] ELSE mongo
    /\ Goto("Complete") /\ UNCHANGED <<crd, sts, pods, backups>>

commitFCV ==
    /\ AtValidation /\ stsRolloutComplete /\ mdb.st.start >= Interval
    /\ \/ mdb.st.fcv = fcvMajorMinor(desired) /\ UNCHANGED mongo
       \/ /\ mdb.st.fcv # fcvMajorMinor(desired) /\ FCVAccepted(fcvMajorMinor(desired))
          /\ mongo' = [mongo EXCEPT !.fcv = fcvMajorMinor(desired)]
    /\ Goto("Complete") /\ UNCHANGED <<crd, sts, pods, backups>>

\* SetFCV is refused: retried by a later reconcile.
FCVRefused ==
    /\ AtValidation /\ stsRolloutComplete /\ mdb.st.start >= Interval
    /\ mdb.st.fcv # fcvMajorMinor(desired) /\ ~FCVAccepted(fcvMajorMinor(desired))
    /\ Return /\ UNCHANGED <<crd, cluster>>

\* Mutant: the generation recorded is off by one.
completeUpgrade_NextGeneration(o) ==
    [o.st EXCEPT !.version = desired, !.eff = desired, !.fcv = fcvMajorMinor(desired),
                 !.rb = FALSE, !.up = "None", !.start = NoTime, !.retry = 0, !.upGen = o.gen + 1]

completeUpgrade(o) ==
    [o.st EXCEPT !.version = desired, !.eff = desired, !.fcv = fcvMajorMinor(desired),
                 !.rb = FALSE, !.up = "None", !.start = NoTime, !.retry = 0, !.upGen = o.gen]

CompleteUpgrade ==
    /\ pc = "Complete"
    /\ WriteAndReturn(completeUpgrade) /\ UNCHANGED cluster

setRollingBack(o) == [o.st EXCEPT !.up = "RollingBack"]

failUpgrade(o) == [o.st EXCEPT !.up = "None", !.start = NoTime, !.upGen = o.gen]

upgradeValidationFailed ==
    /\ AtValidation /\ ~stsRolloutComplete
    /\ stsRolloutStuck \/ mdb.st.start >= Timeout
    /\ IF mdb.spec.rollback THEN WriteAndReturn(setRollingBack)
                            ELSE WriteAndReturn(failUpgrade)
    /\ UNCHANGED cluster

\* Mutants: the generation is not recorded, or off by one; the flag, or the effective
\* version, is left alone.
finishRollback_NoGeneration(o) ==
    [o.st EXCEPT !.eff = o.st.prev, !.rb = TRUE, !.up = "None", !.start = NoTime]

finishRollback_NextGeneration(o) ==
    [o.st EXCEPT !.eff = o.st.prev, !.rb = TRUE, !.up = "None", !.start = NoTime,
                 !.upGen = o.gen + 1]

finishRollback_NoFlag(o) ==
    [o.st EXCEPT !.eff = o.st.prev, !.up = "None", !.start = NoTime, !.upGen = o.gen]

finishRollback_SameVersion(o) ==
    [o.st EXCEPT !.rb = TRUE, !.up = "None", !.start = NoTime, !.upGen = o.gen]

finishRollback(o) ==
    [o.st EXCEPT !.eff = o.st.prev, !.rb = TRUE, !.up = "None", !.start = NoTime,
                 !.retry = IF @ < MaxRetry THEN @ + 1 ELSE @, !.upGen = o.gen]

reconcileUpgradeRollback ==
    /\ AtUpgrade("RollingBack")
    /\ IF mdb.st.prev = NoVersion THEN WriteAndReturn(clearUpgrade)
       ELSE IF mdb.spec.rollback THEN WriteAndReturn(finishRollback)
       ELSE WriteAndReturn(failUpgrade)
    /\ UNCHANGED cluster

-----------------------------------------------------------------------------
(* Reconcile after the upgrade. *)

\* A user's image override wins over the effective version.
effectiveMongoDBVersion(spec, eff) ==
    IF eff = NoVersion \/ spec.image THEN spec.version ELSE eff

reconcileStatefulSet ==
    /\ pc = "Sts"
    /\ LET v == effectiveMongoDBVersion(mdb.spec, mdb.st.eff)
       IN  sts' = [sts EXCEPT !.template = v, !.observed = @ /\ sts.template = v]
    /\ Goto(IF mdb.st.up = "Upgrading" THEN "Validating" ELSE "Ready")
    /\ UNCHANGED <<crd, pods, mongo, backups>>

setValidating(o) == [o.st EXCEPT !.up = "Validating", !.start = 0]

SetValidating ==
    /\ pc = "Validating"
    /\ WriteAndReturn(setValidating) /\ UNCHANGED cluster

areAllPodsReady ==
    /\ pc = "Ready"
    /\ IF sts.ready = Members
       THEN Goto(IF mdb.st.rsInit THEN "Primary" ELSE "RSInit")
       ELSE Return
    /\ UNCHANGED <<crd, cluster>>

setRSInitialized(o) == [o.st EXCEPT !.rsInit = TRUE]

\* replSetInitiate from outside the pod is refused unless mongod takes it anonymously;
\* a refusal ends in ReconcileError.
reconcileReplicaSetInitialization ==
    /\ pc = "RSInit"
    /\ mongo.rs \/ AnonymousAdmin
    /\ mongo' = IF mongo.rs THEN mongo
                ELSE [mongo EXCEPT !.rs = TRUE, !.fcv = fcvMajorMinor(pods[0].v)]
    /\ WriteAndGoto(setRSInitialized, "Primary")
    /\ UNCHANGED <<sts, pods, backups>>

\* Before the admin user exists an authentication error means "go on and bootstrap".
WaitForPrimary ==
    /\ pc = "Primary"
    /\ IF mdb.st.admin
       THEN IF HasPrimary THEN Goto("Status") ELSE Return
       ELSE IF mongo.admin \/ ~AnonymousAdmin \/ HasPrimary THEN Goto("Admin") ELSE Return
    /\ UNCHANGED <<crd, cluster>>

\* createUser; "already exists" and "requires authentication" both count as success.
BootstrapAdminUser ==
    /\ pc = "Admin"
    /\ mongo' = [mongo EXCEPT !.admin = @ \/ (AnonymousAdmin /\ HasPrimary)]
    /\ Goto("Verify") /\ UNCHANGED <<crd, sts, pods, backups>>

\* Mutant: the flag is set outside the closure and lost in a conflict.
setAdminCreated_Lost(o) == o.st

setAdminCreated(o) == [o.st EXCEPT !.admin = TRUE]

\* Mutant: the flag is persisted without looking for the user.
verifyAdminUser_Unchecked ==
    pc = "Verify" /\ WriteAndGoto(setAdminCreated, "Status") /\ UNCHANGED cluster

\* The user must be visible before the flag is persisted; else ReconcileError.
verifyAdminUser ==
    /\ pc = "Verify" /\ mongo.admin
    /\ WriteAndGoto(setAdminCreated, "Status") /\ UNCHANGED cluster

ObservedPhase(st) ==
    IF sts.ready = Members /\ st.rsInit /\ st.admin THEN "Running"
    ELSE IF sts.ready # {} THEN "Initializing" ELSE st.phase

applyStatus(o) == [o.st EXCEPT !.version = o.spec.version]

\* The phase is set outside the closure and lost when the write conflicts, which a stale
\* copy does unless clearPrimaryUnreachableCondition or reconcilePasswordRotation wrote,
\* and so read, the newest object on the way here.
updateStatus ==
    /\ pc = "Status"
    /\ LET seen == [obj EXCEPT !.st.phase = ObservedPhase(obj.st)]
       IN  \E base \in {seen} \cup (IF mdb = obj THEN {} ELSE {obj}) :
             obj' = [base EXCEPT !.st = applyStatus(base)]
    /\ Return /\ UNCHANGED <<cache, hist, cluster>>

-----------------------------------------------------------------------------
(* Failures of the operator. *)

setFailed(o) == [o.st EXCEPT !.phase = "Failed"]

\* The bootstrap calls that mongod refuses until the postStart hook has done its work.
Refused ==
    \/ pc = "RSInit" /\ ~mongo.rs /\ ~AnonymousAdmin
    \/ pc = "Verify" /\ ~mongo.admin

\* A call failed and updateStatusError recorded it.
ReconcileError ==
    /\ pc \in {"Seed", "Upgrade", "Complete", "Sts", "Ready", "RSInit", "Admin", "Verify", "Status"}
    /\ IF Refused THEN UNCHANGED hist ELSE Fault
    /\ UpdateWithRetry(setFailed) /\ Return /\ UNCHANGED cluster

\* The process died, lost its leadership, a status write failed for good, mongod did not
\* answer, or another process held the bootstrap lease: the reconcile ends, no write.
Crash ==
    /\ pc # "Idle" /\ Fault
    /\ Return /\ UNCHANGED <<obj, cache, cluster>>

-----------------------------------------------------------------------------
(* The environment. *)

\* The operator reports that the last edit went all the way through.
Settled ==
    /\ pc = "Idle" /\ obj.st.phase = "Running"
    /\ obj.st.up = "None" /\ obj.st.version = obj.spec.version

EditSpec ==
    /\ obj.gen < MaxGen
    /\ Edits = "Settled" => Settled
    /\ Edits = "Idle" => pc = "Idle"
    /\ \E s \in Specs \ {obj.spec} :
         /\ Webhook => IsValidUpgradePath(obj.spec.version, s.version)
         /\ obj' = [obj EXCEPT !.spec = s, !.gen = @ + 1]
         /\ hist' = [hist EXCEPT !.tries = 0]
    /\ UNCHANGED <<cache, mdb, pc, desired, cluster>>

SyncCache ==
    /\ ~FreshCache /\ cache # obj
    /\ cache' = obj
    /\ UNCHANGED <<obj, hist, mdb, pc, desired, cluster>>

Older(o) ==
    [o EXCEPT !.st.start = IF @ = NoTime \/ @ = Timeout THEN @ ELSE @ + 1]

Tick ==
    /\ PromptSts => sts.observed
    /\ obj' = Older(obj) /\ cache' = Older(cache) /\ mdb' = Older(mdb)
    /\ UNCHANGED <<hist, pc, desired, cluster>>

UpToDate(m) == pods[m].v = sts.template

\* The StatefulSet controller publishes what it sees of the pods.
StsObserve ==
    /\ sts.template # NoVersion
    /\ sts' = [sts EXCEPT
         !.update = sts.template, !.observed = TRUE,
         !.updated = {m \in Members : UpToDate(m)},
         !.ready = {m \in Members : pods[m].s = "ready"},
         !.current = IF @ = NoVersion \/ \A m \in Members : UpToDate(m) /\ pods[m].s = "ready"
                     THEN sts.template ELSE @]
    /\ UNCHANGED <<crd, mdb, pc, desired, pods, mongo, backups>>

\* A pod's containers start afresh; on pod 0 the postStart hook runs again.
Start(m, v, s) ==
    /\ pods' = [pods EXCEPT ![m] = [v |-> v, s |-> s]]
    /\ mongo' = [mongo EXCEPT !.hook = IF m = 0 THEN "run" ELSE @]
    /\ UNCHANGED <<obj, cache, mdb, pc, desired, sts, backups>>

\* All pods are created at once; later ones are replaced from the highest ordinal down,
\* each when those above it run the new revision and are ready.
RollPod(m) ==
    /\ ~UpToDate(m)
    /\ pods[m].v = NoVersion \/ \A k \in m + 1 .. N - 1 : UpToDate(k) /\ pods[k].s = "ready"
    /\ Start(m, sts.template, "starting") /\ UNCHANGED hist

\* mongod can serve: the image is good and the data files' FCV fits the binary.
Runs(m) ==
    /\ pods[m].v \notin BadVersions
    /\ mongo.rs => BinaryRunsAtFCV(pods[m].v, mongo.fcv)

PodReady(m) ==
    /\ pods[m].s \in {"starting", "crashing"} /\ Runs(m)
    /\ m = 0 => mongo.hook = "done"
    /\ pods' = [pods EXCEPT ![m].s = "ready"]
    /\ UNCHANGED <<crd, mdb, pc, desired, sts, mongo, backups>>

PodCrashes(m) ==
    /\ pods[m].s \in {"starting", "ready"}
    /\ IF Runs(m) THEN Flake ELSE UNCHANGED hist
    /\ Start(m, pods[m].v, "crashing")

\* The members besides pod 0 whose mongod answers.
Serving == {m \in Members \ {0} : pods[m].s = "ready"}

\* bootstrap-admin.sh, first half: rs.initiate when rs.status() says NotYetInitialized;
\* mongod wants every member to answer.
HookInitiate ==
    /\ mongo.hook = "run" /\ pods[0].s # "absent" /\ Runs(0) /\ ~mongo.rs
    /\ Serving = Members \ {0}
    /\ mongo' = [mongo EXCEPT !.rs = TRUE, !.hook = "initiated",
                              !.fcv = fcvMajorMinor(pods[0].v)]
    /\ UNCHANGED <<crd, mdb, pc, desired, sts, pods, backups>>

\* second half: createUser, once pod 0 is primary.  A hook that fails before it is done
\* takes its container with it (PodCrashes).
HookCreateUser ==
    /\ mongo.hook = "initiated" /\ 2 * (1 + Cardinality(Serving)) > N
    /\ mongo' = [mongo EXCEPT !.admin = TRUE, !.hook = "done"]
    /\ UNCHANGED <<crd, mdb, pc, desired, sts, pods, backups>>

\* The set is initiated already, or its state could not be read: nothing to do.
HookSkips ==
    /\ mongo.hook = "run" /\ pods[0].s # "absent" /\ Runs(0)
    /\ IF mongo.rs THEN UNCHANGED hist ELSE Flake
    /\ mongo' = [mongo EXCEPT !.hook = "done"]
    /\ UNCHANGED <<obj, cache, mdb, pc, desired, sts, pods, backups>>

BackupEnds(v) ==
    /\ backups[v] = "Pending"
    /\ \E r \in {"Completed"} \cup (IF BackupsMayFail THEN {"Failed"} ELSE {}) :
         backups' = [backups EXCEPT ![v] = r]
    /\ UNCHANGED <<crd, mdb, pc, desired, sts, pods, mongo>>

-----------------------------------------------------------------------------
ReconcileUpgrade ==
    \/ NoUpgrade \/ AwaitSpecChange \/ InitUpgrade \/ UpgradeWaits
    \/ CreateBackup \/ BackupCompleted \/ BackupFailed
    \/ commitFCV \/ FCVRefused \/ CompleteUpgrade
    \/ upgradeValidationFailed \/ reconcileUpgradeRollback
    \/ KeepUpgrading

Reconcile ==
    \/ StartReconcile \/ ReconcilePhase \/ SeedVersions \/ ReconcileUpgrade
    \/ reconcileStatefulSet \/ SetValidating \/ areAllPodsReady
    \/ reconcileReplicaSetInitialization \/ WaitForPrimary
    \/ BootstrapAdminUser \/ verifyAdminUser \/ updateStatus

Environment ==
    \/ SyncCache \/ StsObserve
    \/ \E m \in Members : RollPod(m) \/ PodReady(m) \/ PodCrashes(m)
    \/ HookInitiate \/ HookCreateUser \/ HookSkips
    \/ \E v \in Versions : BackupEnds(v)

\* Everything but the passing of time.
Act == Reconcile \/ ReconcileError \/ Crash \/ Environment \/ EditSpec

Next == Act \/ Tick

Spec == Init /\ [][Next]_vars

(***************************************************************************)
(* Fairness.  controller-runtime runs a reconcile again after every return *)
(* and every error, and a running reconcile goes on; pods, the StatefulSet *)
(* controller, the hook, backups and time make progress.  Nothing obliges  *)
(* the user to edit or anything to fail.                                   *)
(***************************************************************************)
FairSpec ==
    /\ Spec
    /\ WF_vars(Reconcile) /\ WF_vars(ReconcileError /\ Refused)
    /\ WF_vars(SyncCache) /\ WF_vars(Tick) /\ WF_vars(StsObserve)
    /\ \A m \in Members : WF_vars(RollPod(m)) /\ WF_vars(PodReady(m))
    /\ WF_vars(HookInitiate) /\ WF_vars(HookCreateUser) /\ WF_vars(mongo.rs /\ HookSkips)
    /\ WF_vars(\E v \in Versions : BackupEnds(v))

TypeOK ==
    /\ obj \in Objects /\ cache \in Objects /\ mdb \in Objects
    /\ pc \in Steps /\ desired \in Versions \cup {NoVersion}
    /\ sts \in [template : Versions \cup {NoVersion}, current : Versions \cup {NoVersion},
                update : Versions \cup {NoVersion}, updated : SUBSET Members, ready : SUBSET Members,
                observed : BOOLEAN]
    /\ pods \in [Members -> [v : Versions \cup {NoVersion},
                             s : {"absent", "starting", "ready", "crashing"}]]
    /\ mongo \in [rs : BOOLEAN, admin : BOOLEAN, hook : {"run", "initiated", "done"},
                  fcv : {fcvMajorMinor(v) : v \in Versions \cup {NoVersion}}]
    /\ backups \in [Versions -> {"none", "Pending", "Completed", "Failed"}]
    /\ hist \in [tries : 0 .. 2, faults : 0 .. MaxFaults, flakes : 0 .. MaxFlakes]

-----------------------------------------------------------------------------
(* Safety. *)

\* The bootstrap flags of the status are true of the database: whatever a reconcile,
\* the postStart hook or a crash did, status.replicaSetInitialized means the set is
\* initiated, and status.adminUserCreated and phase Running mean the admin user exists,
\* although BootstrapAdminUser reports success when it was merely refused.
BootstrapFlagsTruthful ==
    /\ obj.st.rsInit => mongo.rs
    /\ obj.st.admin => mongo.admin
    /\ obj.st.phase = "Running" => obj.st.rsInit /\ obj.st.admin

\* An upgrade in progress can always be finished: from initUpgrade on there is a version
\* to roll back to, and a validation always has the start time its timeout counts from
\* (without it reconcileUpgradeValidation would wait for ever).
UpgradeRecordComplete ==
    /\ obj.st.up # "None" => obj.st.prev # NoVersion /\ obj.st.eff # NoVersion
    /\ obj.st.up = "Validating" => obj.st.start # NoTime

\* One spec generation starts at most one upgrade: a failed or rolled-back attempt is
\* terminal until the spec changes (ObservedUpgradeGeneration).
OneAttemptPerGeneration == hist.tries <= 1

\* And only a generation that was tried is terminal: a new generation gets its attempt,
\* unless the version it asks for is the one deployed already.
TerminalWasAttempted ==
    obj.st.up = "None" /\ obj.st.upGen = obj.gen
        => hist.tries > 0 \/ obj.st.eff = obj.spec.version

\* ObservedUpgradeGeneration stands for exactly one attempt: of a generation, no second one is
\* started, and none is given up before the first.
AttemptedExactlyOnce == OneAttemptPerGeneration /\ TerminalWasAttempted

UpgradeCompletes ==
    obj.st.up = "Validating" /\ obj'.st.up = "None" /\ obj'.st.version # obj.st.version

\* An upgrade is declared complete only when every pod runs the version declared.
CompletedMeansRolledOut ==
    [][UpgradeCompletes => \A m \in Members : pods[m].v = obj'.st.version]_vars

\* With spec.upgradeStrategy.preUpgradeBackup the StatefulSet is not moved to another
\* version, rollbacks excepted, before the backup taken for that version is Completed.
BackupBeforeRollout ==
    [][ (/\ sts'.template # sts.template /\ sts.template # NoVersion
         /\ obj.spec.backup /\ ~obj.st.rb)
        => backups[sts'.template] = "Completed" ]_vars

\* With the webhook in front (no downgrades) and an up-to-date cache, the FCV the operator has
\* recorded in the status is never ahead of the one the cluster has, although the commit and the record
\* are two steps with a crash or another writer between them: commitFCV skips SetFCV on
\* the strength of the record.
FCVRecordTruthful == obj.st.fcv <= mongo.fcv

\* With the webhook in front, an up-to-date cache and no image override in the specs, the
\* StatefulSet moves to a lower minor only in a rollback, whenever during a reconcile the spec
\* changes.
DowngradeOnlyByRollback ==
    [][MajorMinor(sts'.template) < MajorMinor(sts.template) => mdb.st.rb]_vars

\* With the webhook in front and an up-to-date cache the feature compatibility version never
\* goes down.
FCVNeverLowered == [][mongo'.fcv >= mongo.fcv]_vars

-----------------------------------------------------------------------------
(* Liveness. *)

\* Every upgrade ends: completed, failed or rolled back.
UpgradeSettles == (obj.st.up # "None") ~> (obj.st.up = "None")

\* A new cluster comes up by itself.
EventuallyRunning == <>(obj.st.phase = "Running")

\* No version the user asks for is passed over in silence: it becomes the effective one,
\* or its generation is recorded as tried.
EditIsHandled ==
    (obj.st.eff # obj.spec.version)
        ~> (obj.st.eff = obj.spec.version \/ obj.st.upGen = obj.gen)

\* A rollback brings every member back, ready, on the version it rolls back to.
RollbackRestores ==
    obj.st.rb ~> (\A m \in Members : pods[m] = [v |-> obj.st.eff, s |-> "ready"])
=============================================================================
