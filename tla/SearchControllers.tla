-------------------------- MODULE SearchControllers --------------------------
(***************************************************************************)
(* One MongoDBSearch, one MongoDBSearchIndex on it, their two controllers  *)
(* and the source cluster they work on.  The source is a replica set or a  *)
(* sharded cluster: the difference is the list of stores the sync user has *)
(* to be created in, one after another (the set itself, or the mongos and  *)
(* then every shard), and the pods that carry a mongot sidecar.            *)
(*                                                                         *)
(* Passwords are generation numbers, 0 for none.  The definition of an     *)
(* index is left out: the controller reads it once, at the creation.       *)
(***************************************************************************)
EXTENDS Integers, Sequences, FiniteSets

CONSTANTS
    Stores,     \* a sequence: where the sync user is created, in this order
    Pods,       \* the mongod pods that get a sidecar
    MaxEdits,   \* bound: edits of the two objects
    MaxFaults   \* bound: failed calls, crashes, restarts, losses

VARIABLES
    search,   \* the MongoDBSearch: exists, deleting, finalizer, its two references, phase
    secret,   \* <name>-search-sync: none, owned, labelled, foreign; its password
    given,    \* the user's own Secret, spec.syncUserSecretRef: no, yes, deleted
    config,   \* the mongot ConfigMaps exist
    src,      \* the source: exists, Running, the sync Secret its annotation names
    pods,     \* each mongod pod: plain, starting or ready with its sidecar
    user,     \* the sync user's password in each store, 0 when absent
    idx,      \* the MongoDBSearchIndex: exists, deleting, finalizer, phase
    index,    \* the index in mongot: none, building, ready, failed
    srun,     \* the running reconcile of the search
    irun,     \* the running reconcile of the index
    hist      \* bounded counters, the last password, what got lost

vars == <<search, secret, given, config, src, pods, user, idx, index, srun, irun, hist>>

IdleS == [pc |-> "Idle", own |-> FALSE, running |-> FALSE]
IdleI == [pc |-> "Idle"]

Init ==
    /\ search \in [exists : {TRUE}, deleting : {FALSE}, fin : {FALSE}, own : BOOLEAN,
                   ref : BOOLEAN, phase : {"none"}]
    /\ secret \in [st : {"none", "labelled", "foreign"}, pw : {0}]
    /\ given \in {"no", "yes"}
    /\ config = FALSE
    /\ src = [exists |-> TRUE, running |-> FALSE, annotated |-> "no"]
    /\ pods = [p \in Pods |-> "plain"]
    /\ user = [i \in DOMAIN Stores |-> 0]
    /\ idx = [exists |-> TRUE, deleting |-> FALSE, fin |-> FALSE, phase |-> "none"]
    /\ index = "none"
    /\ srun = IdleS /\ irun = IdleI
    /\ hist = [edits |-> 0, faults |-> 0, pw |-> 0, secretLost |-> FALSE, unref |-> FALSE,
               blind |-> FALSE]

-----------------------------------------------------------------------------
(* MongoDBSearchReconciler *)

GotoS(step) == srun' = [srun EXCEPT !.pc = step]

Faulty ==
    /\ hist.faults < MaxFaults
    /\ hist' = [hist EXCEPT !.faults = @ + 1]

\* UpdateWithRetry: a search deleted meanwhile has no status to write.
SetSearchPhase(ph) ==
    /\ search' = IF search.exists THEN [search EXCEPT !.phase = ph] ELSE search
    /\ srun' = IdleS

\* Get, and the finalizer, which only the automatic user needs.  Without a reference to the
\* source a deletion has nothing to clean up, and everything else fails.
StartSearch ==
    /\ srun.pc = "Idle" /\ search.exists
    /\ \/ /\ search.deleting /\ search.ref
          /\ GotoS("Drop")
          /\ UNCHANGED <<search, hist>>
       \/ /\ search.deleting /\ ~search.ref
          /\ search' = [search EXCEPT !.exists = FALSE]
          /\ hist' = [hist EXCEPT !.unref = \E i \in DOMAIN Stores : user[i] # 0]
          /\ srun' = IdleS
       \/ ~search.deleting /\ ~search.ref /\ SetSearchPhase("Failed") /\ hist' = hist
       \/ /\ ~search.deleting /\ search.ref
          /\ search' = [search EXCEPT !.fin = @ \/ ~search.own]
          /\ srun' = [IdleS EXCEPT !.pc = "Source", !.own = search.own]
          /\ hist' = hist
    /\ UNCHANGED <<secret, given, config, src, pods, user, idx, index, irun>>

\* The source is read once; everything after works on this copy.
GetSource ==
    /\ srun.pc = "Source"
    /\ IF src.exists
       THEN srun' = [srun EXCEPT !.pc = "Secret", !.running = src.running] /\ search' = search
       ELSE SetSearchPhase("Pending")
    /\ UNCHANGED <<secret, given, config, src, pods, user, idx, index, irun, hist>>

\* A user's own Secret has to be there (resolveSyncUser).  Without one, a Secret the operator
\* owns is kept, one that only carries its label is adopted with a new password, one without
\* either is refused, and a missing one is created.
ensureSyncSecret ==
    /\ srun.pc = "Secret"
    /\ \/ /\ IF srun.own THEN given = "yes" ELSE secret.st = "owned"
          /\ GotoS("Config")
          /\ UNCHANGED <<secret, search, hist>>
       \/ /\ ~srun.own /\ secret.st \in {"none", "labelled"}
          /\ hist' = [hist EXCEPT !.pw = @ + 1]
          /\ secret' = [st |-> "owned", pw |-> hist.pw + 1]
          /\ GotoS("Config")
          /\ search' = search
       \/ /\ IF srun.own THEN given # "yes" ELSE secret.st = "foreign"
          /\ SetSearchPhase("Failed")
          /\ UNCHANGED <<secret, hist>>
    /\ UNCHANGED <<given, config, src, pods, user, idx, index, irun>>

\* The Secret the annotation and the ConfigMap name.
SyncSecret == IF srun.own THEN "own" ELSE "auto"

applyConfigMap_AfterAnnotate ==
    /\ srun.pc = "Config"
    /\ src' = [src EXCEPT !.annotated = SyncSecret]
    /\ GotoS("Annotate")
    /\ UNCHANGED <<search, secret, given, config, pods, user, idx, index, irun, hist>>

\* One ConfigMap per replica set that gets a sidecar.
applyConfigMap ==
    /\ srun.pc = "Config"
    /\ config' = TRUE
    /\ GotoS("Annotate")
    /\ UNCHANGED <<search, secret, given, src, pods, user, idx, index, irun, hist>>

\* The annotations make the source's own controller add the sidecar to its pods.  A source
\* that has gone makes the patch fail.
annotateSource ==
    /\ srun.pc = "Annotate"
    /\ IF src.exists
       THEN src' = [src EXCEPT !.annotated = SyncSecret] /\ GotoS("User")
       ELSE src' = src /\ srun' = IdleS
    /\ UNCHANGED <<search, secret, given, config, pods, user, idx, index, irun, hist>>

Ensured_OnlyIfAbsent(i, n) ==
    IF i <= n /\ user[i] = 0 THEN secret.pw ELSE user[i]

\* createUser, and updateUser where it exists: the password follows the Secret.
Ensured(i, n) == IF i <= n THEN secret.pw ELSE user[i]

\* Only for the automatic user of a source that was Running.  The stores are taken in order
\* up to the first failure, which is logged and not returned.
ensureSyncMongoUser ==
    /\ srun.pc = "User"
    /\ \/ /\ srun.own \/ ~srun.running \/ secret.pw = 0 \/ ~src.exists
          /\ UNCHANGED <<user, hist>>
       \/ /\ ~srun.own /\ srun.running /\ secret.pw # 0 /\ src.exists
          /\ \/ hist' = hist /\ user' = [i \in DOMAIN Stores |-> Ensured(i, Len(Stores))]
             \/ /\ Faulty
                /\ \E n \in 0..Len(Stores) - 1 :
                     user' = [i \in DOMAIN Stores |-> Ensured(i, n)]
    /\ GotoS("Status")
    /\ UNCHANGED <<search, secret, given, config, src, pods, idx, index, irun>>

\* Only containers named mongot are counted, so pods not rolled yet do not count at all.
ready == Cardinality({p \in Pods : pods[p] = "ready"})
total == Cardinality({p \in Pods : pods[p] # "plain"})

searchPhaseFromReadiness_StaysSyncing ==
    CASE total = 0 -> "Provisioning"
      [] total > 0 /\ ready = 0 -> "Degraded"
      [] ready > 0 -> "Syncing"

searchPhaseFromReadiness ==
    CASE total = 0 -> "Provisioning"
      [] total > 0 /\ ready = 0 -> "Degraded"
      [] ready > 0 /\ ready < total -> "Syncing"
      [] total > 0 /\ ready = total -> "Ready"

updateSearchStatus ==
    /\ srun.pc = "Status"
    /\ SetSearchPhase(IF srun.running THEN searchPhaseFromReadiness ELSE "Provisioning")
    /\ UNCHANGED <<secret, given, config, src, pods, user, idx, index, irun, hist>>

\* The Secret with the operator's label is the trace of an automatic user.
Traced == secret.st \in {"owned", "labelled"}

mayFinish_BestEffort == ~Traced \/ ~src.exists \/ ~src.running

mayFinish_NeedsSource == ~Traced

\* Nothing to drop: no trace, or the source is gone and the user with it.
mayFinish == ~Traced \/ ~src.exists

\* dropUser in every store, past a failure in one; any failure keeps the finalizer.
handleSearchDeletion ==
    /\ srun.pc = "Drop"
    /\ srun' = IdleS
    /\ \/ /\ mayFinish
          /\ search' = [search EXCEPT !.exists = FALSE]
          /\ UNCHANGED <<user, hist>>
       \/ /\ ~mayFinish /\ src.running
          /\ \/ /\ user' = [i \in DOMAIN Stores |-> 0]
                /\ search' = [search EXCEPT !.exists = FALSE]
                /\ hist' = hist
             \/ /\ Faulty
                /\ \E i \in DOMAIN Stores :
                     user' = [j \in DOMAIN Stores |-> IF i = j THEN user[j] ELSE 0]
                /\ search' = search
       \/ /\ ~mayFinish /\ ~src.running
          /\ UNCHANGED <<search, user, hist>>
    /\ UNCHANGED <<secret, given, config, src, pods, idx, index, irun>>

-----------------------------------------------------------------------------
(* MongoDBSearchIndexReconciler *)

GotoI(step) == irun' = [irun EXCEPT !.pc = step]

SetIndexPhase(ph) ==
    /\ idx' = IF idx.exists THEN [idx EXCEPT !.phase = ph] ELSE idx
    /\ irun' = IdleI

Resolved == search.exists /\ search.ref /\ src.exists

\* The search, the source or its admin Secret cannot be had.
Unresolved ==
    \/ /\ ~search.exists \/ (search.ref /\ ~src.exists)
       /\ hist' = [hist EXCEPT !.blind = @ \/ (idx.deleting /\ index # "none")]
    \/ /\ Resolved /\ hist.faults < MaxFaults
       /\ hist' = [hist EXCEPT !.faults = @ + 1,
                               !.blind = @ \/ (idx.deleting /\ index # "none")]

StartIndex_Waits ==
    /\ irun.pc = "Idle" /\ idx.exists
    /\ IF Resolved /\ idx.deleting THEN GotoI("DropIndex") /\ idx' = idx
       ELSE IF Resolved /\ ~idx.fin THEN idx' = [idx EXCEPT !.fin = TRUE] /\ irun' = irun
       ELSE IF Resolved /\ src.running /\ search.phase = "Ready"
            THEN GotoI("List") /\ idx' = idx
            ELSE SetIndexPhase("Pending")
    /\ UNCHANGED <<search, secret, given, config, src, pods, user, index, srun, hist>>

\* The search and the source are resolved first.  Without them a deletion ends with no drop;
\* a search without a reference to its source fails a deletion, too.
StartIndex ==
    /\ irun.pc = "Idle" /\ idx.exists
    /\ \/ search.exists /\ ~search.ref /\ SetIndexPhase("Failed") /\ hist' = hist
       \/ Unresolved /\ idx.deleting /\ idx' = [idx EXCEPT !.exists = FALSE] /\ irun' = IdleI
       \/ Unresolved /\ ~idx.deleting /\ SetIndexPhase("Pending")
       \/ /\ Resolved /\ idx.deleting
          /\ idx' = [idx EXCEPT !.phase = "Deleting"]
          /\ GotoI("DropIndex") /\ hist' = hist
       \/ /\ Resolved /\ ~idx.deleting /\ ~idx.fin
          /\ idx' = [idx EXCEPT !.fin = TRUE]
          /\ UNCHANGED <<irun, hist>>
       \/ /\ Resolved /\ ~idx.deleting /\ idx.fin
          /\ hist' = hist
          /\ IF src.running /\ search.phase = "Ready"
             THEN GotoI("List") /\ idx' = idx
             ELSE SetIndexPhase("Building")
    /\ UNCHANGED <<search, secret, given, config, src, pods, user, index, srun>>

\* READY and queryable is Ready, READY alone, PENDING, BUILDING and STALE are Building.
ClassifyMongotStatus ==
    CASE index = "ready" -> "Ready"
      [] index = "building" -> "Building"
      [] index = "failed" -> "Failed"

\* The connection fails: the source has gone since it was resolved, or this once.
Unreachable == Faulty \/ (~src.exists /\ hist' = hist)

\* An index that exists is only looked at: a changed definition is not applied.
ListIndexes ==
    /\ irun.pc = "List"
    /\ \/ Unreachable /\ SetIndexPhase("Pending")
       \/ /\ src.exists /\ index = "none"
          /\ GotoI("CreateIndex")
          /\ UNCHANGED <<idx, hist>>
       \/ /\ src.exists /\ index # "none"
          /\ SetIndexPhase(ClassifyMongotStatus)
          /\ hist' = hist
    /\ UNCHANGED <<search, secret, given, config, src, pods, user, index, srun>>

CreateIndex ==
    /\ irun.pc = "CreateIndex"
    /\ \/ /\ src.exists
          /\ index' = "building"
          /\ SetIndexPhase("Building")
          /\ hist' = hist
       \/ Unreachable /\ index' = index /\ SetIndexPhase("Failed")
    /\ UNCHANGED <<search, secret, given, config, src, pods, user, srun>>

DropIndex_IgnoresError ==
    /\ irun.pc = "DropIndex"
    /\ \/ index' = "none" /\ hist' = hist
       \/ Faulty /\ index' = index
    /\ idx' = [idx EXCEPT !.exists = FALSE]
    /\ irun' = IdleI
    /\ UNCHANGED <<search, secret, given, config, src, pods, user, srun>>

\* dropSearchIndex, where a missing index counts as dropped; an error keeps the finalizer.
DropIndex ==
    /\ irun.pc = "DropIndex"
    /\ \/ /\ src.exists
          /\ index' = "none"
          /\ idx' = [idx EXCEPT !.exists = FALSE]
          /\ hist' = hist
       \/ Unreachable /\ UNCHANGED <<index, idx>>
    /\ irun' = IdleI
    /\ UNCHANGED <<search, secret, given, config, src, pods, user, srun>>

-----------------------------------------------------------------------------
(* The source cluster, the users and the garbage collector *)

\* The source's controller has rolled this pod with the sidecar.  mongod and mongot start
\* once the ConfigMap and the Secret can be mounted.
RollPod(p) ==
    /\ src.annotated # "no" /\ pods[p] = "plain"
    /\ pods' = [pods EXCEPT ![p] = "starting"]
    /\ UNCHANGED <<search, secret, given, config, src, user, idx, index, srun, irun, hist>>

Mountable == config /\ IF src.annotated = "own" THEN given = "yes" ELSE secret.st # "none"

SidecarReady(p) ==
    /\ pods[p] = "starting" /\ Mountable
    /\ pods' = [pods EXCEPT ![p] = "ready"]
    /\ UNCHANGED <<search, secret, given, config, src, user, idx, index, srun, irun, hist>>

PodRestarts(p) ==
    /\ Faulty
    /\ pods[p] = "ready"
    /\ pods' = [pods EXCEPT ![p] = "starting"]
    /\ UNCHANGED <<search, secret, given, config, src, user, idx, index, srun, irun>>

SourceRuns ==
    /\ src.exists /\ ~src.running
    /\ src' = [src EXCEPT !.running = TRUE]
    /\ UNCHANGED <<search, secret, given, config, pods, user, idx, index, srun, irun, hist>>

SourceStops ==
    /\ Faulty
    /\ src.running
    /\ src' = [src EXCEPT !.running = FALSE]
    /\ UNCHANGED <<search, secret, given, config, pods, user, idx, index, srun, irun>>

\* The source is deleted, its pods, users and indexes with it.
SourceGone ==
    /\ src.exists /\ hist.edits < MaxEdits
    /\ src' = [exists |-> FALSE, running |-> FALSE, annotated |-> "no"]
    /\ pods' = [p \in Pods |-> "plain"]
    /\ user' = [i \in DOMAIN Stores |-> 0]
    /\ index' = "none"
    /\ hist' = [hist EXCEPT !.edits = @ + 1]
    /\ UNCHANGED <<search, secret, given, config, idx, srun, irun>>

IndexBuilds ==
    /\ index = "building"
    /\ \/ index' = "ready" /\ hist' = hist
       \/ index' = "failed" /\ Faulty
    /\ UNCHANGED <<search, secret, given, config, src, pods, user, idx, srun, irun>>

Edit ==
    /\ hist.edits < MaxEdits
    /\ \/ search.exists /\ search' = [search EXCEPT !.own = ~@] /\ idx' = idx
       \/ search.exists /\ search' = [search EXCEPT !.ref = ~@] /\ idx' = idx
       \/ search.exists /\ search' = [search EXCEPT !.deleting = TRUE, !.exists = search.fin]
                        /\ idx' = idx
       \/ idx.exists /\ idx' = [idx EXCEPT !.deleting = TRUE, !.exists = idx.fin]
                     /\ search' = search
    /\ hist' = [hist EXCEPT !.edits = @ + 1]
    /\ UNCHANGED <<secret, given, config, src, pods, user, index, srun, irun>>

\* A restore from a backup drops the owner reference; somebody, or a foreground deletion of
\* the search, deletes the Secret.
SecretChanges ==
    /\ hist.faults < MaxFaults
    /\ \/ /\ secret.st = "owned"
          /\ secret' = [secret EXCEPT !.st = "labelled"]
          /\ hist' = [hist EXCEPT !.faults = @ + 1]
       \/ /\ secret.st # "none"
          /\ secret' = [st |-> "none", pw |-> 0]
          /\ hist' = [hist EXCEPT !.faults = @ + 1, !.secretLost = TRUE]
    /\ UNCHANGED <<search, given, config, src, pods, user, idx, index, srun, irun>>

\* Somebody creates the user's own Secret, or deletes it.
GivenSecretChanges ==
    /\ \/ given # "yes" /\ given' = "yes" /\ hist' = hist
       \/ given = "yes" /\ given' = "deleted" /\ Faulty
    /\ UNCHANGED <<search, secret, config, src, pods, user, idx, index, srun, irun>>

\* The ConfigMap and an owned Secret go with the search.
Collect ==
    /\ ~search.exists
    /\ config \/ secret.st = "owned"
    /\ config' = FALSE
    /\ secret' = IF secret.st = "owned" THEN [st |-> "none", pw |-> 0] ELSE secret
    /\ UNCHANGED <<search, given, src, pods, user, idx, index, srun, irun, hist>>

\* A call returns an error or the process stops: nothing more is written.
Crash ==
    /\ Faulty
    /\ \/ srun.pc # "Idle" /\ srun' = IdleS /\ irun' = irun
       \/ irun.pc # "Idle" /\ irun' = IdleI /\ srun' = srun
    /\ UNCHANGED <<search, secret, given, config, src, pods, user, idx, index>>

ReconcileSearch ==
    \/ StartSearch \/ GetSource \/ ensureSyncSecret \/ applyConfigMap \/ annotateSource
    \/ ensureSyncMongoUser \/ updateSearchStatus \/ handleSearchDeletion

ReconcileIndex ==
    \/ StartIndex \/ ListIndexes \/ CreateIndex \/ DropIndex

Cluster ==
    \/ SourceRuns \/ IndexBuilds \/ Collect
    \/ \E p \in Pods : RollPod(p) \/ SidecarReady(p)

Next ==
    \/ ReconcileSearch \/ ReconcileIndex \/ Cluster
    \/ SourceStops \/ SourceGone \/ Edit \/ SecretChanges \/ GivenSecretChanges \/ Crash
    \/ \E p \in Pods : PodRestarts(p)

Spec == Init /\ [][Next]_vars

\* Both controllers requeue, a stopped source comes back and its pods get rolled.
FairSpec ==
    /\ Spec
    /\ WF_vars(ReconcileSearch) /\ WF_vars(ReconcileIndex)
    /\ WF_vars(SourceRuns) /\ WF_vars(IndexBuilds)
    /\ \A p \in Pods : WF_vars(RollPod(p) \/ SidecarReady(p))

-----------------------------------------------------------------------------

SecretLost == IF src.annotated = "own" THEN given = "deleted" ELSE hist.secretLost

\* The source never refers to mongot configuration that is not there.  The annotation makes the
\* pods mount the ConfigMap and the sync Secret, mongod included, so reconcile writes both
\* before it annotates, or finds the user's own Secret there: while the search exists a rolled
\* pod can start, whatever is edited, crashes or is retried in between, unless somebody deleted
\* that very Secret.
AnnotatedPodsCanStart ==
    search.exists /\ src.annotated # "no" => config /\ (Mountable \/ SecretLost)

\* A deleted search leaves no sync user in a source that is still there.  handleDeletion keeps
\* the finalizer over a source that is not Running and over a failed drop in one of several
\* stores, also when the search was switched to a user's own Secret in the meantime.  The
\* Secret is its only trace of the user and the reference its only way to it: a search that
\* somebody took one of them from is outside the promise.
NoUserLeft ==
    ~search.exists /\ ~hist.secretLost /\ ~hist.unref => \A i \in DOMAIN Stores : user[i] = 0

\* A deleted index object leaves no index in mongot, unless the search or the connection to
\* the source was already missing when its finalizer was handled.
NoIndexLeft ==
    ~idx.exists /\ ~hist.blind /\ irun.pc = "Idle" => index = "none"

\* What a deletion was to clean up is gone when the object is: the sync user of a search and
\* the index of an index object (both handleDeletions).
DeletionIsClean == NoUserLeft /\ NoIndexLeft

AutoUser ==
    /\ search.exists /\ ~search.deleting /\ ~search.own /\ search.ref
    /\ src.exists /\ secret.st = "owned"

\* The sync user's password follows the Secret in every store.  A user left from an earlier
\* search, a Secret adopted with a new password, or a pass that stopped at one of the shards
\* does not leave mongot locked out.
PasswordConverges ==
    AutoUser ~> (~AutoUser \/ \A i \in DOMAIN Stores : user[i] = secret.pw)

IndexWanted ==
    /\ idx.exists /\ ~idx.deleting /\ search.exists /\ ~search.deleting /\ search.ref
    /\ src.exists
    /\ IF search.own THEN given = "yes" ELSE secret.st # "foreign"

\* An index on a live search gets built: the search's Ready, which the index controller waits
\* for, is reached and the index leaves Building and Pending.  A search whose sync Secret is
\* refused, or whose user's own Secret is missing, is outside: every pass ends in Failed.
IndexSettles ==
    IndexWanted ~> (~IndexWanted \/ idx.phase \in {"Ready", "Failed"})

\* A live search settles: its password reaches every store (ensureSyncMongoUser), and an index
\* on it gets built (ensureIndex).
SearchSettles == PasswordConverges /\ IndexSettles

\* A deleted search goes away although its source was stopped for a while.
SearchDeletionEnds == search.deleting ~> ~search.exists

\* A deleted index object goes away, whatever becomes of the search and the source meanwhile:
\* what cannot be reached is given up (Reconcile's "wedge" comments).  Only a search without a
\* reference to its source holds it, for as long as it lacks one.
IndexDeletionEnds ==
    idx.deleting ~> (~idx.exists \/ (search.exists /\ ~search.ref))

\* Deleted objects go away, in whatever order the search, the index and the source are deleted
\* (both handleDeletions).
DeletionsEnd == SearchDeletionEnds /\ IndexDeletionEnds

\* What reconcileSharded's comment says of the phase (no early promotion to Ready; Ready when
\* all sidecars are): Ready is written only when every pod of the source serves its sidecar.
ReadyOnlyWhenServed ==
    [][search'.phase = "Ready" /\ srun.pc = "Status"
         => \A p \in Pods : pods[p] = "ready"]_vars

=============================================================================
