-------------------------- MODULE BackupControllers --------------------------
(***************************************************************************)
(* One MongoDBBackup, which is a backup or, with spec.restore, a restore,  *)
(* one MongoDBBackupVerification of it, their two controllers and the Jobs *)
(* they start.  Both reconciles are split at every call to the API server. *)
(*                                                                         *)
(* A Job is absent, created, active, complete or failed; its controller    *)
(* starts and ends it and its TTL removes it afterwards.  What a Job or    *)
(* the Secret belongs to is its owner reference: the garbage collector     *)
(* takes it once the owner is gone.                                        *)
(*                                                                         *)
(* Both objects may be deleted and created again under their names, and    *)
(* the names of the Jobs and the Secret derive from them.  A reference or  *)
(* a running reconcile is of "this" object, the last one of the name, or   *)
(* of an "earlier" one: the UIDs, as far as anything tells them apart.     *)
(***************************************************************************)
EXTENDS Integers

CONSTANTS
    MaxEdits,    \* bound: edits of spec.restore
    MaxUpsets    \* bound: failed calls and crashes of the operator, Jobs removed by their
                 \* TTL, backups created again and verifications deleted

VARIABLES
    cr,      \* the MongoDBBackup: exists, deleting, finalizer, restore, phase
    src,     \* the phase of the backup that spec.restore names as its source: no step reads it
    ver,     \* the MongoDBBackupVerification: exists, phase
    job,     \* the Jobs: state, the owner reference, the object that created it
    uri,     \* the owner of the <name>-backup-uri Secret
    brun,    \* the running reconcile of the backup: its step and its copy
    vrun,    \* the running reconcile of the verification: its step and its copy
    hist     \* bounded counters; the Jobs of the objects that completed and that an
             \* earlier one left to them; a deleted backup's Job was kept

vars == <<cr, src, ver, job, uri, brun, vrun, hist>>

None == "none"
Jobs == {"backup", "restore", "verify"}
Reported == {"backup", "verify"}  \* the Jobs whose completion a phase reports
Finished == {"complete", "failed"}
Terminal == {"Completed", "Failed"}
NoJob == [st |-> None, owner |-> None, made |-> None]

\* What a reconcile of the backup keeps: the copy of the object, and the Job it has read.
IdleB == [pc |-> "Idle", restore |-> FALSE, phase |-> None, fresh |-> FALSE, job |-> None]
IdleV == [pc |-> "Idle", restore |-> FALSE, of |-> None]

Init ==
    /\ cr \in [exists : {TRUE}, deleting : {FALSE}, fin : {FALSE}, restore : BOOLEAN,
               phase : {None}]
    /\ src = "Running"
    /\ ver = [exists |-> TRUE, phase |-> None]
    /\ job = [k \in Jobs |-> NoJob]
    /\ uri = None
    /\ brun = IdleB /\ vrun = IdleV
    /\ hist = [edits |-> 0, upsets |-> 0, done |-> {}, left |-> {}, kept |-> FALSE]

-----------------------------------------------------------------------------
(* MongoDBBackupReconciler *)

GotoB(step) == brun' = IF step = "Idle" THEN IdleB ELSE [brun EXCEPT !.pc = step]

\* commonsstatus.UpdateWithRetry with a closure that sets the phase: after a conflict the
\* copy in memory is the reloaded object, with the closure applied.
WritePhase(ph, step) ==
    /\ cr' = [cr EXCEPT !.phase = ph]
    /\ brun' = IF step = "Idle" THEN IdleB
               ELSE [brun EXCEPT !.pc = step, !.phase = ph, !.fresh = TRUE,
                                 !.restore = IF brun.fresh THEN @ ELSE cr.restore]

\* updateStatusError: Failed for good, whatever the error was.
updateStatusError == WritePhase("Failed", "Idle")

\* A call that fails, or another of the events that are bounded together.
Upset ==
    /\ hist.upsets < MaxUpsets
    /\ hist' = [hist EXCEPT !.upsets = @ + 1]

\* Get, and the dispatch on deletion, finalizer, terminal phase and spec.restore.
Start ==
    /\ brun.pc = "Idle" /\ cr.exists
    /\ cr.deleting \/ ~cr.fin \/ cr.phase \notin Terminal
    /\ brun' = [pc |-> IF cr.deleting THEN "Delete"
                       ELSE IF ~cr.fin THEN "Finalizer"
                       ELSE IF cr.restore THEN "Restoring" ELSE "Pending",
                restore |-> cr.restore, phase |-> cr.phase, fresh |-> TRUE, job |-> None]
    /\ UNCHANGED <<cr, src, ver, job, uri, vrun, hist>>

\* An Update that conflicts is an error, and the reconcile starts over.
AddFinalizer ==
    /\ brun.pc = "Finalizer"
    /\ cr' = IF brun.fresh THEN [cr EXCEPT !.fin = TRUE] ELSE cr
    /\ GotoB("Idle")
    /\ UNCHANGED <<src, ver, job, uri, vrun, hist>>

SetRestoring ==
    /\ brun.pc = "Restoring"
    /\ IF brun.phase \in {None, "Pending"}
       THEN WritePhase("Restoring", "RestoreURI")
       ELSE GotoB("RestoreURI") /\ cr' = cr
    /\ UNCHANGED <<src, ver, job, uri, vrun, hist>>

SetPending ==
    /\ brun.pc = "Pending"
    /\ IF brun.phase = None
       THEN WritePhase("Pending", "URI")
       ELSE GotoB("URI") /\ cr' = cr
    /\ UNCHANGED <<src, ver, job, uri, vrun, hist>>

\* The Secret with the connection string is created, or updated without a change of its owner.
\* An error fails a backup for good; a restore asks again later.
getClusterConnectionString ==
    /\ brun.pc \in {"URI", "RestoreURI"}
    /\ \/ /\ uri' = IF uri = None THEN "this" ELSE uri
          /\ GotoB(IF brun.pc = "URI" THEN "Job" ELSE "RestoreJob")
          /\ UNCHANGED <<cr, hist>>
       \/ /\ Upset
          /\ uri' = uri
          /\ IF brun.pc = "URI" THEN updateStatusError ELSE GotoB("Idle") /\ cr' = cr
    /\ UNCHANGED <<src, ver, job, vrun>>

createOrUpdate_Unowned(k, o) ==
    job' = [job EXCEPT ![k] = IF @.st = None THEN [st |-> "created", owner |-> None, made |-> o]
                              ELSE @]

\* CreateOrUpdate with SetControllerReference: a Job that exists under the name only gets the
\* owner reference, and a reference to an object of the same name is no obstacle.
createOrUpdate(k, o) ==
    job' = [job EXCEPT ![k] = IF @.st = None THEN [st |-> "created", owner |-> o, made |-> o]
                              ELSE [@ EXCEPT !.owner = o]]

\* BuildRestoreJob refuses an object without spec.restore, which the copy may have become
\* when the status write reloaded it.  The phase of the source is not looked at.
CreateRestoreJob ==
    /\ brun.pc = "RestoreJob"
    /\ \/ /\ brun.restore
          /\ createOrUpdate("restore", "this")
          /\ GotoB("Idle")
          /\ UNCHANGED <<cr, hist>>
       \/ /\ ~brun.restore
          /\ updateStatusError
          /\ UNCHANGED <<job, hist>>
       \/ Upset /\ updateStatusError /\ job' = job
    /\ UNCHANGED <<src, ver, uri, vrun>>

CreateBackupJob ==
    /\ brun.pc = "Job"
    /\ \/ /\ createOrUpdate("backup", "this")
          /\ GotoB("ReadJob")
          /\ UNCHANGED <<cr, hist>>
       \/ Upset /\ updateStatusError /\ job' = job
    /\ UNCHANGED <<src, ver, uri, vrun>>

\* updateBackupStatus reads the Job; one that is gone again is an error.
ReadJob ==
    /\ brun.pc = "ReadJob"
    /\ brun' = IF job["backup"].st = None THEN IdleB
               ELSE [brun EXCEPT !.pc = "WriteStatus", !.job = job["backup"].st]
    /\ UNCHANGED <<cr, src, ver, job, uri, vrun, hist>>

phaseOf_AnyEnd(st, ph) == IF st \in Finished THEN "Completed" ELSE "Running"

phaseOf_IgnoresFailure(st, ph) == IF st = "complete" THEN "Completed" ELSE "Running"

\* A Job without an active pod and without an end leaves the phase as it is.
phaseOf(st, ph) ==
    CASE st = "complete" -> "Completed"
      [] st = "failed" -> "Failed"
      [] st = "active" -> "Running"
      [] OTHER -> ph

\* The status follows the Job that was read, however old that reading is.
updateBackupStatus ==
    /\ brun.pc = "WriteStatus"
    /\ WritePhase(phaseOf(brun.job, brun.phase), "Idle")
    /\ UNCHANGED <<src, ver, job, uri, vrun, hist>>

handleDeletion_LeavesJob ==
    /\ brun.pc = "Delete"
    /\ cr' = [cr EXCEPT !.exists = FALSE]
    /\ GotoB("Idle")
    /\ UNCHANGED <<src, ver, job, uri, vrun, hist>>

\* Deletes the backup Job, not the restore Job, ignores an error, drops the finalizer.  The
\* finalizer goes last, so a backup that has it is the same object throughout a reconcile.
handleDeletion ==
    /\ brun.pc = "Delete"
    /\ \/ job' = [job EXCEPT !["backup"] = NoJob] /\ hist' = hist
       \/ /\ hist.upsets < MaxUpsets
          /\ hist' = [hist EXCEPT !.upsets = @ + 1, !.kept = TRUE]
          /\ job' = job
    /\ cr' = [cr EXCEPT !.exists = FALSE]
    /\ GotoB("Idle")
    /\ UNCHANGED <<src, ver, uri, vrun>>

-----------------------------------------------------------------------------
(* MongoDBBackupVerificationReconciler *)

GotoV(step) == vrun' = IF step = "Idle" THEN IdleV ELSE [vrun EXCEPT !.pc = step]

\* Pending: waits for the backup to be Completed, and keeps the copy it has read.  The
\* queryable instance is created here too; nothing reads it again.
StartVerification ==
    /\ vrun.pc = "Idle" /\ ver.exists
    /\ ver.phase = None /\ cr.exists /\ cr.phase = "Completed"
    /\ vrun' = [pc |-> "SetRestoring", restore |-> cr.restore, of |-> "this"]
    /\ UNCHANGED <<cr, src, ver, job, uri, brun, hist>>

\* The phase Restoring, and only then the restore Job.  A verification has no finalizer: it may
\* be another one by now, and an Update of the copy of one that is gone is an error.
SetVerificationRestoring ==
    /\ vrun.pc = "SetRestoring"
    /\ IF ver.exists /\ vrun.of = "this"
       THEN ver' = [ver EXCEPT !.phase = "Restoring"] /\ GotoV("Job")
       ELSE ver' = ver /\ GotoV("Idle")
    /\ UNCHANGED <<cr, src, job, uri, brun, hist>>

\* BuildRestoreJob again: an error for a backup that is not a restore.
CreateVerifyJob ==
    /\ vrun.pc = "Job"
    /\ IF vrun.restore THEN createOrUpdate("verify", vrun.of) ELSE job' = job
    /\ GotoV("Idle")
    /\ UNCHANGED <<cr, src, ver, uri, brun, hist>>

checkRestoreJob_Active == job["verify"].st # None

\* The restore Job of the verification has completed.
checkRestoreJob == job["verify"].st = "complete"

Restoring ==
    /\ vrun.pc = "Idle" /\ ver.exists /\ ver.phase = "Restoring"
    /\ \/ checkRestoreJob /\ ver' = [ver EXCEPT !.phase = "Verifying"]
       \/ job["verify"].st = "failed" /\ ver' = [ver EXCEPT !.phase = "Failed"]
    /\ UNCHANGED <<cr, src, job, uri, brun, vrun, hist>>

\* Needs the Secret of the backup; the sample queries then pass or do not.
Verifying ==
    /\ vrun.pc = "Idle" /\ ver.exists /\ ver.phase = "Verifying"
    /\ uri # None
    /\ \E ph \in {"Passed", "Failed"} : ver' = [ver EXCEPT !.phase = ph]
    /\ UNCHANGED <<cr, src, job, uri, brun, vrun, hist>>

-----------------------------------------------------------------------------
(* The environment *)

EditRestore ==
    /\ hist.edits < MaxEdits /\ cr.exists
    /\ cr' = [cr EXCEPT !.restore = ~@]
    /\ brun' = [brun EXCEPT !.fresh = FALSE]
    /\ hist' = [hist EXCEPT !.edits = @ + 1]
    /\ UNCHANGED <<src, ver, job, uri, vrun>>

\* Without the finalizer the object goes at once.
DeleteBackup ==
    /\ cr.exists /\ ~cr.deleting
    /\ cr' = [cr EXCEPT !.deleting = TRUE, !.exists = cr.fin]
    /\ brun' = [brun EXCEPT !.fresh = FALSE]
    /\ UNCHANGED <<src, ver, job, uri, vrun, hist>>

DeleteVerification ==
    /\ ver.exists /\ Upset
    /\ ver' = [ver EXCEPT !.exists = FALSE]
    /\ UNCHANGED <<cr, src, job, uri, brun, vrun>>

\* What a deleted object leaves of these Jobs to the next one of its name.
Orphaned(ks) == [k \in Jobs |-> IF k \in ks /\ job[k].st # None
                                THEN [job[k] EXCEPT !.owner = "earlier", !.made = "earlier"]
                                ELSE job[k]]
NewLife(k) == [hist EXCEPT !.done = @ \ {k},
                           !.left = IF job[k].st = "complete" THEN @ \cup {k} ELSE @ \ {k}]

RecreateBackup ==
    /\ ~cr.exists /\ hist.upsets < MaxUpsets
    /\ cr' = [cr EXCEPT !.exists = TRUE, !.deleting = FALSE, !.fin = FALSE, !.phase = None]
    /\ job' = Orphaned({"backup", "restore"})
    /\ uri' = IF uri = None THEN None ELSE "earlier"
    /\ hist' = [NewLife("backup") EXCEPT !.upsets = @ + 1]
    /\ UNCHANGED <<src, ver, brun, vrun>>

RecreateVerification ==
    /\ ~ver.exists
    /\ ver' = [exists |-> TRUE, phase |-> None]
    /\ job' = Orphaned({"verify"})
    /\ vrun' = IF vrun.pc = "Idle" THEN vrun ELSE [vrun EXCEPT !.of = "earlier"]
    /\ hist' = NewLife("verify")
    /\ UNCHANGED <<cr, src, uri, brun>>

JobStarts(k) ==
    /\ job[k].st = "created"
    /\ job' = [job EXCEPT ![k].st = "active"]
    /\ UNCHANGED <<cr, src, ver, uri, brun, vrun, hist>>

Completes(k) ==
    IF job[k].made = "this" THEN [hist EXCEPT !.done = @ \cup {k}]
                            ELSE [hist EXCEPT !.left = @ \cup {k}]

JobEnds(k) ==
    /\ job[k].st = "active"
    /\ \E st \in Finished :
         /\ job' = [job EXCEPT ![k].st = st]
         /\ hist' = IF st = "complete" /\ k \in Reported THEN Completes(k) ELSE hist
    /\ UNCHANGED <<cr, src, ver, uri, brun, vrun>>

\* ttlSecondsAfterFinished is a day.
JobExpires(k) ==
    /\ job[k].st \in Finished /\ Upset
    /\ job' = [job EXCEPT ![k] = NoJob]
    /\ UNCHANGED <<cr, src, ver, uri, brun, vrun>>

Gone(k, o) == o = "earlier" \/ (o = "this" /\ IF k = "verify" THEN ~ver.exists ELSE ~cr.exists)

CollectJob(k) ==
    /\ Gone(k, job[k].owner)
    /\ job' = [job EXCEPT ![k] = NoJob]
    /\ UNCHANGED <<cr, src, ver, uri, brun, vrun, hist>>

CollectSecret ==
    /\ Gone("backup", uri)
    /\ uri' = None
    /\ UNCHANGED <<cr, src, ver, job, brun, vrun, hist>>

\* A call returns an error before it changes anything, or the operator stops.
CrashB ==
    /\ Upset
    /\ brun.pc # "Idle" /\ brun' = IdleB
    /\ UNCHANGED <<cr, src, ver, job, uri, vrun>>

CrashV ==
    /\ Upset
    /\ vrun.pc # "Idle" /\ vrun' = IdleV
    /\ UNCHANGED <<cr, src, ver, job, uri, brun>>

-----------------------------------------------------------------------------
ReconcileBackup ==
    \/ Start
    \/ AddFinalizer
    \/ SetRestoring
    \/ SetPending
    \/ getClusterConnectionString
    \/ CreateRestoreJob
    \/ CreateBackupJob
    \/ ReadJob
    \/ updateBackupStatus
    \/ handleDeletion

ReconcileVerification ==
    \/ StartVerification
    \/ SetVerificationRestoring
    \/ CreateVerifyJob
    \/ Restoring
    \/ Verifying

Collect == CollectSecret \/ \E k \in Jobs : CollectJob(k)

Next ==
    \/ ReconcileBackup
    \/ ReconcileVerification
    \/ EditRestore
    \/ DeleteBackup
    \/ RecreateBackup
    \/ DeleteVerification
    \/ RecreateVerification
    \/ \E k \in Jobs : JobStarts(k) \/ JobEnds(k) \/ JobExpires(k)
    \/ Collect
    \/ CrashB
    \/ CrashV

Spec == Init /\ [][Next]_vars

\* Both controllers requeue what is not finished or are woken by the Jobs they own, a Job
\* starts and ends (three retries at most), and the garbage collector runs.
Fairness ==
    /\ WF_vars(ReconcileBackup)
    /\ WF_vars(ReconcileVerification)
    /\ \A k \in Jobs : WF_vars(JobStarts(k) \/ JobEnds(k)) /\ WF_vars(CollectJob(k))
    /\ WF_vars(CollectSecret)

FairSpec == Spec /\ Fairness

-----------------------------------------------------------------------------
(* Properties *)

\* CompletedMeansDumped.  A backup is only reported Completed, as the upgrade that waits for
\* it and the verification of it read, once a backup Job it created has completed: whatever
\* Jobs expire, are created again or fail, and whatever happens between reading a Job and
\* writing the status.  createOrUpdate adopts any Job of the name, so for a backup that was
\* deleted and created again this rests on handleDeletion, which deletes the Job: only where
\* that delete failed may the Job of the earlier backup stand in.
CompletedMeansDumped ==
    cr.phase = "Completed" => "backup" \in hist.done \/ (hist.kept /\ "backup" \in hist.left)

\* PassedMeansRestored.  A verification only passes after a restore Job has completed that it
\* created, or that an earlier verification of its name left to it: there is no finalizer and
\* nothing deletes that Job before the garbage collector does.
PassedMeansRestored == ver.phase = "Passed" => "verify" \in hist.done \cup hist.left

InProgress == cr.exists /\ ~cr.deleting /\ ~cr.restore /\ cr.phase \notin Terminal

\* BackupEnds.  A backup always ends, Completed or Failed, when its object is left alone:
\* the requeues cover every point where a call may fail or the operator may stop.
BackupEnds == InProgress ~> ~InProgress

\* There under its name, and the backup it refers to, if any, is not there.
JobLeft(k) == job[k].st # None /\ (job[k].owner # "this" \/ ~cr.exists)
SecretLeft == uri # None /\ (uri # "this" \/ ~cr.exists)

\* DeletionLeavesNothing.  Deleting the backup, while a reconcile of it is under way or not,
\* leaves neither a Job that still dumps or restores nor the Secret with the password behind,
\* unless a backup that is created again takes the Job over.
DeletionLeavesNothing ==
    /\ JobLeft("backup") ~> ~JobLeft("backup")
    /\ JobLeft("restore") ~> ~JobLeft("restore")
    /\ SecretLeft ~> ~SecretLeft

RestoreStep == job["restore"].st = None /\ job'["restore"].st # None => src = "Completed"

\* RestoreFromCompletedOnly.  What RestoreSpec says the controller guarantees: a restore Job
\* is only started once the source backup is Completed.
RestoreFromCompletedOnly == [][RestoreStep]_vars

Drilling == ver.exists /\ cr.exists /\ ver.phase \in {"Restoring", "Verifying"}

\* VerificationEnds.  What the phases of MongoDBBackupVerification say: Restoring and
\* Verifying lead on to Passed or Failed.
VerificationEnds == Drilling ~> ~Drilling

\* PassedMeansOwnRestore.  What "restore drill" says of MongoDBBackupVerification: one that has
\* passed has restored the backup itself.
PassedMeansOwnRestore == ver.phase = "Passed" => "verify" \in hist.done

=============================================================================
