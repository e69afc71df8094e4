-------------------------- MODULE Resources_proofs --------------------------
(***************************************************************************)
(* The invariants of the other controllers and of the admission rules, for *)
(* every value of the constants.                                           *)
(***************************************************************************)
EXTENDS Resources, TLAPS

-----------------------------------------------------------------------------
(***************************************************************************)
(* BackupControllers.  Neither CompletedMeansDumped nor                    *)
(* PassedMeansRestored is inductive: the phase is written from a Job that  *)
(* was read earlier and may be gone, so the reading of the reconcile under *)
(* way has to be truthful too.  That it is a reading of this object's, and *)
(* that a Job of an earlier one is only met where a delete failed, rests   *)
(* on the finalizer: a backup has it while a reconcile of it works and     *)
(* while a Job of it exists.                                               *)
(***************************************************************************)
JobStates == {BC!None, "created", "active", "complete", "failed"}
Owners == {BC!None, "this", "earlier"}
Phases == {BC!None, "Pending", "Running", "Restoring", "Completed", "Failed"}
VPhases == {BC!None, "Restoring", "Verifying", "Passed", "Failed"}
BSteps == {"Idle", "Delete", "Finalizer", "Restoring", "Pending", "URI", "RestoreURI", "Job",
           "RestoreJob", "ReadJob", "WriteStatus"}
Backup == [exists : BOOLEAN, deleting : BOOLEAN, fin : BOOLEAN, restore : BOOLEAN,
           phase : Phases]
Verification == [exists : BOOLEAN, phase : VPhases]
JobTable == [BC!Jobs -> [st : JobStates, owner : Owners, made : Owners]]
BackupRun == [pc : BSteps, restore : BOOLEAN, phase : Phases, fresh : BOOLEAN, job : JobStates]
History == [edits : Int, upsets : Int, done : SUBSET BC!Reported, left : SUBSET BC!Reported,
            kept : BOOLEAN]

Types ==
    /\ cr \in Backup /\ ver \in Verification /\ job \in JobTable
    /\ brun \in BackupRun /\ hist \in History

Seen(k) == k \in hist.done \/ k \in hist.left
Busy == brun.pc \notin {"Idle", "Finalizer"}

\* Everything that says "complete" says so because such a Job has completed.
Truthful ==
    /\ \A k \in BC!Reported : job[k].st = "complete" => Seen(k)
    /\ Busy /\ (brun.job = "complete" \/ brun.phase = "Completed") => Seen("backup")
    /\ cr.phase = "Completed" => Seen("backup")
    /\ ver.phase \in {"Verifying", "Passed"} => Seen("verify")

\* The backup stays while a reconcile of it works and while its Job exists.
Held ==
    /\ Busy => cr.exists /\ cr.fin
    /\ cr.exists /\ cr.deleting => cr.fin
    /\ job["backup"].st # BC!None =>
          hist.kept \/ (cr.exists /\ cr.fin /\ job["backup"].made = "this")
    /\ "backup" \in hist.left => hist.kept

BInv == Types /\ Truthful /\ Held

VerificationRun == [pc : {"Idle", "SetRestoring", "Job"}, restore : BOOLEAN, of : Owners]
RunInv == vrun \in VerificationRun

LEMMA InitBackup == BC!Init => BInv
<1> SUFFICES ASSUME BC!Init PROVE BInv
    OBVIOUS
<1>1. /\ cr \in Backup /\ cr.phase = BC!None /\ cr.deleting = FALSE
    BY Zenon DEF BC!Init, Backup, Phases
<1>2. ver \in Verification /\ ver.phase = BC!None
    BY DEF BC!Init, Verification, VPhases
<1>3. job \in JobTable /\ \A k \in BC!Jobs : job[k].st = BC!None
    BY DEF BC!Init, BC!NoJob, JobTable, JobStates, Owners
<1>4. brun \in BackupRun /\ brun.pc = "Idle"
    BY DEF BC!Init, BC!IdleB, BackupRun, BSteps, Phases, JobStates
<1>5. hist \in History /\ hist.left = {}
    BY DEF BC!Init, History
<1>6. Types
    BY <1>1, <1>2, <1>3, <1>4, <1>5 DEF Types
<1>7. Truthful
    BY <1>1, <1>2, <1>3, <1>4 DEF Truthful, Busy, BC!None, BC!Reported, BC!Jobs
<1>8. Held
    BY <1>1, <1>3, <1>4, <1>5 DEF Held, Busy, BC!Jobs
<1> QED BY <1>6, <1>7, <1>8 DEF BInv

\* What the steps do to each variable, as far as the invariant looks at it.
SameHist == hist'.done = hist.done /\ hist'.left = hist.left /\ (hist.kept => hist'.kept)
SameCR == cr'.exists = cr.exists /\ cr'.deleting = cr.deleting /\ (cr.fin => cr'.fin)
\* No Job becomes complete, and a backup Job that is new is one of a backup that stays.
NoneCompletes ==
    /\ \A k \in BC!Reported : job'[k].st = "complete" => job[k].st = "complete"
    /\ job'["backup"].st # BC!None =>
          \/ job["backup"].st # BC!None /\ job'["backup"].made = job["backup"].made
          \/ cr.exists /\ cr.fin /\ job'["backup"].made = "this"
\* The reconcile comes to rest, or goes on with what it knows.
GoesOn ==
    \/ ~Busy'
    \/ Busy /\ brun'.job = brun.job /\ (brun'.phase = "Completed" => brun.phase = "Completed")

LEMMA QuietStep ==
    ASSUME BInv, Types', SameHist, SameCR, NoneCompletes, GoesOn, ver'.phase = ver.phase,
           cr'.phase = "Completed" => Seen("backup")
    PROVE  BInv'
<1>1. \A k \in BC!Reported : Seen(k) => Seen(k)'
    BY DEF SameHist, Seen
<1>2. "backup" \in BC!Reported /\ "verify" \in BC!Reported
    BY DEF BC!Reported
<1>3. Truthful'
    BY <1>1, <1>2, Zenon DEF BInv, Truthful, NoneCompletes, GoesOn
<1>4. Held'
    BY Zenon DEF BInv, Held, SameHist, SameCR, NoneCompletes, GoesOn
<1> QED BY <1>3, <1>4 DEF BInv

\* An error, a crash or another upset only moves the counter.
LEMMA UpsetKeeps ==
    ASSUME BInv, BC!Upset
    PROVE  hist' \in History /\ SameHist
BY DEF BInv, Types, History, BC!Upset, SameHist

LEMMA SameKeeps ==
    ASSUME BInv
    PROVE  /\ hist' = hist => hist' \in History /\ SameHist
           /\ cr' = cr => /\ cr' \in Backup /\ SameCR
                          /\ cr'.phase = "Completed" => Seen("backup")
           /\ ver' = ver => ver' \in Verification /\ ver'.phase = ver.phase
           /\ job' = job => job' \in JobTable /\ NoneCompletes
           /\ brun' = brun => brun' \in BackupRun /\ GoesOn
BY DEF BInv, Types, Truthful, SameHist, SameCR, NoneCompletes, GoesOn, Busy

LEMMA IdleRun == brun' = BC!IdleB => brun' \in BackupRun /\ GoesOn /\ ~Busy'
BY DEF BC!IdleB, BackupRun, BSteps, Phases, JobStates, GoesOn, Busy

LEMMA WritePhaseKeeps ==
    ASSUME BInv, Busy, NEW ph \in Phases, NEW step \in BSteps, BC!WritePhase(ph, step),
           ph # "Completed" \/ (step = "Idle" /\ Seen("backup"))
    PROVE  /\ cr' \in Backup /\ SameCR /\ (cr'.phase = "Completed" => Seen("backup"))
           /\ brun' \in BackupRun /\ GoesOn
<1>1. /\ cr' \in Backup /\ cr'.phase = ph /\ cr'.exists = cr.exists
      /\ cr'.deleting = cr.deleting /\ cr'.fin = cr.fin
    BY Zenon DEF BInv, Types, Backup, BC!WritePhase
<1>2. ASSUME step = "Idle" PROVE brun' \in BackupRun /\ GoesOn
    BY <1>2, IdleRun, Zenon DEF BC!WritePhase
<1>3. ASSUME step # "Idle" PROVE brun' \in BackupRun /\ GoesOn
    <2>1. brun' = [brun EXCEPT !.pc = step, !.phase = ph, !.fresh = TRUE,
                               !.restore = IF brun.fresh THEN @ ELSE cr.restore]
        BY <1>3 DEF BC!WritePhase
    <2>2. brun' \in BackupRun /\ brun'.job = brun.job /\ brun'.phase = ph
        BY <2>1, Zenon DEF BInv, Types, BackupRun, Backup
    <2>3. ph # "Completed"
        BY <1>3
    <2> QED BY <2>2, <2>3, Zenon DEF GoesOn
<1> QED BY <1>1, <1>2, <1>3 DEF SameCR

LEMMA GotoKeeps ==
    ASSUME BInv, NEW step \in BSteps, BC!GotoB(step), Busy \/ step = "Idle"
    PROVE  brun' \in BackupRun /\ GoesOn
<1>1. CASE step = "Idle"
    BY <1>1, IdleRun DEF BC!GotoB
<1>2. CASE step # "Idle"
    BY <1>2 DEF BC!GotoB, BInv, Types, BackupRun, GoesOn
<1> QED BY <1>1, <1>2

\* A Job is created without an end, or keeps its state and its creator.
LEMMA CreateKeeps ==
    ASSUME BInv, NEW k \in BC!Jobs, NEW o \in Owners, BC!createOrUpdate(k, o),
           k = "backup" => cr.exists /\ cr.fin /\ o = "this"
    PROVE  job' \in JobTable /\ NoneCompletes
<1> DEFINE j == IF job[k].st = BC!None THEN [st |-> "created", owner |-> o, made |-> o]
                ELSE [job[k] EXCEPT !.owner = o]
<1>1. job' = [job EXCEPT ![k] = j]
    BY DEF BC!createOrUpdate
<1>2. /\ j \in [st : JobStates, owner : Owners, made : Owners]
      /\ IF job[k].st = BC!None THEN j.st = "created" /\ j.made = o
         ELSE j.st = job[k].st /\ j.made = job[k].made
    BY DEF BInv, Types, JobTable, JobStates
<1> HIDE DEF j
<1>3. job' \in JobTable /\ job'[k] = j /\ \A i \in BC!Jobs \ {k} : job'[i] = job[i]
    BY <1>1, <1>2 DEF BInv, Types, JobTable
<1> QED BY <1>2, <1>3 DEF NoneCompletes, BC!Reported, BC!Jobs

\* A Job that is deleted reads as absent.
LEMMA RemoveKeeps ==
    ASSUME BInv, NEW k \in BC!Jobs, job' = [job EXCEPT ![k] = BC!NoJob]
    PROVE  job' \in JobTable /\ NoneCompletes /\ job'[k].st = BC!None
<1>1. /\ job' \in JobTable /\ job'[k].st = BC!None
      /\ \A i \in BC!Jobs \ {k} : job'[i] = job[i]
    BY DEF BInv, Types, JobTable, BC!NoJob, JobStates, Owners
<1> QED BY <1>1 DEF NoneCompletes, BC!Reported, BC!Jobs, BC!None

\* Only the status of the backup, its reconcile and the bounded counters move.
LEMMA StatusStep ==
    ASSUME BInv, Busy, UNCHANGED <<ver, job>>, UNCHANGED hist \/ BC!Upset,
           \/ \E step \in BSteps : BC!GotoB(step) /\ cr' = cr
           \/ \E ph \in Phases \ {"Completed"}, step \in BSteps : BC!WritePhase(ph, step)
    PROVE  BInv'
<1>1. hist' \in History /\ SameHist
    BY UpsetKeeps, SameKeeps
<1>2. /\ ver' \in Verification /\ ver'.phase = ver.phase
      /\ job' \in JobTable /\ NoneCompletes
    BY SameKeeps
<1>3. /\ cr' \in Backup /\ SameCR /\ (cr'.phase = "Completed" => Seen("backup"))
      /\ brun' \in BackupRun /\ GoesOn
    <2>1. CASE \E step \in BSteps : BC!GotoB(step) /\ cr' = cr
        BY <2>1, GotoKeeps, SameKeeps
    <2>2. CASE \E ph \in Phases \ {"Completed"}, step \in BSteps : BC!WritePhase(ph, step)
        BY <2>2, WritePhaseKeeps
    <2> QED BY <2>1, <2>2
<1>4. Types'
    BY <1>1, <1>2, <1>3 DEF Types
<1> QED BY <1>1, <1>2, <1>3, <1>4, QuietStep

\* The Jobs change, none of them to complete, and the reconcile moves on.
LEMMA JobStep ==
    ASSUME BInv, UNCHANGED <<ver, cr>>, UNCHANGED hist \/ BC!Upset,
           job' \in JobTable, NoneCompletes,
           UNCHANGED brun \/ (Busy /\ \E step \in BSteps : BC!GotoB(step))
    PROVE  BInv'
<1>1. hist' \in History /\ SameHist
    BY UpsetKeeps, SameKeeps
<1>2. /\ ver' \in Verification /\ ver'.phase = ver.phase
      /\ cr' \in Backup /\ SameCR /\ (cr'.phase = "Completed" => Seen("backup"))
    BY SameKeeps
<1>3. brun' \in BackupRun /\ GoesOn
    BY GotoKeeps, SameKeeps
<1>4. Types'
    BY <1>1, <1>2, <1>3 DEF Types
<1> QED BY <1>1, <1>2, <1>3, <1>4, QuietStep

\* The steps of the backup's reconcile.
LEMMA BackupSteps == BInv /\ BC!ReconcileBackup => BInv'
<1> SUFFICES ASSUME BInv, BC!ReconcileBackup PROVE BInv'
    OBVIOUS
<1> USE DEF BSteps
<1>1. CASE BC!Start
    <2>1. PICK step \in BSteps :
             /\ brun' = [pc |-> step, restore |-> cr.restore, phase |-> cr.phase,
                         fresh |-> TRUE, job |-> BC!None]
             /\ step \notin {"Idle", "Finalizer"} => cr.deleting \/ cr.fin
        BY <1>1, Zenon DEF BC!Start
    <2>2. brun' \in BackupRun /\ brun'.phase = cr.phase /\ brun'.job = BC!None /\ brun'.pc = step
        BY <2>1 DEF BInv, Types, Backup, BackupRun, JobStates
    <2>3. UNCHANGED <<cr, ver, job, hist>> /\ cr.exists
        BY <1>1 DEF BC!Start
    <2>4. Types'
        BY <2>2, <2>3 DEF BInv, Types
    <2>5. Truthful'
        BY <2>2, <2>3 DEF BInv, Truthful, Seen, BC!None
    <2>6. Held'
        BY <2>1, <2>2, <2>3 DEF BInv, Held, Busy
    <2> QED BY <2>4, <2>5, <2>6 DEF BInv
<1>2. CASE BC!AddFinalizer
    <2>1. cr' \in Backup /\ cr'.phase = cr.phase /\ SameCR
        BY <1>2, Zenon DEF BC!AddFinalizer, BInv, Types, Backup, SameCR
    <2>2. brun' \in BackupRun /\ GoesOn
        BY <1>2, GotoKeeps DEF BC!AddFinalizer
    <2>3. UNCHANGED <<ver, job, hist>>
        BY <1>2 DEF BC!AddFinalizer
    <2>4. Types'
        BY <2>1, <2>2, <2>3 DEF BInv, Types
    <2>5. cr'.phase = "Completed" => Seen("backup")
        BY <2>1 DEF BInv, Truthful
    <2> QED BY <2>1, <2>2, <2>3, <2>4, <2>5, SameKeeps, QuietStep
<1>3. CASE BC!SetRestoring
    BY <1>3, StatusStep DEF BC!SetRestoring, Phases, Busy
<1>4. CASE BC!SetPending
    BY <1>4, StatusStep DEF BC!SetPending, Phases, Busy
<1>5. CASE BC!getClusterConnectionString
    BY <1>5, StatusStep DEF BC!getClusterConnectionString, BC!updateStatusError, Phases, Busy
<1>6. CASE BC!CreateRestoreJob
    <2>1. CASE BC!createOrUpdate("restore", "this") /\ BC!GotoB("Idle") /\ UNCHANGED <<cr, hist>>
        <3>1. job' \in JobTable /\ NoneCompletes
            BY <2>1, CreateKeeps DEF BC!Jobs, Owners
        <3> QED BY <1>6, <2>1, <3>1, JobStep DEF BC!CreateRestoreJob, Busy
    <2>2. CASE BC!updateStatusError /\ job' = job /\ (hist' = hist \/ BC!Upset)
        BY <1>6, <2>2, StatusStep DEF BC!CreateRestoreJob, BC!updateStatusError, Phases, Busy
    <2> QED BY <1>6, <2>1, <2>2 DEF BC!CreateRestoreJob
<1>7. CASE BC!CreateBackupJob
    <2>1. CASE BC!createOrUpdate("backup", "this") /\ BC!GotoB("ReadJob") /\ UNCHANGED <<cr, hist>>
        <3>1. cr.exists /\ cr.fin
            BY <1>7 DEF BC!CreateBackupJob, BInv, Held, Busy
        <3>2. job' \in JobTable /\ NoneCompletes
            BY <2>1, <3>1, CreateKeeps DEF BC!Jobs, Owners
        <3> QED BY <1>7, <2>1, <3>2, JobStep DEF BC!CreateBackupJob, Busy
    <2>2. CASE BC!updateStatusError /\ job' = job /\ BC!Upset
        BY <1>7, <2>2, StatusStep DEF BC!CreateBackupJob, BC!updateStatusError, Phases, Busy
    <2> QED BY <1>7, <2>1, <2>2 DEF BC!CreateBackupJob
<1>8. CASE BC!ReadJob
    <2>1. /\ UNCHANGED <<cr, ver, job, hist>> /\ Busy
          /\ \/ BC!GotoB("Idle")
             \/ brun' = [brun EXCEPT !.pc = "WriteStatus", !.job = job["backup"].st]
        BY <1>8 DEF BC!ReadJob, BC!GotoB, Busy
    <2>2. CASE BC!GotoB("Idle")
        BY <2>1, <2>2, StatusStep
    <2>3. CASE brun' = [brun EXCEPT !.pc = "WriteStatus", !.job = job["backup"].st]
        <3>1. /\ brun' \in BackupRun /\ brun'.phase = brun.phase /\ brun'.job = job["backup"].st
              /\ brun'.pc = "WriteStatus"
            BY <2>3, Zenon DEF BInv, Types, BackupRun, JobTable, BC!Jobs
        <3>2. Types'
            BY <2>1, <3>1 DEF BInv, Types
        <3>3. Truthful'
            BY <2>1, <3>1 DEF BInv, Truthful, Seen, BC!Reported
        <3>4. Held'
            BY <2>1, <3>1 DEF BInv, Held, Busy
        <3> QED BY <3>2, <3>3, <3>4 DEF BInv
    <2> QED BY <2>1, <2>2, <2>3
<1>9. CASE BC!updateBackupStatus
    <2> DEFINE ph == BC!phaseOf(brun.job, brun.phase)
    <2>1. BC!WritePhase(ph, "Idle") /\ UNCHANGED <<ver, job, hist>> /\ Busy
        BY <1>9 DEF BC!updateBackupStatus, Busy
    <2>2. ph \in Phases /\ (ph = "Completed" => Seen("backup"))
        BY <2>1 DEF BC!phaseOf, BInv, Types, BackupRun, Truthful, Phases, JobStates
    <2> HIDE DEF ph
    <2>3. /\ cr' \in Backup /\ SameCR /\ (cr'.phase = "Completed" => Seen("backup"))
          /\ brun' \in BackupRun /\ GoesOn
        BY <2>1, <2>2, WritePhaseKeeps
    <2>4. Types'
        BY <2>1, <2>3 DEF BInv, Types
    <2> QED BY <2>1, <2>3, <2>4, SameKeeps, QuietStep
<1>10. CASE BC!handleDeletion
    <2>1. cr' \in Backup /\ cr'.phase = cr.phase /\ cr'.exists = FALSE
        BY <1>10, Zenon DEF BC!handleDeletion, BInv, Types, Backup
    <2>2. brun' \in BackupRun /\ ~Busy' /\ ver' = ver
        BY <1>10 DEF BC!handleDeletion, BC!GotoB, BC!IdleB, BackupRun, Phases, JobStates, Busy
    <2>3. /\ job' \in JobTable /\ hist' \in History /\ SameHist /\ NoneCompletes
          /\ job'["backup"].st = BC!None \/ hist'.kept
        <3>1. CASE job' = [job EXCEPT !["backup"] = BC!NoJob] /\ hist' = hist
            BY <3>1, RemoveKeeps, SameKeeps DEF BC!Jobs
        <3>2. CASE /\ hist' = [hist EXCEPT !.upsets = @ + 1, !.kept = TRUE]
                   /\ job' = job
            <4>1. hist' \in History /\ SameHist /\ hist'.kept
                <5>1. hist \in History /\ hist.upsets + 1 \in Int
                    BY DEF BInv, Types, History
                <5> QED BY <3>2, <5>1, Zenon DEF History, SameHist
            <4> QED BY <3>2, <4>1, SameKeeps
        <3> QED BY <1>10, <3>1, <3>2 DEF BC!handleDeletion
    <2>4. Types'
        BY <2>1, <2>2, <2>3 DEF BInv, Types
    <2>5. Truthful'
        BY <2>1, <2>2, <2>3 DEF BInv, Truthful, SameHist, NoneCompletes, Seen
    <2>6. Held'
        BY <2>1, <2>2, <2>3 DEF BInv, Held, SameHist
    <2> QED BY <2>4, <2>5, <2>6 DEF BInv
<1> QED BY <1>1, <1>2, <1>3, <1>4, <1>5, <1>6, <1>7, <1>8, <1>9, <1>10 DEF BC!ReconcileBackup

\* The verification has another phase, one that is warranted.
LEMMA VerificationPhase ==
    ASSUME BInv, UNCHANGED <<cr, job, brun>>, UNCHANGED hist \/ BC!Upset,
           ver' \in Verification,
           ver'.phase \in {"Verifying", "Passed"} => Seen("verify")
    PROVE  BInv'
<1>1. hist' \in History /\ SameHist
    BY UpsetKeeps, SameKeeps
<1>2. Types'
    BY <1>1 DEF BInv, Types
<1>3. Truthful'
    BY <1>1 DEF BInv, Truthful, SameHist, Seen, Busy
<1>4. Held'
    BY <1>1 DEF BInv, Held, SameHist, Busy
<1> QED BY <1>2, <1>3, <1>4 DEF BInv

\* The steps of the verification's reconcile.
LEMMA VerificationSteps == BInv /\ RunInv /\ BC!ReconcileVerification => BInv'
<1> SUFFICES ASSUME BInv, RunInv, BC!ReconcileVerification PROVE BInv'
    OBVIOUS
<1>1. CASE BC!StartVerification
    <2>1. UNCHANGED <<cr, ver, job, brun, hist>>
        BY <1>1 DEF BC!StartVerification
    <2> QED BY <2>1, JobStep, SameKeeps
<1>2. CASE BC!CreateVerifyJob
    <2>1. UNCHANGED <<cr, ver, brun, hist>> /\ (job' = job \/ BC!createOrUpdate("verify", vrun.of))
        BY <1>2 DEF BC!CreateVerifyJob
    <2>2. job' \in JobTable /\ NoneCompletes
        BY <2>1, CreateKeeps, SameKeeps DEF BC!Jobs, RunInv, VerificationRun
    <2> QED BY <2>1, <2>2, JobStep
<1>3. CASE BC!SetVerificationRestoring \/ BC!Restoring \/ BC!Verifying
    <2>1. /\ UNCHANGED <<cr, job, brun, hist>>
          /\ \/ ver' = ver
             \/ \E ph \in VPhases :
                  /\ ver' = [ver EXCEPT !.phase = ph]
                  /\ ph \in {"Verifying", "Passed"} => Seen("verify")
        BY <1>3 DEF BC!SetVerificationRestoring, BC!Restoring, BC!Verifying, BC!checkRestoreJob,
                    BInv, Truthful, VPhases, BC!Reported
    <2>2. /\ ver' \in Verification
          /\ ver'.phase \in {"Verifying", "Passed"} => Seen("verify")
        BY <2>1 DEF BInv, Types, Verification, Truthful
    <2> QED BY <2>1, <2>2, VerificationPhase
<1> QED BY <1>1, <1>2, <1>3 DEF BC!ReconcileVerification

\* What an object that is created again finds.
LEMMA OrphanedKeeps ==
    ASSUME BInv, NEW ks \in SUBSET BC!Jobs, job' = BC!Orphaned(ks)
    PROVE  /\ job' \in JobTable
           /\ \A k \in BC!Jobs : job'[k].st = job[k].st
           /\ \A k \in BC!Jobs \ ks : job'[k] = job[k]
<1> DEFINE j(k) == IF k \in ks /\ job[k].st # BC!None
                   THEN [job[k] EXCEPT !.owner = "earlier", !.made = "earlier"] ELSE job[k]
<1>1. job' = [k \in BC!Jobs |-> j(k)]
    BY Zenon DEF BC!Orphaned
<1>2. ASSUME NEW k \in BC!Jobs
      PROVE  /\ j(k) \in [st : JobStates, owner : Owners, made : Owners]
             /\ j(k).st = job[k].st /\ (k \notin ks => j(k) = job[k])
    BY Zenon DEF BInv, Types, JobTable, Owners
<1> HIDE DEF j
<1> QED BY <1>1, <1>2 DEF JobTable

LEMMA NewLifeKeeps ==
    ASSUME BInv, NEW k \in BC!Reported, NEW n \in Int,
           hist' = [BC!NewLife(k) EXCEPT !.upsets = n] \/ hist' = BC!NewLife(k)
    PROVE  /\ hist' \in History /\ hist'.kept = hist.kept
           /\ k \in hist'.left <=> job[k].st = "complete"
           /\ \A i \in BC!Reported \ {k} : /\ i \in hist'.done <=> i \in hist.done
                                           /\ i \in hist'.left <=> i \in hist.left
<1> DEFINE d == hist.done \ {k}
           l == IF job[k].st = "complete" THEN hist.left \cup {k} ELSE hist.left \ {k}
<1>1. hist \in History
    BY DEF BInv, Types
<1>2. d \in SUBSET BC!Reported /\ l \in SUBSET BC!Reported
    BY <1>1 DEF History
<1>3. BC!NewLife(k) = [hist EXCEPT !.done = d, !.left = l]
    BY DEF BC!NewLife
<1>4. /\ k \in l <=> job[k].st = "complete"
      /\ \A i \in BC!Reported \ {k} : (i \in d <=> i \in hist.done) /\ (i \in l <=> i \in hist.left)
    OBVIOUS
<1> HIDE DEF d, l
<1>5. hist' \in History /\ hist'.kept = hist.kept /\ hist'.done = d /\ hist'.left = l
    BY <1>1, <1>2, <1>3, Zenon DEF History
<1> QED BY <1>4, <1>5

\* The Job controller, and the objects that are created again.
LEMMA RenewalSteps ==
    ASSUME BInv,
           \/ BC!RecreateBackup \/ BC!RecreateVerification
           \/ \E k \in BC!Jobs : BC!JobStarts(k) \/ BC!JobEnds(k)
    PROVE  BInv'
<1>1. CASE BC!RecreateBackup
    <2>1. /\ cr' \in Backup /\ cr'.phase = BC!None /\ cr'.deleting = FALSE
        BY <1>1, Zenon DEF BC!RecreateBackup, BInv, Types, Backup, Phases
    <2>2. /\ job' \in JobTable /\ \A k \in BC!Jobs : job'[k].st = job[k].st
        BY <1>1, OrphanedKeeps DEF BC!RecreateBackup, BC!Jobs
    <2>3. /\ hist' \in History /\ hist'.kept = hist.kept
          /\ "backup" \in hist'.left <=> job["backup"].st = "complete"
          /\ Seen("verify")' <=> Seen("verify")
        <3>1. hist' = [BC!NewLife("backup") EXCEPT !.upsets = BC!NewLife("backup").upsets + 1]
            BY <1>1 DEF BC!RecreateBackup
        <3>2. BC!NewLife("backup").upsets + 1 \in Int
            BY DEF BInv, Types, History, BC!NewLife
        <3> QED BY <3>1, <3>2, NewLifeKeeps DEF Seen, BC!Reported
    <2>4. UNCHANGED <<ver, brun>> /\ ~cr.exists /\ ~Busy
        BY <1>1 DEF BC!RecreateBackup, BInv, Held
    <2>5. Types'
        BY <2>1, <2>2, <2>3, <2>4 DEF BInv, Types
    <2>6. Truthful'
        BY <2>1, <2>2, <2>3, <2>4 DEF BInv, Truthful, Seen, Busy, BC!None, BC!Reported, BC!Jobs
    <2>7. Held'
        BY <2>1, <2>2, <2>3, <2>4 DEF BInv, Held, Busy, BC!None, BC!Jobs
    <2> QED BY <2>5, <2>6, <2>7 DEF BInv
<1>2. CASE BC!RecreateVerification
    <2>1. ver' \in Verification /\ ver'.phase = BC!None
        BY <1>2 DEF BC!RecreateVerification, Verification, VPhases
    <2>2. /\ job' \in JobTable /\ \A k \in BC!Jobs : job'[k].st = job[k].st
          /\ job'["backup"] = job["backup"]
        BY <1>2, OrphanedKeeps DEF BC!RecreateVerification, BC!Jobs
    <2>3. /\ hist' \in History /\ hist'.kept = hist.kept
          /\ "verify" \in hist'.left <=> job["verify"].st = "complete"
          /\ "backup" \in hist'.left <=> "backup" \in hist.left
          /\ Seen("backup")' <=> Seen("backup")
        BY <1>2, NewLifeKeeps DEF BC!RecreateVerification, Seen, BC!Reported
    <2>4. UNCHANGED <<cr, brun>>
        BY <1>2 DEF BC!RecreateVerification
    <2>5. Types'
        BY <2>1, <2>2, <2>3, <2>4 DEF BInv, Types
    <2>6. Truthful'
        BY <2>1, <2>2, <2>3, <2>4 DEF BInv, Truthful, Seen, Busy, BC!None, BC!Reported, BC!Jobs
    <2>7. Held'
        BY <2>1, <2>2, <2>3, <2>4 DEF BInv, Held, Busy
    <2> QED BY <2>5, <2>6, <2>7 DEF BInv
<1>3. ASSUME NEW k \in BC!Jobs, BC!JobStarts(k) PROVE BInv'
    <2>1. job' = [job EXCEPT ![k].st = "active"] /\ job[k].st = "created"
        BY <1>3 DEF BC!JobStarts
    <2>2. /\ job' \in JobTable /\ job'[k].st = "active" /\ job'[k].made = job[k].made
          /\ \A i \in BC!Jobs \ {k} : job'[i] = job[i]
        BY <2>1 DEF BInv, Types, JobTable, JobStates
    <2>3. NoneCompletes
        BY <2>1, <2>2 DEF NoneCompletes, BC!Reported, BC!Jobs, BC!None
    <2> QED BY <1>3, <2>2, <2>3, JobStep DEF BC!JobStarts
<1>4. ASSUME NEW k \in BC!Jobs, BC!JobEnds(k) PROVE BInv'
    <2>1. PICK st \in BC!Finished :
             /\ job' = [job EXCEPT ![k].st = st]
             /\ hist' = IF st = "complete" /\ k \in BC!Reported THEN BC!Completes(k) ELSE hist
        BY <1>4, Zenon DEF BC!JobEnds
    <2>2. UNCHANGED <<cr, ver, brun>> /\ job[k].st = "active"
        BY <1>4 DEF BC!JobEnds
    <2>3. /\ job' \in JobTable /\ job'[k].st = st /\ job'[k].made = job[k].made
          /\ \A i \in BC!Jobs \ {k} : job'[i] = job[i]
        BY <2>1 DEF BInv, Types, JobTable, BC!Finished, JobStates
    <2>4. /\ hist' \in History /\ hist'.kept = hist.kept
          /\ hist.done \subseteq hist'.done /\ hist.left \subseteq hist'.left
          /\ st = "complete" /\ k \in BC!Reported => k \in hist'.done \/ k \in hist'.left
          /\ "backup" \in hist'.left =>
                "backup" \in hist.left \/ (k = "backup" /\ job[k].made # "this")
        BY <2>1 DEF BInv, Types, History, BC!Completes
    <2>5. Types'
        BY <2>2, <2>3, <2>4 DEF BInv, Types
    <2>6. Truthful'
        BY <2>2, <2>3, <2>4 DEF BInv, Truthful, Seen, Busy, BC!Reported, BC!Jobs
    <2>7. Held'
        BY <2>2, <2>3, <2>4 DEF BInv, Held, Busy, BC!None, BC!Jobs
    <2> QED BY <2>5, <2>6, <2>7 DEF BInv
<1> QED BY <1>1, <1>2, <1>3, <1>4

\* The user, the garbage collector and crashes.
LEMMA EnvironmentSteps ==
    ASSUME BInv,
           \/ BC!EditRestore \/ BC!DeleteBackup \/ BC!DeleteVerification
           \/ \E k \in BC!Jobs : BC!JobExpires(k)
           \/ BC!Collect \/ BC!CrashB \/ BC!CrashV \/ UNCHANGED BC!vars
    PROVE  BInv'
<1>1. CASE BC!EditRestore \/ BC!DeleteBackup
    <2>1. /\ cr' \in Backup /\ cr'.phase = cr.phase /\ cr'.fin = cr.fin
          /\ \/ cr'.exists = cr.exists /\ cr'.deleting = cr.deleting
             \/ cr.exists /\ cr'.exists = cr.fin
        BY <1>1, Zenon DEF BC!EditRestore, BC!DeleteBackup, BInv, Types, Backup
    <2>2. /\ brun' \in BackupRun /\ brun'.pc = brun.pc
          /\ brun'.job = brun.job /\ brun'.phase = brun.phase
        BY <1>1, Zenon DEF BC!EditRestore, BC!DeleteBackup, BInv, Types, BackupRun
    <2>3. hist' \in History /\ SameHist
        BY <1>1, SameKeeps DEF BC!EditRestore, BC!DeleteBackup, BInv, Types, History, SameHist
    <2>4. UNCHANGED <<ver, job>>
        BY <1>1 DEF BC!EditRestore, BC!DeleteBackup
    <2>5. Types'
        BY <2>1, <2>2, <2>3, <2>4 DEF BInv, Types
    <2>6. Truthful'
        BY <2>1, <2>2, <2>3, <2>4 DEF BInv, Truthful, SameHist, Seen, Busy
    <2>7. Held'
        BY <2>1, <2>2, <2>3, <2>4 DEF BInv, Types, Backup, Held, SameHist, Busy
    <2> QED BY <2>5, <2>6, <2>7 DEF BInv
<1>2. CASE BC!DeleteVerification
    <2>1. ver' \in Verification /\ ver'.phase = ver.phase
        BY <1>2, Zenon DEF BC!DeleteVerification, BInv, Types, Verification
    <2> QED BY <1>2, <2>1, VerificationPhase DEF BC!DeleteVerification, BInv, Truthful
<1>3. CASE BC!CollectSecret \/ BC!CrashV \/ UNCHANGED BC!vars
    <2>1. UNCHANGED <<cr, ver, job, brun>> /\ (UNCHANGED hist \/ BC!Upset)
        BY <1>3 DEF BC!CollectSecret, BC!CrashV, BC!vars
    <2> QED BY <2>1, SameKeeps, JobStep
<1>4. ASSUME NEW k \in BC!Jobs, BC!JobExpires(k) \/ BC!CollectJob(k) PROVE BInv'
    <2>1. UNCHANGED <<cr, ver, brun>> /\ job' = [job EXCEPT ![k] = BC!NoJob]
          /\ (UNCHANGED hist \/ BC!Upset)
        BY <1>4 DEF BC!JobExpires, BC!CollectJob
    <2>2. job' \in JobTable /\ NoneCompletes
        BY <2>1, RemoveKeeps, Zenon
    <2> QED BY <2>1, <2>2, JobStep
<1>5. CASE BC!CrashB
    <2>1. brun' \in BackupRun /\ GoesOn
        BY <1>5 DEF BC!CrashB, BC!IdleB, BackupRun, BSteps, Phases, JobStates, GoesOn, Busy
    <2>2. UNCHANGED <<cr, ver, job>> /\ hist' \in History /\ SameHist
        BY <1>5, UpsetKeeps DEF BC!CrashB
    <2>3. Types'
        BY <2>1, <2>2 DEF BInv, Types
    <2> QED BY <2>1, <2>2, <2>3, SameKeeps, QuietStep
<1> QED BY <1>1, <1>2, <1>3, <1>4, <1>5 DEF BC!Collect

\* The reconcile of the verification knows whose it is.
LEMMA StepVerificationRun == BInv /\ RunInv /\ [BC!Next]_BC!vars => RunInv'
<1> SUFFICES ASSUME BInv, RunInv, [BC!Next]_BC!vars PROVE RunInv'
    OBVIOUS
<1> USE DEF RunInv
<1>1. CASE BC!StartVerification
    BY <1>1 DEF BC!StartVerification, BInv, Types, Backup, VerificationRun, Owners
<1>2. CASE BC!SetVerificationRestoring \/ BC!CreateVerifyJob
    <2>1. PICK step \in {"Idle", "Job"} : BC!GotoV(step)
        BY <1>2 DEF BC!SetVerificationRestoring, BC!CreateVerifyJob
    <2> QED BY <2>1 DEF BC!GotoV, BC!IdleV, VerificationRun, Owners
<1>3. CASE BC!RecreateVerification
    BY <1>3 DEF BC!RecreateVerification, VerificationRun, Owners
<1>4. CASE BC!CrashV
    BY <1>4 DEF BC!CrashV, BC!IdleV, VerificationRun, Owners
<1>5. CASE vrun' = vrun
    BY <1>5
<1>6. CASE BC!ReconcileBackup
    BY <1>5, <1>6 DEF BC!ReconcileBackup, BC!Start, BC!AddFinalizer, BC!SetRestoring,
          BC!SetPending, BC!getClusterConnectionString, BC!CreateRestoreJob,
          BC!CreateBackupJob, BC!ReadJob, BC!updateBackupStatus, BC!handleDeletion
<1>7. CASE BC!Restoring \/ BC!Verifying
    BY <1>5, <1>7 DEF BC!Restoring, BC!Verifying
<1>8. CASE BC!EditRestore \/ BC!DeleteBackup \/ BC!RecreateBackup \/ BC!DeleteVerification
    BY <1>5, <1>8 DEF BC!EditRestore, BC!DeleteBackup, BC!RecreateBackup, BC!DeleteVerification
<1>9. CASE \E k \in BC!Jobs : BC!JobStarts(k) \/ BC!JobEnds(k) \/ BC!JobExpires(k)
    BY <1>5, <1>9 DEF BC!JobStarts, BC!JobEnds, BC!JobExpires
<1>10. CASE BC!Collect \/ BC!CrashB \/ UNCHANGED BC!vars
    BY <1>5, <1>10 DEF BC!Collect, BC!CollectSecret, BC!CollectJob, BC!CrashB, BC!vars
<1> QED BY <1>1, <1>2, <1>3, <1>4, <1>6, <1>7, <1>8, <1>9, <1>10
        DEF BC!Next, BC!ReconcileVerification

LEMMA StepBackup == BInv /\ RunInv /\ [BC!Next]_BC!vars => BInv'
BY BackupSteps, VerificationSteps, RenewalSteps, EnvironmentSteps DEF BC!Next

-----------------------------------------------------------------------------
(***************************************************************************)
(* Fleet.  That Synced is only written of the regions of the spec rests on *)
(* the copy: as long as it is fresh, withRegions has listed every region   *)
(* of the spec in it, and probing removes none.                            *)
(***************************************************************************)
IsFed(f) == f = [regions |-> f.regions, status |-> f.status, phase |-> f.phase]
IsFrun(r) == r = [pc |-> r.pc, fresh |-> r.fresh, copy |-> r.copy, todo |-> r.todo]
IsIns(i) == i = [enabled |-> i.enabled, phase |-> i.phase, recs |-> i.recs]

\* The copy of a pass that may still write lists every region of the spec.
CopyLists ==
    frun.pc = "Probe" /\ frun.fresh = TRUE => fed.regions \subseteq DOMAIN frun.copy.status

FedInv == IsFed(fed) /\ IsFrun(frun) /\ IsFed(frun.copy) /\ CopyLists
InsInv == IsIns(ins) /\ ins.recs.shards \in {{}, Watched.shards}
FInv == FedInv /\ InsInv

LEMMA InitFleet == FL!Init => FInv
<1> SUFFICES ASSUME FL!Init PROVE FInv
    OBVIOUS
<1>1. IsFed(fed)
    BY Zenon DEF FL!Init, IsFed
<1>2. frun = [pc |-> "Idle", fresh |-> FALSE, copy |-> fed, todo |-> {}]
    BY Zenon DEF FL!Init
<1>3. IsFrun(frun) /\ frun.copy = fed /\ frun.pc = "Idle"
    BY <1>2 DEF IsFrun
<1>4. ins = [enabled |-> TRUE, phase |-> "", recs |-> FL!Nothing]
    BY Zenon DEF FL!Init
<1>5. InsInv
    BY <1>4, Zenon DEF InsInv, IsIns, FL!Nothing
<1> QED BY <1>1, <1>3, <1>5 DEF FInv, FedInv, CopyLists

\* The steps of the federation and of its user.
LEMMA FedStarts ==
    ASSUME FInv, FL!FedStart
    PROVE  FedInv' /\ fed' = fed
<1> DEFINE c == [fed EXCEPT !.status = FL!withRegions(fed)]
<1>1. frun' = [pc |-> "Probe", fresh |-> TRUE, todo |-> fed.regions, copy |-> c] /\ fed' = fed
    BY DEF FL!FedStart
<1>2. IsFed(c) /\ c.status = FL!withRegions(fed)
    BY DEF FInv, FedInv, IsFed
<1>3. fed.regions \subseteq DOMAIN FL!withRegions(fed)
    BY DEF FL!withRegions
<1> HIDE DEF c
<1>4. IsFrun(frun') /\ frun'.copy = c
    BY <1>1 DEF IsFrun
<1> QED BY <1>1, <1>2, <1>3, <1>4 DEF FInv, FedInv, CopyLists

LEMMA RegionProbed ==
    ASSUME FInv, NEW r, FL!propagateRegionMongoDB(r)
    PROVE  FedInv' /\ fed' = fed
<1> DEFINE v == IF r \in up THEN "Synced" ELSE "Failed"
           s == [frun.copy.status EXCEPT ![r] = v]
           c == [frun.copy EXCEPT !.status = s]
<1>1. fed' = fed /\ frun' = [frun EXCEPT !.todo = frun.todo \ {r}, !.copy = c]
    BY DEF FL!propagateRegionMongoDB
<1>2. DOMAIN s = DOMAIN frun.copy.status
    OBVIOUS
<1> HIDE DEF s
<1>3. IsFed(c) /\ c.status = s
    BY DEF FInv, FedInv, IsFed
<1> HIDE DEF c
<1>4. IsFrun(frun') /\ frun'.copy = c /\ frun'.pc = frun.pc /\ frun'.fresh = frun.fresh
    BY <1>1, Zenon DEF FInv, FedInv, IsFrun
<1> QED BY <1>1, <1>2, <1>3, <1>4 DEF FInv, FedInv, CopyLists

LEMMA SyncedAll ==
    ASSUME NEW s, FL!computeFederationPhase(s) = "Synced"
    PROVE  \A r \in DOMAIN s : s[r] = "Synced"
BY DEF FL!computeFederationPhase

LEMMA FedWritten ==
    ASSUME FInv, FL!FedWrite
    PROVE  FedInv' /\ FL!ProbedStep
<1> DEFINE s == frun.copy.status
           p == FL!computeFederationPhase(s)
           new == [fed EXCEPT !.status = s, !.phase = p]
<1>1. fed' = fed \/ (frun.fresh = TRUE /\ fed' = new)
    <2>1. CASE ~frun.fresh
        BY <2>1 DEF FL!FedWrite
    <2>2. CASE frun.fresh
        BY <2>2 DEF FL!FedWrite
    <2> QED BY <2>1, <2>2, Zenon
<1>2. frun.pc = "Probe" /\ frun' = [frun EXCEPT !.pc = "Idle"]
    BY DEF FL!FedWrite
<1>3. IsFrun(frun') /\ frun'.copy = frun.copy /\ frun'.pc = "Idle"
    BY <1>2 DEF FInv, FedInv, IsFrun
<1>4. IsFed(new) /\ new.regions = fed.regions /\ new.status = s /\ new.phase = p
    <2> HIDE DEF s, p
    <2> DEFINE a == fed.regions
               b == fed.status
               c == fed.phase
    <2>1. fed = [regions |-> a, status |-> b, phase |-> c]
        BY DEF FInv, FedInv, IsFed
    <2> HIDE DEF a, b, c
    <2> DEFINE e == [fed EXCEPT !.status = s]
    <2>2. e = [regions |-> a, status |-> s, phase |-> c]
        BY <2>1
    <2> HIDE DEF e
    <2>3. [e EXCEPT !.phase = p] = [regions |-> a, status |-> s, phase |-> p]
        BY <2>2
    <2>4. new = [regions |-> a, status |-> s, phase |-> p]
        BY <2>3, Zenon DEF e
    <2> HIDE DEF new
    <2> QED BY <2>1, <2>4 DEF IsFed
<1>5. p = "Synced" => \A r \in DOMAIN s : s[r] = "Synced"
    BY SyncedAll
<1> HIDE DEF p, new
<1>6. FedInv'
    BY <1>1, <1>3, <1>4 DEF FInv, FedInv, CopyLists
<1>7. FL!ProbedStep
    BY <1>1, <1>2, <1>4, <1>5 DEF FInv, FedInv, CopyLists, FL!ProbedStep
<1> QED BY <1>6, <1>7

LEMMA FedEdited ==
    ASSUME FInv, FL!EditFederation
    PROVE  FedInv' /\ FL!ProbedStep
<1>1. PICK R : R # fed.regions /\ fed' = [fed EXCEPT !.regions = R]
    BY DEF FL!EditFederation
<1>2. frun' = [frun EXCEPT !.fresh = FALSE]
    BY DEF FL!EditFederation
<1>3. IsFed(fed') /\ fed'.regions = R
    BY <1>1 DEF FInv, FedInv, IsFed
<1>4. IsFrun(frun') /\ frun'.copy = frun.copy /\ frun'.fresh = FALSE
    BY <1>2, Zenon DEF FInv, FedInv, IsFrun
<1> QED BY <1>1, <1>3, <1>4 DEF FInv, FedInv, CopyLists, FL!ProbedStep

\* The steps of the insights and of their user.
LEMMA InsWritten ==
    ASSUME FInv, NEW new, NEW q, FL!WriteIns(new, q)
    PROVE  ins' \in {ins, new} /\ UNCHANGED <<fed, frun>>
BY DEF FL!WriteIns, FL!fedVars

LEMMA InsSteps ==
    ASSUME FInv, FL!ReconcileIns \/ FL!EditInsights
    PROVE  InsInv' /\ UNCHANGED <<fed, frun>>
<1>1. CASE FL!InsStart \/ FL!FetchShardedProfiles
    BY <1>1, Zenon DEF FL!InsStart, FL!FetchShardedProfiles, FL!fedVars, FInv, InsInv, IsIns
<1>2. CASE FL!EditInsights
    <2>1. ins' = [ins EXCEPT !.enabled = ~ins.enabled] /\ UNCHANGED <<fed, frun>>
        BY <1>2 DEF FL!EditInsights, FL!fedVars
    <2>2. IsIns(ins') /\ ins'.recs = ins.recs
        BY <2>1, Zenon DEF FInv, InsInv, IsIns
    <2> QED BY <2>1, <2>2 DEF FInv, InsInv
<1>3. ASSUME NEW ph, NEW q, FL!WriteIns([ins EXCEPT !.phase = ph], q)
      PROVE  InsInv' /\ UNCHANGED <<fed, frun>>
    <2>1. ins' \in {ins, [ins EXCEPT !.phase = ph]} /\ UNCHANGED <<fed, frun>>
        BY <1>3, InsWritten
    <2>2. IsIns(ins') /\ ins'.recs = ins.recs
        BY <2>1 DEF FInv, InsInv, IsIns
    <2> QED BY <2>1, <2>2 DEF FInv, InsInv
<1>4. CASE FL!Reenter
    BY <1>3, <1>4, Zenon DEF FL!Reenter
<1>5. CASE FL!runAnalysis
    <2>1. CASE FL!fetchFailed(irun.got)
        BY <1>3, <1>5, <2>1, Zenon DEF FL!runAnalysis
    <2>2. CASE ~FL!fetchFailed(irun.got)
        <3> DEFINE new == [ins EXCEPT !.phase = "Ready", !.recs = irun.got]
        <3>1. FL!WriteIns(new, TRUE) /\ irun.got.shards = Watched.shards
            BY <1>5, <2>2, Zenon DEF FL!runAnalysis, FL!fetchFailed
        <3>2. ins' \in {ins, new} /\ UNCHANGED <<fed, frun>>
            BY <3>1, InsWritten, Zenon
        <3> DEFINE a == ins.enabled
                   b == ins.phase
                   c == ins.recs
        <3>3. ins = [enabled |-> a, phase |-> b, recs |-> c]
            BY DEF FInv, InsInv, IsIns
        <3> HIDE DEF a, b, c
        <3> DEFINE e == [ins EXCEPT !.phase = "Ready"]
        <3>4. e = [enabled |-> a, phase |-> "Ready", recs |-> c]
            BY <3>3
        <3> HIDE DEF e
        <3>5. [e EXCEPT !.recs = irun.got] = [enabled |-> a, phase |-> "Ready", recs |-> irun.got]
            BY <3>4
        <3>6. new = [enabled |-> a, phase |-> "Ready", recs |-> irun.got]
            BY <3>5, Zenon DEF e
        <3>7. IsIns(new) /\ new.recs = irun.got
            BY <3>6, Zenon DEF IsIns
        <3> HIDE DEF new
        <3> QED BY <3>1, <3>2, <3>7 DEF FInv, InsInv
    <2> QED BY <2>1, <2>2
<1> QED BY <1>1, <1>2, <1>4, <1>5 DEF FL!ReconcileIns

LEMMA StepFleet == FInv /\ [FL!Next]_FL!vars => FInv' /\ FL!ProbedStep
<1> SUFFICES ASSUME FInv, [FL!Next]_FL!vars PROVE FInv' /\ FL!ProbedStep
    OBVIOUS
<1>1. ASSUME UNCHANGED ins, FedInv', fed' = fed \/ FL!ProbedStep PROVE FInv' /\ FL!ProbedStep
    BY <1>1 DEF FInv, InsInv, IsIns, FL!ProbedStep
<1>2. ASSUME UNCHANGED <<fed, frun>>, InsInv' PROVE FInv' /\ FL!ProbedStep
    BY <1>2 DEF FInv, FedInv, CopyLists, FL!ProbedStep
<1>3. ASSUME UNCHANGED <<fed, frun, ins>> PROVE FInv' /\ FL!ProbedStep
    BY <1>3 DEF FInv, FedInv, CopyLists, InsInv, FL!ProbedStep
<1>4. CASE FL!ReconcileFed
    <2>1. UNCHANGED ins
        BY <1>4, Zenon DEF FL!ReconcileFed, FL!FedStart, FL!propagateRegionMongoDB, FL!FedWrite, FL!insVars
    <2> QED BY <1>1, <1>4, <2>1, FedStarts, RegionProbed, FedWritten DEF FL!ReconcileFed
<1>5. CASE FL!ReconcileIns
    BY <1>2, <1>5, InsSteps
<1>6. CASE FL!Edit
    <2>1. CASE FL!EditFederation
        BY <1>1, <2>1, FedEdited DEF FL!EditFederation, FL!insVars
    <2>2. CASE FL!EditGroup
        BY <1>3, <2>2 DEF FL!EditGroup, FL!fedVars, FL!insVars
    <2>3. CASE FL!EditInsights
        BY <1>2, <2>3, InsSteps
    <2> QED BY <1>6, <2>1, <2>2, <2>3 DEF FL!Edit
<1>7. CASE FL!Restart
    <2>1. frun' = [frun EXCEPT !.pc = "Idle"] /\ UNCHANGED <<fed, ins>>
        BY <1>7 DEF FL!Restart
    <2>2. IsFrun(frun') /\ frun'.copy = frun.copy /\ frun'.pc = "Idle"
        BY <2>1 DEF FInv, FedInv, IsFrun
    <2> QED BY <1>1, <2>1, <2>2 DEF FInv, FedInv, CopyLists
<1>8. CASE \/ FL!ReconcileGrp \/ (\E c \in FL!Controllers : FL!Timer(c))
           \/ FL!Outage \/ FL!RegionReturns \/ FL!NewData \/ UNCHANGED FL!vars
    BY <1>3, <1>8 DEF FL!ReconcileGrp, FL!GrpStart, FL!GrpWrite, FL!Timer, FL!Outage,
                      FL!RegionReturns, FL!NewData, FL!fedVars, FL!insVars, FL!vars
<1> QED BY <1>4, <1>5, <1>6, <1>7, <1>8 DEF FL!Next

\* ReportsAreBacked in every behaviour, whatever is deleted and created again: no Job that did
\* not complete, no region that was not asked and no shard that failed is behind a Completed,
\* Passed, Synced or Ready that is written, and no Completed is that of an earlier backup unless
\* handleDeletion could not delete its Job.
THEOREM ReportsBacked == Spec => ReportsAreBacked
<1> DEFINE Inv == (part = "BC" => BInv /\ RunInv) /\ (part = "FL" => FInv)
<1>1. Init => Inv
    <2>1. BC!Init => RunInv
        BY DEF BC!Init, BC!IdleV, RunInv, VerificationRun, Owners
    <2> QED BY <2>1, InitBackup, InitFleet DEF Init
<1>2. Inv /\ [Next]_vars => Inv' /\ (part = "FL" => FL!ProbedStep)
    <2> SUFFICES ASSUME Inv, [Next]_vars PROVE Inv' /\ (part = "FL" => FL!ProbedStep)
        OBVIOUS
    <2>1. part' = part
        BY DEF Next, Keep, vars
    <2>2. CASE part = "BC"
        <3>1. [BC!Next]_BC!vars
            BY <2>2 DEF Next, Keep, vars, backupVars, BC!vars
        <3> QED BY <2>1, <2>2, <3>1, StepBackup, StepVerificationRun
    <2>3. CASE part = "FL"
        <3>1. [FL!Next]_FL!vars
            BY <2>3 DEF Next, Keep, vars, fleetVars, FL!vars
        <3> QED BY <2>1, <2>3, <3>1, StepFleet
    <2> QED BY <2>1, <2>2, <2>3
<1>3. Inv => CompletedMeansDumped /\ PassedMeansRestored /\ RecommendationsAreComplete
    BY DEF BInv, Truthful, Held, Seen, CompletedMeansDumped, BC!CompletedMeansDumped, PassedMeansRestored,
           BC!PassedMeansRestored, FInv, InsInv, RecommendationsAreComplete,
           FL!RecommendationsAreComplete
<1>4. Inv /\ Inv' /\ [Next]_vars => [BackedStep]_vars
    <2>1. Inv' => CompletedMeansDumped' /\ PassedMeansRestored' /\ RecommendationsAreComplete'
        BY <1>3, PTL
    <2> HIDE DEF Inv
    <2> QED BY <1>2, <2>1 DEF BackedStep
<1> HIDE DEF Inv
<1>5. Spec => []Inv
    BY <1>1, <1>2, PTL DEF Spec
<1>6. Spec => [][BackedStep]_vars
    BY <1>4, <1>5, PTL DEF Spec
<1> QED BY <1>6 DEF ReportsAreBacked

-----------------------------------------------------------------------------
(***************************************************************************)
(* Admission.  Immutability of the target is all that the clean-up of a    *)
(* MongoDBSearchIndex rests on.                                            *)
(***************************************************************************)
IsObj(o) ==
    /\ o = [exists |-> o.exists, spec |-> o.spec, fin |-> o.fin, deleting |-> o.deleting,
            sound |-> o.sound]
    /\ o.exists \in BOOLEAN /\ o.fin \in BOOLEAN /\ o.deleting \in BOOLEAN

\* Every index there is, or is about to be, is the one the stored spec names, and the
\* finalizer of that object is still there.
OnlyTarget ==
    indexes \cup irun # {} =>
        /\ kind = "MongoDBSearchIndex" /\ obj.exists /\ obj.fin
        /\ indexes \cup irun \subseteq {AD!Target(obj.spec)}

AInv == IsObj(obj) /\ (hist.sound => OnlyTarget)

LEMMA NoObjectShape == ASSUME NEW k PROVE IsObj(AD!NoObject(k)) /\ ~AD!NoObject(k).exists
BY DEF IsObj, AD!NoObject

LEMMA InitAdmission == AD!Init => AInv
BY NoObjectShape DEF AD!Init, AInv, OnlyTarget

LEMMA StepAdmission == AInv /\ [AD!Next]_AD!vars => AInv'
<1> SUFFICES ASSUME AInv, [AD!Next]_AD!vars PROVE AInv'
    OBVIOUS
<1>1. CASE UNCHANGED AD!vars \/ AD!EnableWebhooks
    BY <1>1 DEF AD!vars, AD!EnableWebhooks, AInv, IsObj, OnlyTarget, AD!Target
<1>2. CASE AD!Create
    <2>1. PICK s : obj' = [AD!NoObject(kind) EXCEPT !.exists = TRUE, !.spec = s, !.sound = on]
        BY <1>2, Zenon DEF AD!Create
    <2>2. IsObj(obj')
        BY <2>1, Zenon DEF AD!NoObject, IsObj
    <2>3. hist'.sound => hist.sound
        BY <1>2, Zenon DEF AD!Create, AD!Wrote
    <2>4. UNCHANGED <<indexes, irun>> /\ ~obj.exists
        BY <1>2 DEF AD!Create
    <2>5. hist.sound => indexes \cup irun = {}
        BY <2>4 DEF AInv, OnlyTarget
    <2> QED BY <2>2, <2>3, <2>4, <2>5 DEF AInv, OnlyTarget
<1>3. CASE AD!Update
    <2>1. PICK s : /\ AD!ValidateUpdate(obj.spec, s)
                   /\ obj' = [obj EXCEPT !.spec = s, !.sound = @ /\ on]
        BY <1>3, Zenon DEF AD!Update
    <2>2. IsObj(obj') /\ obj'.exists = obj.exists /\ obj'.fin = obj.fin /\ obj'.spec = s
        BY <2>1, Zenon DEF AInv, IsObj
    <2>3. hist'.sound => hist.sound /\ on
        BY <1>3, Zenon DEF AD!Update, AD!Wrote
    <2>4. UNCHANGED <<indexes, irun, kind>>
        BY <1>3 DEF AD!Update
    <2>5. on /\ kind = "MongoDBSearchIndex" => AD!Target(s) = AD!Target(obj.spec)
        BY <2>1 DEF AD!ValidateUpdate, AD!validateImmutable
    <2> QED BY <2>2, <2>3, <2>4, <2>5 DEF AInv, OnlyTarget
<1>4. CASE AD!Delete
    <2>1. UNCHANGED <<kind, indexes, irun, hist>>
        BY <1>4 DEF AD!Delete
    <2>2. CASE obj.fin
        <3>1. obj' = [obj EXCEPT !.deleting = TRUE]
            BY <1>4, <2>2 DEF AD!Delete
        <3>2. IsObj(obj') /\ obj'.exists = obj.exists /\ obj'.fin /\ obj'.spec = obj.spec
            BY <2>2, <3>1, Zenon DEF AInv, IsObj
        <3> QED BY <2>1, <3>2 DEF AInv, OnlyTarget
    <2>3. CASE ~obj.fin
        BY <1>4, <2>1, <2>3, NoObjectShape DEF AD!Delete, AInv, OnlyTarget
    <2> QED BY <2>2, <2>3
<1>5. CASE AD!AddFinalizer
    <2>1. obj' = [obj EXCEPT !.fin = TRUE] /\ UNCHANGED <<kind, indexes, irun, hist>>
        BY <1>5 DEF AD!AddFinalizer
    <2>2. IsObj(obj') /\ obj'.exists = obj.exists /\ obj'.fin /\ obj'.spec = obj.spec
        BY <2>1, Zenon DEF AInv, IsObj
    <2> QED BY <2>1, <2>2 DEF AInv, OnlyTarget
<1>6. CASE AD!ReadIndex \/ AD!CreateIndex
    <2>1. UNCHANGED <<kind, obj, hist>>
        BY <1>6 DEF AD!ReadIndex, AD!CreateIndex
    <2>2. CASE AD!CreateIndex
        BY <2>1, <2>2 DEF AD!CreateIndex, AInv, OnlyTarget
    <2>3. CASE AD!ReadIndex
        BY <2>1, <2>3 DEF AD!ReadIndex, AInv, OnlyTarget
    <2> QED BY <1>6, <2>2, <2>3
<1>7. CASE AD!HandleDeletion
    <2>1. UNCHANGED <<kind, irun, hist>> /\ irun = {}
        BY <1>7 DEF AD!HandleDeletion
    <2>2. hist.sound => indexes' = {}
        BY <1>7, <2>1 DEF AD!HandleDeletion, AInv, OnlyTarget
    <2>3. IsObj(obj')
        BY <1>7, NoObjectShape DEF AD!HandleDeletion, AInv
    <2> QED BY <2>1, <2>2, <2>3 DEF AInv, OnlyTarget
<1> QED BY <1>1, <1>2, <1>3, <1>4, <1>5, <1>6, <1>7 DEF AD!Next, AD!Controller

\* RetargetLeavesNoIndex in every behaviour, for any number of writes: with the webhooks served
\* all along, what handleDeletion drops is all there is to drop.
THEOREM NoIndexOutlivesItsObject == Spec => []RetargetLeavesNoIndex
<1> DEFINE Inv == part = "AD" => AInv
<1>1. Init => Inv
    BY InitAdmission DEF Init
<1>2. Inv /\ [Next]_vars => Inv'
    <2> SUFFICES ASSUME Inv, [Next]_vars, part' = "AD" PROVE AInv'
        OBVIOUS
    <2>1. part = "AD" /\ [AD!Next]_AD!vars
        BY DEF Next, Keep, vars, admissionVars, AD!vars
    <2> QED BY <2>1, StepAdmission
<1>3. Inv => RetargetLeavesNoIndex
    BY DEF AInv, OnlyTarget, RetargetLeavesNoIndex, AD!RetargetLeavesNoIndex
<1> QED BY <1>1, <1>2, <1>3, PTL DEF Spec

-----------------------------------------------------------------------------
(***************************************************************************)
(* VersionSteps.  The rule splits a version into major and minor and never *)
(* compares across majors; the reference only knows the order of the list. *)
(***************************************************************************)
LEMMA Digits ==
    ASSUME NEW v \in Nat, NEW m \in {80, 82, 83, 90}, VS!MajorMinor(v) = m
    PROVE  VS!Major(v) = m \div 10 /\ VS!Minor(v) = m % 10
<1>1. v \in 10 * m .. 10 * m + 9
    BY DEF VS!MajorMinor
<1>2. v \div 100 = m \div 10
    BY <1>1
<1> QED BY <1>2 DEF VS!Major, VS!Minor, VS!MajorMinor

LEMMA MinorsOf == VS!supportedMinors(8) = {0, 2, 3} /\ VS!supportedMinors(9) = {0}
<1>1. {t \in VS!supportedMongoDBList : t \div 10 = 8} = {80, 82, 83}
    BY DEF VS!supportedMongoDBList
<1>2. {t \in VS!supportedMongoDBList : t \div 10 = 9} = {90}
    BY DEF VS!supportedMongoDBList
<1>3. {s % 10 : s \in {80, 82, 83}} = {0, 2, 3} /\ {s % 10 : s \in {90}} = {0}
    OBVIOUS
<1> QED BY <1>1, <1>2, <1>3 DEF VS!supportedMinors

\* The rule on two supported versions, in terms of the list alone.
LEMMA PathRule ==
    ASSUME NEW v \in Nat, NEW w \in Nat, v # w,
           VS!MajorMinor(v) \in VS!supportedMongoDBList, VS!MajorMinor(w) \in VS!supportedMongoDBList
    PROVE  VS!IsValidUpgradePath(v, w) <=>
               \/ VS!MajorMinor(w) = VS!MajorMinor(v)
               \/ <<VS!MajorMinor(v), VS!MajorMinor(w)>> \in {<<80, 82>>, <<82, 83>>, <<83, 90>>}
<1> DEFINE a == VS!MajorMinor(v)
           b == VS!MajorMinor(w)
<1>1. a \in {80, 82, 83, 90} /\ b \in {80, 82, 83, 90}
    BY DEF VS!supportedMongoDBList
<1>2. /\ VS!Major(v) = a \div 10 /\ VS!Minor(v) = a % 10
      /\ VS!Major(w) = b \div 10 /\ VS!Minor(w) = b % 10
    BY <1>1, Digits
<1>3. VS!IsValidUpgradePath(v, w) <=>
          IF b \div 10 # a \div 10 THEN VS!checkMajorStep(v, w) ELSE VS!AdjacentMinor(v, w)
    BY <1>2 DEF VS!IsValidUpgradePath, VS!IsSupportedMongoDBVersion
<1> HIDE DEF a, b
<1>4. CASE a = 90
    <2>1. VS!Major(v) = 9 /\ VS!Minor(v) = 0
        BY <1>2, <1>4
    <2>2. CASE b = 90
        BY <1>2, <1>3, <1>4, <2>1, <2>2, MinorsOf DEF VS!AdjacentMinor, a, b
    <2>3. CASE b \in {80, 82, 83}
        <3>1. ~VS!checkMajorStep(v, w) /\ b \div 10 = 8 /\ a \div 10 = 9
            BY <1>2, <1>4, <2>3 DEF VS!checkMajorStep
        <3> QED BY <1>3, <1>4, <2>3, <3>1 DEF a, b
    <2> QED BY <1>1, <2>2, <2>3
<1>5. CASE a \in {80, 82, 83}
    <2>1. VS!Major(v) = 8 /\ VS!Minor(v) = a - 80 /\ a \div 10 = 8
        BY <1>2, <1>5
    <2>2. CASE b = 90
        <3>1. VS!Major(w) = 9 /\ VS!Minor(w) = 0 /\ b \div 10 = 9
            BY <1>2, <2>2
        <3>2. VS!checkMajorStep(v, w) <=> a = 83
            BY <1>5, <2>1, <3>1, MinorsOf DEF VS!checkMajorStep
        <3> QED BY <1>3, <1>5, <2>1, <2>2, <3>1, <3>2 DEF a, b
    <2>3. CASE b \in {80, 82, 83}
        <3>1. VS!Major(w) = 8 /\ VS!Minor(w) = b - 80 /\ b \div 10 = 8
            BY <1>2, <2>3
        <3>2. VS!AdjacentMinor(v, w) <=> a = b \/ <<a, b>> \in {<<80, 82>>, <<82, 83>>}
            BY <1>5, <2>1, <2>3, <3>1, MinorsOf DEF VS!AdjacentMinor
        <3> QED BY <1>3, <1>5, <2>1, <2>3, <3>1, <3>2 DEF a, b
    <2> QED BY <1>1, <2>2, <2>3
<1> QED BY <1>1, <1>4, <1>5

LEMMA NextInList ==
    ASSUME NEW a \in VS!supportedMongoDBList, NEW b \in VS!supportedMongoDBList
    PROVE  VS!IsNext(a, b) <=> <<a, b>> \in {<<80, 82>>, <<82, 83>>, <<83, 90>>}
BY DEF VS!IsNext, VS!supportedMongoDBList

\* PathsLeadUp in every behaviour and for any set of releases with one of every supported
\* minor: IsValidUpgradePath is the order of the list, has no dead end, and the binary it
\* admits starts on the FCV the upgrade before committed.
THEOREM PathsAlwaysLeadUp == Spec => []PathsLeadUp
<1> DEFINE VInv == cur \in Releases /\ fcv = VS!MajorMinor(cur)
           Inv == part = "VS" => VInv
<1>1. Init => Inv
    BY DEF Init, VS!Init, VS!fcvMajorMinor
<1>2. Inv /\ [Next]_vars => Inv'
    <2> SUFFICES ASSUME Inv, [Next]_vars, part' = "VS" PROVE VInv'
        OBVIOUS
    <2>1. part = "VS" /\ (VS!Next \/ UNCHANGED <<cur, fcv>>)
        BY DEF Next, Keep, vars, versionVars
    <2> QED BY <2>1 DEF VS!Next, VS!fcvMajorMinor, VS!MajorMinor
<1>3. VInv => VS!PathIsNextSupported
    <2> SUFFICES ASSUME VInv, NEW to \in Releases, to # cur
                 PROVE  VS!IsValidUpgradePath(cur, to) <=>
                            /\ VS!IsSupportedMongoDBVersion(cur) /\ VS!IsSupportedMongoDBVersion(to)
                            /\ \/ VS!MajorMinor(to) = VS!MajorMinor(cur)
                               \/ VS!IsNext(VS!MajorMinor(cur), VS!MajorMinor(to))
        BY DEF VS!PathIsNextSupported, VS!IsValidUpgradePath
    <2>1. cur \in Nat /\ to \in Nat
        BY ReleasesAssumption
    <2>2. CASE VS!IsSupportedMongoDBVersion(cur) /\ VS!IsSupportedMongoDBVersion(to)
        BY <2>1, <2>2, PathRule, NextInList DEF VS!IsSupportedMongoDBVersion
    <2>3. CASE ~(VS!IsSupportedMongoDBVersion(cur) /\ VS!IsSupportedMongoDBVersion(to))
        BY <2>3 DEF VS!IsValidUpgradePath
    <2> QED BY <2>2, <2>3
<1>4. VInv => VS!StepStartsOnFCV
    <2> SUFFICES ASSUME VInv, NEW to \in Releases, VS!IsValidUpgradePath(cur, to)
                 PROVE  VS!BinaryRunsAtFCV(to, fcv)
        BY DEF VS!StepStartsOnFCV
    <2>1. CASE to = cur \/ VS!MajorMinor(to) = VS!MajorMinor(cur)
        BY <2>1 DEF VS!BinaryRunsAtFCV
    <2>2. CASE to # cur /\ VS!MajorMinor(to) # VS!MajorMinor(cur)
        <3>1. /\ VS!MajorMinor(cur) \in VS!supportedMongoDBList
              /\ VS!MajorMinor(to) \in VS!supportedMongoDBList
            BY <2>2 DEF VS!IsValidUpgradePath, VS!IsSupportedMongoDBVersion
        <3>2. <<VS!MajorMinor(cur), VS!MajorMinor(to)>> \in {<<80, 82>>, <<82, 83>>, <<83, 90>>}
            BY <2>2, <3>1, PathRule, ReleasesAssumption
        <3> DEFINE a == VS!MajorMinor(cur)
                   b == VS!MajorMinor(to)
        <3>3. (a = 80 /\ b = 82) \/ (a = 82 /\ b = 83) \/ (a = 83 /\ b = 90)
            BY <3>2
        <3> HIDE DEF a, b
        <3>4. VS!Precedes(a, b)
            BY <3>3 DEF VS!Precedes, VS!supportedMongoDBList
        <3> QED BY <3>4 DEF VS!BinaryRunsAtFCV, a, b
    <2> QED BY <2>1, <2>2
<1>5. VInv => VS!NoDeadEnd
    <2> SUFFICES ASSUME VInv, VS!IsSupportedMongoDBVersion(cur),
                        NEW s \in VS!supportedMongoDBList, VS!MajorMinor(cur) < s
                 PROVE  \E to \in Releases :
                            /\ VS!MajorMinor(to) > VS!MajorMinor(cur)
                            /\ VS!IsValidUpgradePath(cur, to)
        BY DEF VS!NoDeadEnd
    <2> DEFINE a == VS!MajorMinor(cur)
    <2>1. a \in {80, 82, 83}
        BY DEF VS!IsSupportedMongoDBVersion, VS!supportedMongoDBList
    <2>2. PICK b \in {82, 83, 90} : <<a, b>> \in {<<80, 82>>, <<82, 83>>, <<83, 90>>}
        BY <2>1
    <2>3. PICK to \in Releases : VS!MajorMinor(to) = b
        BY ReleasesAssumption DEF VS!MajorMinor
    <2>4. a < b /\ a \in VS!supportedMongoDBList /\ b \in VS!supportedMongoDBList
        BY <2>1, <2>2 DEF VS!supportedMongoDBList
    <2>5. to # cur /\ cur \in Nat /\ to \in Nat /\ VS!MajorMinor(to) > VS!MajorMinor(cur)
        BY <2>3, <2>4, ReleasesAssumption
    <2>6. VS!IsValidUpgradePath(cur, to)
        BY <2>2, <2>3, <2>4, <2>5, PathRule
    <2> QED BY <2>5, <2>6
<1>6. Inv => PathsLeadUp
    BY <1>3, <1>4, <1>5 DEF PathsLeadUp, PathIsNextSupported, NoDeadEnd, StepStartsOnFCV
<1> QED BY <1>1, <1>2, <1>6, PTL DEF Spec
=============================================================================
