----------------------------- MODULE Resources -----------------------------
(***************************************************************************)
(* The controllers of the other resources and the rules around them, side  *)
(* by side.  They share no state, so a behaviour is one of one part, the   *)
(* one "part" names; the variables the part does not have hold "none"      *)
(* throughout.                                                             *)
(***************************************************************************)
EXTENDS Integers, Sequences

CONSTANTS
    Backups,    \* BackupControllers' bounds
    Watched,    \* Fleet's constants: regions, members, shards, bounds
    Objects,    \* Admission's bound
    Releases    \* the versions a user may write

\* Versions are written as three digits, and every supported minor has a release.
ASSUME ReleasesAssumption ==
    /\ Releases \subseteq Nat
    /\ \A m \in {80, 82, 83, 90} : \E v \in Releases : v \div 10 = m

VARIABLES part, hist, irun,
    cr, src, ver, job, uri, brun, vrun,                    \* BackupControllers
    fed, frun, up, grp, grun, ins, data, queue,            \* Fleet
    kind, on, obj, indexes,                                \* Admission
    cur, fcv                                               \* VersionSteps

backupVars == <<cr, src, ver, job, uri, brun, vrun>>
fleetVars == <<fed, frun, up, grp, grun, ins, data, queue>>
admissionVars == <<kind, on, obj, indexes>>
versionVars == <<cur, fcv>>
vars == <<part, hist, irun, backupVars, fleetVars, admissionVars, versionVars>>

bcVars == <<hist, backupVars>>
flVars == <<hist, irun, fleetVars>>
adVars == <<hist, irun, admissionVars>>

NoBackup == /\ cr = "none" /\ src = "none" /\ ver = "none" /\ job = "none"
            /\ uri = "none" /\ brun = "none" /\ vrun = "none"
NoFleet == /\ fed = "none" /\ frun = "none" /\ up = "none" /\ grp = "none"
           /\ grun = "none" /\ ins = "none" /\ data = "none" /\ queue = "none"
NoAdmission == kind = "none" /\ on = "none" /\ obj = "none" /\ indexes = "none"
NoVersion == cur = "none" /\ fcv = "none"

BC == INSTANCE BackupControllers WITH
    MaxEdits <- Backups.edits, MaxUpsets <- Backups.upsets

FL == INSTANCE Fleet WITH
    Regions <- Watched.regions, Members <- Watched.members, Shards <- Watched.shards,
    MaxEdits <- Watched.edits, MaxFaults <- Watched.faults

AD == INSTANCE Admission WITH MaxEdits <- Objects.edits

VS == INSTANCE VersionSteps

Init ==
    \/ /\ part = "BC" /\ BC!Init /\ irun = "none"
       /\ NoFleet /\ NoAdmission /\ NoVersion
    \/ part = "FL" /\ FL!Init /\ NoBackup /\ NoAdmission /\ NoVersion
    \/ part = "AD" /\ AD!Init /\ NoBackup /\ NoFleet /\ NoVersion
    \/ /\ part = "VS" /\ VS!Init /\ hist = "none" /\ irun = "none"
       /\ NoBackup /\ NoFleet /\ NoAdmission

Keep(p) ==
    /\ part = p /\ part' = part
    /\ p \notin {"AD", "FL"} => irun' = irun
    /\ p = "VS" => hist' = hist
    /\ p # "BC" => UNCHANGED backupVars
    /\ p # "FL" => UNCHANGED fleetVars
    /\ p # "AD" => UNCHANGED admissionVars
    /\ p # "VS" => UNCHANGED versionVars

Next ==
    \/ Keep("BC") /\ BC!Next
    \/ Keep("FL") /\ FL!Next
    \/ Keep("AD") /\ AD!Next
    \/ Keep("VS") /\ VS!Next

\* The fairness of the modules, each for its own behaviours.
Fairness ==
    /\ WF_bcVars(part = "BC" /\ BC!ReconcileBackup)
    /\ WF_bcVars(part = "BC" /\ BC!ReconcileVerification)
    /\ \A k \in {"backup", "restore", "verify"} :
          /\ WF_bcVars(part = "BC" /\ (BC!JobStarts(k) \/ BC!JobEnds(k)))
          /\ WF_bcVars(part = "BC" /\ BC!CollectJob(k))
    /\ WF_bcVars(part = "BC" /\ BC!CollectSecret)
    /\ WF_flVars(part = "FL" /\ FL!ReconcileFed)
    /\ WF_flVars(part = "FL" /\ FL!ReconcileGrp)
    /\ WF_flVars(part = "FL" /\ FL!ReconcileIns)
    /\ WF_flVars(part = "FL" /\ FL!Timer("ins"))
    /\ WF_flVars(part = "FL" /\ FL!RegionReturns)
    /\ WF_adVars(part = "AD" /\ AD!Controller)

Spec == Init /\ [][Next]_vars

FairSpec == Spec /\ Fairness

(***************************************************************************)
(* The properties, of the behaviours they speak of.  TLC evaluates the     *)
(* predicates of a temporal formula in every state, so in the temporal     *)
(* ones each predicate names its part.                                     *)
(***************************************************************************)
\* BackupControllers: Completed is only reported once a backup Job has completed, one of this
\* very object unless a deletion could not remove the Job of the one before.
CompletedMeansDumped == part = "BC" => BC!CompletedMeansDumped

\* BackupControllers: a verification passes only after a restore Job, of its own or left to it.
PassedMeansRestored == part = "BC" => BC!PassedMeansRestored

\* BackupControllers: a backup left alone ends, Completed or Failed.
BackupEnds == (part = "BC" /\ BC!InProgress) ~> (part = "BC" => ~BC!InProgress)

\* BackupControllers: deleting a backup leaves no Job and no Secret behind.
DeletionLeavesNothing ==
    /\ \A k \in {"backup", "restore"} :
          (part = "BC" /\ BC!JobLeft(k)) ~> (part = "BC" => ~BC!JobLeft(k))
    /\ (part = "BC" /\ BC!SecretLeft) ~> (part = "BC" => ~BC!SecretLeft)

\* Fleet: every region of the spec gets listed.
RegionsGetListed ==
    (part = "FL" /\ hist.followed = "fed") ~> (part = "FL" => fed.regions \subseteq DOMAIN fed.status)

\* Fleet: every member of a group gets listed, unless a status write was lost.
MembersGetListed ==
    (part = "FL" /\ hist.followed = "grp") ~> (part = "FL" => hist.lost \/ grp.members \subseteq grp.listed)

\* Fleet: recommendations are never computed from some of the shards.
RecommendationsAreComplete == part = "FL" => FL!RecommendationsAreComplete

\* Fleet: new profile data reaches the recommendations.
InsightsFollowData ==
    (part = "FL" /\ hist.followed = "ins" /\ ins.enabled)
      ~> (part = "FL" => ~ins.enabled \/ (ins.phase = "Ready" /\ ins.recs.from = data))

\* Admission: the finalizer of an admitted object can be dropped.
AdmittedDeletionEnds == (part = "AD" /\ obj.deleting /\ obj.sound) ~> (part = "AD" => ~obj.deleting)

\* VersionSteps: the upgrade-path rule admits exactly the next supported minor.
PathIsNextSupported == part = "VS" => VS!PathIsNextSupported

\* VersionSteps: from every supported version but the last an upgrade is admitted.
NoDeadEnd == part = "VS" => VS!NoDeadEnd

\* VersionSteps: the binary of an admitted step runs on the FCV committed before.
StepStartsOnFCV == part = "VS" => VS!StepStartsOnFCV

BackedStep ==
    /\ CompletedMeansDumped' /\ PassedMeansRestored' /\ RecommendationsAreComplete'
    /\ part = "FL" => FL!ProbedStep

\* BackupControllers, Fleet: no step makes a status say more than its controller saw.
\* Completed and Passed have the Job that did it, over deletions and re-creations; Synced is
\* only written with an answer of every region; and recommendations are of all shards, although
\* FetchShardedProfiles' comment would have them of some (updateBackupStatus, checkRestoreJob,
\* handleDeletion, computeFederationPhase, runAnalysis).
ReportsAreBacked == [][BackedStep]_vars

\* BackupControllers, Fleet: every status gets to say what it should, although conflicting
\* writes are ignored by some controllers and end the pass of others.
ReportsSettle == BackupEnds /\ RegionsGetListed /\ MembersGetListed /\ InsightsFollowData

\* BackupControllers, Admission: a deletion completes.  The object that was deleted goes away
\* under the webhook, and what it owned goes with it (ValidateUpdate, createOrUpdate).
DeletionsComplete == DeletionLeavesNothing /\ AdmittedDeletionEnds

\* Admission: whatever is created, edited and deleted while the webhooks are served, a deleted
\* MongoDBSearchIndex leaves no index in mongot.  handleDeletion drops only what the last spec
\* names, so this rests on the immutable target (validateImmutable).
RetargetLeavesNoIndex == part = "AD" => AD!RetargetLeavesNoIndex

\* VersionSteps: the upgrade-path rule admits the next supported minor and nothing else, always
\* leads on, and never to a binary that cannot start (IsValidUpgradePath).
PathsLeadUp == PathIsNextSupported /\ NoDeadEnd /\ StepStartsOnFCV

-----------------------------------------------------------------------------
(***************************************************************************)
(* What comments and documents say that the code does not do: TLC refutes  *)
(* each on an instance.  They are the claims of the component modules.     *)
(***************************************************************************)
\* BackupControllers, doc of RestoreSpec: a restore only starts from a Completed backup.
RestoreFromCompletedOnly == [][part = "BC" => BC!RestoreStep]_vars

\* BackupControllers, the verification's phases: Restoring and Verifying lead to an end.
VerificationEnds == (part = "BC" /\ BC!Drilling) ~> (part = "BC" => ~BC!Drilling)

\* BackupControllers, "restore drills": a verification that has passed did a restore.
PassedMeansOwnRestore == part = "BC" => BC!PassedMeansOwnRestore

\* Fleet, comment of FetchShardedProfiles: one shard's failure is not fatal.
PartialFailureIsNotFatal == [][part = "FL" => FL!PartialFailureStep]_vars

\* Fleet, spec.interval: the next analysis starts when its interval has passed.
IntervalIsKept == [][part = "FL" => FL!IntervalStep]_vars

\* Admission, comment of ValidateDelete: every deleted object goes away.
DeletionIsAlwaysAllowed == (part = "AD" /\ obj.deleting) ~> (part = "AD" => ~obj.deleting)

\* Admission, message of validateMongoDBSpec: an admitted replica set has odd votes.
VotesAreOdd == part = "AD" => AD!VotesAreOdd

\* Admission, comment of validateShardArbiter: two data members and an arbiter are admitted.
PSAIsAdmitted == part = "AD" => AD!PSAIsAdmitted
=============================================================================
