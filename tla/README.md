# A TLA+ model of the MongoDB operator

This directory models `mongodb-operator`, a Kubernetes operator that runs MongoDB
replica sets and sharded clusters, in TLA+.  The modules are translated from the
Go code (and the one shell script that matters); TLC checks them on small
instances, and TLAPS proves the central invariants for all values of the
constants.

    tlc -workers 2 -config any_interleaving.cfg MCReconciler
    tlapm MongoDBReconciler_proofs.tla

Contents: [the system](#the-system), [modules](#modules), [how the code is
modelled](#how-the-code-is-modelled), [runs](#runs), [bounds](#bounds),
[fairness](#fairness), [what the code does not do](#what-the-code-does-not-do),
[proofs](#proofs), [not modelled](#not-modelled).

## The system

The operator is one process (`cmd/main.go`) with one controller per custom
resource.  A controller's `Reconcile` is called with the name of an object; calls
for one object never overlap, calls for different objects do.  It reads the object
from a cache, creates or updates what the object should own, and writes the
object's status.  It may be called again at any time, after an error or a requested
delay, and after a restart of the process.  Everything it must remember it keeps
in the status.

| Part | Source (`internal/controller/` unless named) | State it owns | Model |
|---|---|---|---|
| replica-set controller | `mongodb_controller.go` | status of MongoDB: phase, bootstrap flags, version, pending scale | `MongoDBReconciler`, `RSScaling` |
| upgrade and rollback | `upgrade.go` | upgrade phase, start time, effective and previous version, generation, FCV | `MongoDBReconciler` |
| version rules | `api/v1alpha1/common_types.go` | none | `VersionPath`, `VersionSteps` |
| bootstrap hook | `internal/assets/scripts/bootstrap-admin.sh.tpl` | replica set config, admin user | `MongoDBReconciler` |
| bootstrap lease, password rotation | `bootstrap_lease.go`, `password_rotation.go` | a Lease, an annotation, a condition | `AdminBootstrap` |
| sharded controller | `mongodbsharded_controller.go` | shards, slices of flags, phase, conditions, autoscalers | `MongoDBShardedReconciler`, `ShardedStatus` |
| sharded upgrade | `sharded_upgrade.go` | as the upgrade | `MongoDBShardedReconciler` |
| sharding commands | `internal/mongodb/sharding.go` | the shard list, sharded collections | `MongoDBShardedReconciler`, `ShardedCollections` |
| backup, restore, verification | `mongodbbackup*_controller.go` | phases, Jobs, a Secret | `BackupControllers` |
| search, search index | `mongodbsearch*_controller.go` | sync users, sidecars, indexes, finalizers | `SearchControllers` |
| insights, federation, cluster groups | `mongodbinsights_controller.go`, `...federation...`, `...clustergroup...` | status reports | `Fleet` |
| profile analysis | `internal/insights/` | none (pure) | `InsightsAnalyzer` |
| webhooks | `internal/webhook` | none (pure) | `Admission`; the version rule also in `MongoDBReconciler` |
| builders, TLS, encryption, audit | `internal/resources`, `tls.go`, `encryption/`, `audit/` | pod templates, labels, volumes | `PodBuilders` |

How the parts meet in an upgrade: the user edits `spec.version`; the webhook, when
it is deployed (it is off by default), compares the old spec with the new one; the
replica-set controller creates a MongoDBBackup and waits for the backup controller
to end it; it then changes the StatefulSet's template, the StatefulSet controller
replaces the pods, mongod starts on data files with some feature compatibility
version (FCV), the controller watches the rollout, raises the FCV and records the
result.  Each arrow is asynchronous, and all of them can interleave with edits and
crashes.  In a scale-in the balancer, applications that write, the user who may
raise the count again, and the deletion of a shard's volumes meet in the same way;
in a search it is two controllers, the source's own controller that rolls its pods,
and deletions in any order.

## Modules

| Module | What it is |
|---|---|
| `VersionPath` | versions, the supported list, `IsValidUpgradePath`; external: which FCV a binary runs on |
| `VersionSteps` | upgrades along admitted paths, one after another |
| `MongoDBReconciler` | the reconcile of one MongoDB with its upgrade, its cluster and its environment |
| `AdminBootstrap` | several operator processes, the lease, the admin user, the Secret and its rotation |
| `RSScaling` | the size of one replica set: edits, the deliberate policy, the autoscaler, node drains and the disruption budget |
| `ShardSet` | abstract: what a sharded cluster promises while shards come and go |
| `MongoDBShardedReconciler` | the reconcile of one MongoDBSharded: bring-up, scaling out and in, upgrade; implements `ShardSet` |
| `ShardedStatus` | ready counts, conditions and autoscaled sizes of a sharded cluster |
| `ShardedCollections` | declared collections: look-up, sharding, drift |
| `PodBuilders` | which volumes, containers and labels the options give a pod, and whether it can start |
| `BackupControllers` | a backup or restore, its Jobs and Secret, and a verification of it |
| `SearchControllers` | a search and an index on it, with the source cluster between them |
| `Fleet` | a federation, a cluster group and an insights object with their triggers |
| `InsightsAnalyzer` | division of the sample, detection of slow and unindexed queries, planned indexes |
| `Admission` | the rules of the webhooks, with objects that are created, edited and deleted under them |
| `UpgradeClaims` | what comments and API documentation say of the upgrade that the code does not always do |
| `MCReconciler`, `MCSharded`, `MCAdmin`, `MCSearch` | instances of one module each |
| `Clusters`, `Resources` | several modules that share no state, side by side: a variable `part` says which of them a behaviour is one of, so the state space is the sum of theirs |
| `MCClusters`, `MCResources` | instances of those two |
| `..._proofs` | theorems, see [proofs](#proofs) |

## How the code is modelled

**Steps.**  A `Reconcile` is cut at every call that reads or writes outside the
process; what lies between two calls is one action.  The actions keep the names of
the functions.  Mutated forms of a definition (`f_Something`, directly before
`f`) are plausible bugs; each property is shown to fail under one of them.

**Copies.**  The object in the API server, the informer's copy and the copy the
running reconcile works on are different variables where the code can see the
difference (`obj`, `cache`, `mdb` in `MongoDBReconciler`; `obj`, `mdbsh` and `fresh`
in `MongoDBShardedReconciler`; `run` elsewhere).

**Status writes.**  Most go through `commonsstatus.UpdateWithRetry`, a library: a
write of a stale object conflicts, the object is read again and the closure is
applied to that.  Hence `UpdateWithRetry(F)` applies `F` to the newest object,
whatever the reconcile's copy says; what a closure captures is from the copy, what it
reads from the object is new.  The test `internal/controller/status_update_test.go`
fixes this behaviour.  A field set outside the closure is lost in a conflict.  The
smaller controllers call `Status().Update` directly: a conflict there is an error, or
is only logged, and the models follow each.

**`MongoDBReconciler`.**  The status fields are `phase`, `rsInit` =
`replicaSetInitialized`, `admin` = `adminUserCreated`, `version`, `eff` =
`effectiveVersion`, `prev` = `previousVersion`, `up` = `upgradePhase`, `start` =
`upgradeStartTime`, `upGen` = `observedUpgradeGeneration`, `rb` = `rollbackActive`,
`retry` = `upgradeRetryCount`, `fcv` = `fcvVersion`.  `pc` is the step the reconcile
is at and `desired` its local `desiredVersion`.  `sts` has the template's version and
the published status, `pods` the version and state of each member, `mongo` the
replica set, the admin user, the FCV and the progress of pod 0's postStart hook,
`backups` the phase of each pre-upgrade backup.  Pods start all at once and are
replaced from the highest ordinal down (Parallel, RollingUpdate).  A pod of a version
in `BadVersions`, or whose binary does not run on the FCV, crashes; a good one may,
`MaxFlakes` times.  The StatefulSet controller publishes its status in a step of its
own, so that it may be stale.  `Crash` ends a reconcile anywhere without a write;
`ReconcileError` ends it with phase Failed.  `Tick` advances the time elapsed since
`upgradeStartTime` in every copy.

**`AdminBootstrap`.**  Several operator processes overlap, as they do while leadership
moves from one to the other, and always with `--leader-elect=false`; each has its own
reconcile.  The lease has a holder and an age; all processes see the same clock.
Passwords are model values.  The hook that creates the user, an administrator who
changes the password in the database, and edits of the Secret are environment steps.

**`RSScaling`.**  Pods are counted.  `conf` is the size the replica set was configured
with, `sts.replicas` the size of the StatefulSet, `spec.members` the size asked for;
they are three numbers written by three parties.  The disruption budget is the one
the builder computes when it is enabled with its default.

**`MongoDBShardedReconciler`.**  A workload (config server, each shard, mongos) has a
template version, a running version and readiness.  `mongo` has the shard list with
draining shards, the shards that hold user data, the stores that exist, the
collection, the FCV.  Applications write to any active shard, the balancer moves data
away from a draining one, and any shard may be asked for again while it drains.  The
status has the flag slices `inited` and `added` at their real lengths.  The
abstraction function to `ShardSet` forgets everything but members, holders of data
and volumes.

**`ShardedStatus`** starts where bring-up is done, with autoscaling switched on in the
operator; **`ShardedCollections`** has one plain and one time-series collection, whose
buckets namespace is the one the config database knows.  An entry of that database has
the field `dropped` or not (`marked`), depending on the server: the look-up takes an
entry without it as sharded, the list asks for `{dropped: false}` and does not see it.

**`PodBuilders`.**  A template is a set of volumes, containers, labels and selector
computed from a role and a set of options; the claim templates are set when the
workload is created and never compared (ADR-0001).  Whether a pod starts is decided by
what it mounts and needs, and the init container that merges the certificate runs
again after a node restart, on a volume it already wrote (its `cp` replaces a
read-only file, a redirection could not).

**`BackupControllers`.**  Jobs expire after their TTL and are then created again by
whoever still wants them; owner references are followed by a garbage collector.  A
Job's own work is its end, good or bad.  Both objects may be deleted and created again
under their names, from which the names of the Jobs and of the Secret derive: a Job's
owner and creator, the Secret's owner and the object a reconcile has read are `"this"`
one or an `"earlier"` one, and `createOrUpdate` adopts what it finds.  `hist.done` are
the Jobs the present objects created that completed, `hist.left` those an earlier one
left, `hist.kept` says that the deletion of a backup failed to delete its Job.  A backup
has a finalizer and its deletion deletes the Job; the comment at
`mongodbbackup_controller.go:170` gives as the reason that owner references alone do not
collect Jobs.  They do (`CollectJob`), but later: what the explicit deletion gives is that
the Completed of a backup created again is its own (`CompletedMeansDumped`).

**`SearchControllers`.**  The source is a replica set or a sharded cluster: the
difference is the sequence of stores that get the sync user, taken in order up to the
first failure.  Passwords are generation numbers.  `secret` is the operator's own Secret,
`given` the one that `spec.syncUserSecretRef` names, which a user may delete and bring
back; without it `resolveSyncUser` fails and the pass ends in Failed.  `hist` records
what somebody took away (the Secret, the reference to the source) and an index whose drop
was given up.  The deletion of a search follows `handleDeletion` (393-422), which keeps
the finalizer until the user is dropped; the older comment at
`mongodbsearch_controller.go:97-98` still calls that drop best-effort.

**`Fleet`, `InsightsAnalyzer`.**  `queue` has the objects with a pending event; a
reconcile runs only for those, so that a lost write without an error is visible as
silence.  The minimum share of a database in the sample is 10 in the code and 2 in
the instance, whose samples are smaller.  Planned indexes and hints follow their specs,
each of which may be absent or disabled.

**`Admission`.**  Specs are those the CRD schema lets through, over the fields the
rules look at.  Objects are created and edited with the webhook on or off, which may
change in between, and the removal of a finalizer passes through the same rules.

**External definitions** (`commonsstatus`, `commonsreconcile`, controller-runtime,
StatefulSet, Job and autoscaler controllers, garbage collector, kubelet, mongod,
mongos, the balancer, mongot) are modelled from how the code uses them.  The rule
which FCV a binary starts on is the one the comment of `checkMajorStep` gives.

## Runs

| Run | Instance | Shows |
|---|---|---|
| `any_interleaving` | one member, two generations, stale cache, slow StatefulSet controller, edit between any two steps, a crash, a flake, failing backups | `TypeOK`, `BootstrapFlagsTruthful`, `UpgradeRecordComplete`: the flags are true of the database, an upgrade in progress has what it needs to end |
| `settled_edits` | two members, three generations, each edit after the one before settled; two crashes, a flake | `AttemptedExactlyOnce`, `CompletedMeansRolledOut`, `BackupBeforeRollout` |
| `webhook_fcv` | one member, 8.2 to 8.3 to 9.0, webhook, edit between any two steps, a crash, a flake | `FCVRecordTruthful`, `FCVNeverLowered`, `DowngradeOnlyByRollback` |
| `liveness` | two members, three generations, a version that cannot run, two crashes | `UpgradeSettles`, `EventuallyRunning`, `EditIsHandled`, `RollbackRestores` |
| `sharded_scaling` | one or two shards, with or without a declared collection, three generations, a failed call or crash, and one edit or foreign write in the middle of a pass | `StatusTruthful` (flags and Running), `ImplementsShardSet`, `ScalingSettles` (out, and in by one) |
| `sharded_upgrade` | one shard, 8.2 to 8.3 with backup or in a broken patch, and to 9.0, three generations, edits between any two passes, a fault | `StagedRollout`, `AttemptedOnce`, `FCVNeverStrands`, `UpgradeConverges` |
| `admin` | two processes, a lease of one tick, an edit of the Secret, a crash | `BootstrapSerialised`, `FlagMeansUser`, `RotationIsNotForgotten`, `StaleLeaseIsReplaced` |
| `search` | mongos and one shard, one pod, the operator's Secret or the user's, two edits or deletions, one fault | `AnnotatedPodsCanStart`, `DeletionIsClean` (users, indexes), `SearchSettles` (password, index), `DeletionsEnd` (search, index) |
| `clusters` | `RSScaling` (1 or 3 members, autoscaler up to 4), `ShardedStatus`, `ShardedCollections`, `PodBuilders` (four roles, three options at a time) | `MembersKeepTheirPods`, `DrainsOneAtATime`, `ConditionsAgree`, `WorkloadsSettle` (approved sizes are reached, any number of mongos will do, pods start), `CollectionsSettle` (as declared, or drift reported), `TemplatesServe` (selectors are kept, the Service finds the sidecars) |
| `resources` | `BackupControllers`, `Fleet`, `Admission`, `InsightsAnalyzer`, `VersionSteps` (majors 7-9, minors 0-4, patches 0-9) | `ReportsAreBacked` (Completed, Passed, Synced, recommendations; over deletions and re-creations), `ReportsSettle` (backups end; regions, members and recommendations get listed), `DeletionsComplete`, `RetargetLeavesNoIndex`, `RecommendationsAreSound` (against a direct reading of the profile), `PathsLeadUp` |
| `claim_remove_shard`, `claim_rotation` | see [below](#what-the-code-does-not-do) | a counterexample each |

The assumptions matter.  `settled_edits` edits only when the operator reports the
last edit as done, reads an up-to-date cache and has successful backups; without
them its properties fail, and the claims below say how.  `FreshCache` and
`PromptSts` are what an operator and a StatefulSet controller that keep up give: a
cache refreshed between reconciles, and a reaction to a new template
(`status.observedGeneration` has caught up) within one tick of the clock.  `any_interleaving` makes neither assumption.

A property with several sides is a conjunction of named parts, and each part has a
mutant of its own that breaks it.  Some parts carry their condition in the formula.
`FlagsTruthful` and `RunningMeansBuilt` hold while nothing failed, nobody else wrote
to the resource (after a conflict `ShardsInitialized` is carried over from the old copy)
and no edit took away more than one shard that is still counted (`hist.deep`);
`RunningMeansBuilt` is about a phase that observed the current generation.
`FCVNeverStrands` holds as long as no edit asks for the next minor before the status
reports the current version (`hist.hasty`).  `ScaleInSettles` is about one surplus shard; two wedge (`claim_remove_shard`).
`UpgradeConverges` starts from a version that runs.  `DrainsOneAtATime` is about a set
whose size was neither edited nor raised above the spec by the autoscaler, and
`MembersKeepTheirPods` about one for which nobody has switched the deliberate policy on,
hence one without an autoscaler.  `ScaleSettles` is about a change that was approved, or a
set at the size of the spec, and `AutoscaledMongosRuns` about a config server and shards at
the sizes of the spec: the waits of both reconciles compare ready pods with the spec
(`mongodb_controller.go:412`, `isConfigServerReady`), so at another size that an autoscaler
chose they go on for ever (`AutoscaledSetRuns`, `AutoscaledClusterRuns` below).
`ConditionsAgree` holds unless the write met a conflict.  `CollectionsSettle` excepts drift
behind a collection that the server refuses, and its list is of the entries with the marker.
`PassedMeansRestored` accepts the restore Job of an earlier verification of the name, and
`CompletedMeansDumped` that of an earlier backup only where deleting it failed.
`AdmittedDeletionEnds` is about objects whose every write was admitted.
`AnnotatedPodsCanStart` excepts a Secret that somebody deleted, and `IndexSettles` a search
whose Secret is refused or missing.  `NoDatabaseStarved` is about samples with room for the
minimum of every database.
`NoUserLeft` is about a search that still has its Secret and its reference.
`IndexDeletionEnds` excepts an index whose search has no reference.
`MembersGetListed` excepts a lost status write.  `PodsStart` excludes the option
combinations that the templates cannot serve (`Unserved`) and monitored pods.
`BootstrapSerialised` holds while no bootstrap outlives its lease.

Deadlock is checked where the models never stop; `search`, `clusters` and `resources`
switch it off, since a deleted object leaves nothing to do.

## Bounds

`MaxGen`, `MaxEdits`: edits.  `MaxFaults`, `MaxCrashes`: crashes, failed calls, lost
replies, losses.  `MaxFlakes`: pods that stop.  `MaxTouches`: writes by another
client.  `MaxEvictions`, `MaxScalings`, `MaxRestarts`: what nodes, autoscalers and
kubelets do.  `MaxUpsets`: failed calls, crashes, Jobs removed by their TTL, backups
created again and verifications deleted, counted together.  `MaxRetry` is where the retry count saturates,
`Timeout` where elapsed time does (nothing compares it with more); `Interval`, `Budget`
and `Duration` are in ticks.

Three generations are enough for: upgrade, its failure or rollback, and the upgrade
after that, which is where the fields drift apart; or scale-in, its cancellation, and
another.  Two members are enough for a rollout that is half done, two shards for one
that stays and one that goes, three for two surplus ones, two stores for a pass that
stops between them, two processes for a race, three versions for a path with a step
to skip.  One fault reaches every failure between two calls, and with the edits every
pair of a failure and an edit.  Every run ends within five minutes on two workers.

## Fairness

Every `FairSpec` has weak fairness of each controller's reconcile as a whole, since
controller-runtime calls it again after every return, delay and error, and a call in
progress continues; in `Fleet`, where a reconcile needs an event, of the calls for
queued objects and of the timer the code asks for.  It has weak fairness of what the
cluster does by itself: pods are replaced and become ready where they can, the hook,
backups and Jobs end, the balancer moves data off a draining shard, a certificate is
issued, a region comes back, garbage is collected, time passes.  There is none for
edits, crashes, flakes, evictions, autoscalers and applications.  Faults are bounded in
number, which is what lets weak fairness of the reconcile suffice.

Strong fairness is used twice.  In `MongoDBShardedReconciler` the clock advances
between two reconciles only, so it is enabled again and again while an operator that
has nothing else to do polls; it does not stand still.  In `AdminBootstrap` a primary
that is asked in every reconcile is found in the end, although each single question may
come during an election.

## What the code does not do

Two runs check what a comment says and find a behaviour of the code that differs;
`PROJECT.json` quotes the lines.

| Run | What happens |
|---|---|
| `claim_remove_shard` | the count is lowered by two; the first shard is removed and cleaned up while the second drains, every later reconcile asks for the first again, is told that it does not exist, and returns that error before it gets to the second: the scale-in never ends |
| `claim_rotation` | the reconcile logs in with the password of the Secret before it compares hashes, so a changed Secret makes it fail and the rotation is never signalled |

The other claims are kept with their instances and are run by hand, each with a
counterexample:

    tlc -config claim_rollback_target.cfg MCReconciler

| Configuration, module | What happens |
|---|---|
| `claim_rollback_target`, `MCReconciler` | `status.version` is set to `spec.version` at the end of every complete reconcile (`mongodb_controller.go:642`), also after a rollback: the next upgrade records the failed version as its rollback target |
| `claim_effective_version`, `MCReconciler` | the same write records a version edited during the reconcile as deployed, and no upgrade to it starts |
| `claim_version_aware`, `MCReconciler` | the validation reads `spec.version` anew, so a version edited during it is declared complete without a rollout |
| `claim_backup_first`, `MCReconciler` | the effective version is set before the backup and stays when the edit is taken back during the backup: it is rolled out without one |
| `claim_one_attempt`, `MCReconciler` | a failed backup does not record the generation: the upgrade is started again and again |
| `claim_rollback_safe`, `MCReconciler` | the FCV commit and its record are two steps: a crash between them and a pod failing later lead to a rollback below the committed FCV |
| `claim_bootstrap`, `MCReconciler` | a restart of pod 0 in the middle of its hook leaves a cluster without an admin user |
| `claim_sharded_rollback`, `MCSharded` | a sharded upgrade to a version whose pods never become ready waits in phase Upgrading, before the validation that has the timeout: it is never rolled back |

Further ones are properties of the modules named, refuted on the instance of a run (put
the property in the place of those of its configuration):

| Property | Instance | What happens |
|---|---|---|
| `HeldScaleIsExposed` | `clusters` | `PendingScale` is set in memory, the final write works on a re-read object: ADR-0008's field never reaches the API server |
| `OneMemberAtATime` | `clusters` | the disruption budget is computed from `spec.members`: of a set that the autoscaler made larger, drains take one more pod for each it added |
| `AutoscaledSetRuns` | `clusters` | an autoscaled replica set whose size is not the spec's keeps the reconcile waiting for the spec's pods: it is never reported Running |
| `AutoscaledClusterRuns` | `clusters` | the same of an autoscaled config server, where the comment of `isClusterReady` counts it as ready |
| `ShardedAreListed` | `clusters` | a collection whose entry has no field `dropped` is sharded and not listed (`sharding.go:440`), where the comment says that all that are registered and not dropped are |
| `MonitoredClusterStarts` | `clusters` | the exporter of a monitored pod needs a Secret that is created only after the pods are ready |
| `RestoreFromCompletedOnly` | `resources` | a restore starts whatever the phase of its source |
| `VerificationEnds` | `resources` | the phase Restoring is written before the Job is built and created, and a missing Job is only waited for: a crash between the two, an expired Job, or a backup without `spec.restore`, whose restore Job cannot be built, leave the verification there |
| `PassedMeansOwnRestore` | `resources` | a verification that is deleted and created again adopts the completed restore Job of the one before and passes without a restore: it has no finalizer, and nothing but the garbage collector removes that Job |
| `PartialFailureIsNotFatal` | `resources` | one unreachable shard fails the whole analysis (`fetcher.go:257-262`), where the comment at 208 says that it is not fatal; `RecommendationsAreComplete` is what the code does instead |
| `IntervalIsKept` | `resources` | each status write is an event, which starts the next analysis before its interval has passed |
| `DeletionIsAlwaysAllowed` | `resources` | the removal of a finalizer is validated as an update: an object that was stored while the webhook was off and that a rule refuses cannot be deleted |
| `VotesAreOdd` | `resources` | three members and an arbiter are admitted: the rule of `validateMongoDBSpec` counts members alone |
| `PSAIsAdmitted` | `resources` | two data members and an arbiter per shard, which the comment of `validateShardArbiter` (192-195) and its test (`mongodb_validation_test.go:445-459`) call valid, are refused by the rule for the members: no shard with an arbiter is ever admitted |
| `ReadyOnlyWhenServed` | `search` | pods not rolled yet are not counted, so a search is Ready with the first sidecar |

The same causes, and others met on the way, have effects that can be read off the
actions.  They are listed for whoever works on these parts; no run depends on them.

*Replica set.*  After a rollback an edit that keeps the version is not tried, and a
minor can be skipped since the webhook compares specs; a version edited during a
validation may ask for an FCV that the pods refuse for ever; a pre-upgrade backup is
named after the version and used again by a later upgrade to it; `upgradeRetryCount` is
not reset by a new generation; with an image override a rollback deploys nothing else
(the builder's comment says that the override is kept).  `AddMember` and `RemoveMember`
have no caller, so an approved change of size changes pods and not the replica set's
configuration.  An HPA stays after autoscaling is disabled.  A held edit from 3 to 1
members lowers the disruption budget to 0.  A lease is released by name, so that a
holder that outlived its lease deletes its successor's.

*Sharded cluster.*  The webhook compares two specs and not what is deployed, so 8.2 to 8.3
to 9.0 without waiting gives members 9.0 at FCV 8.2, where `common_types.go:693-694` says
that 9.0 starts from 8.3 because each upgrade commits its FCV (`FCVNeverStrands` without
its condition, refuted on `sharded_upgrade`).  A `status.ready` that is false for a moment makes a validation fail
and rolls back; a failed backup is tried again endlessly; a count lowered during the
first reconcile leaves a shard behind; a scale-in that is cancelled leaves its shard
draining; `ShardsInitialized` may be stale after a conflict; the draining condition is
never stored; the observed generation is that of the re-read object; the mongos hook
never creates an admin user; after a conflict Ready and the component conditions may
disagree; a collection the server refuses hides another one's drift, and the removal of
the drift condition is in memory only; budget and network policy of a removed shard stay.

*Pods.*  TLS without an issuer gets no certificate and `customCert.secretName` is not
used; init scripts without a ConfigMap reference are mounted without a volume; the
encryption key file and the audit log need paths that only some options mount; the
custom configuration's ConfigMap is never mounted.

*Backups.*  A restore never leaves Restoring, and when its Job expires it is run again;
a transient error makes a backup Failed for good; the CronJob exists although the
schedule is disabled, and the backup it creates carries the storage type only; a Job for
a PVC mounts no volume; a verification restores into the cluster the backup names; the
Secret of a backup created again keeps the owner before it and is collected once.

*Others.*  A search that is deleted leaves its annotations on the source; a changed
definition of an index is never applied (the code says that it is to follow); a region
removed from a federation stays in its status; a cluster group is never Synced; the
sample of a profile starves databases when it is smaller than ten per database; no
controller reads the arbiter of either kind; the sharded webhook does not validate
what the replica-set webhook does of encryption, audit and external authentication.

## Proofs

All theorems are about `Spec` (no fairness), for all values of the constants that satisfy
the named assumptions: any number of members, shards, stores and processes, any set of
specs, and any bound on edits, faults and retries.  They state every safety property the
runs check but one (`RecommendationsAreSound`).  The last column names the inductive
invariant; each was checked with TLC on a small instance before it was proved.

| Module | Theorem | Statement | Needs besides the assumptions | Invariant |
|---|---|---|---|---|
| `MongoDBReconciler_proofs` (`ConstantsAssumption`) | `TypeCorrect` | `[]TypeOK` | | itself |
| | `BootstrapFlags` | `[]BootstrapFlagsTruthful` | | `BootstrapInv` |
| | `UpgradeRecord` | `[]UpgradeRecordComplete` | | `RecordInv` |
| | `OneAttempt` | `[]OneAttemptPerGeneration` | `FreshCache`, no failing backup | `AttemptInv` |
| | `AttemptedOnce` | `[]AttemptedExactlyOnce` | the same, settled edits | with `SettledInv` |
| | `BackedUpFirst` | `BackupBeforeRollout` | `FreshCache`, settled edits | `RollInv` |
| | `CompletedIsRolledOut` | `CompletedMeansRolledOut` | `FreshCache`, `PromptSts`, `Interval > 0`, settled edits | with `ObservedInv` |
| | `FCVRecorded`, `FCVOnlyRises` | `[]FCVRecordTruthful`, `FCVNeverLowered` | `Webhook`, `FreshCache` | `RisingInv` |
| | `NoDowngrade` | `DowngradeOnlyByRollback` | the same, no image override | `RisingInv` |
| `MongoDBShardedReconciler_proofs` (`BoundsAreNat`, `SpecsAreTyped`) | `Refinement`, `DataIsKept` | `ImplementsShardSet`, `[]NothingLost` | | `ClusterInv` |
| | `StagedRolloutHolds` | `StagedRollout` | | `RInv` |
| | `TypeCorrect` | `[]TypeOK` | | `TInv` |
| `MongoDBShardedStatus_proofs` (same) | `StatusAlwaysTruthful` | `[]StatusTruthful` | | `SInv` |
| | `UpgradeAttemptedOnce` | `AttemptedOnce` | | `AInv` |
| `MongoDBShardedFCV_proofs` (same) | `FCVStrandsNoMember` | `[]FCVNeverStrands` | `SameCount`, `Whitelisted` | `FInv` |
| `AdminBootstrap_proofs` (`ProcessesNonEmpty`, `DurationIsNat`, `NoPasswordIsNone`, `BoundsAreNat`) | `Serialisation`, `FlagIsBelieved`, `RotationRecorded` | `[]BootstrapSerialised`, `[]FlagMeansUser`, `RotationIsNotForgotten` | | `IInv` |
| `SearchControllers_proofs` | `SidecarsCanStart`, `DeletionsAreClean` | `[]AnnotatedPodsCanStart`, `[]DeletionIsClean` | | `SInv` |
| `Clusters_proofs` (`SizesAreNat`, `RolesAreKnown`) | `PodsKept`, `OneDrainAtATime` | `[]MembersKeepTheirPods`, `[]DrainsOneAtATime` | | `PodsInv`, `DrainInv` |
| | `StatusAgrees` | `[]ConditionsAgree` | | `AgreeInv` |
| | `TemplatesAlwaysServe` | `[]TemplatesServe` | | `TemplateInv` |
| `Resources_proofs` (`ReleasesAssumption`) | `ReportsBacked` | `ReportsAreBacked` | | `BInv`, `FInv` |
| | `NoIndexOutlivesItsObject` | `[]RetargetLeavesNoIndex` | | `AInv` |
| | `PathsAlwaysLeadUp` | `[]PathsLeadUp` | | the FCV is that of the release |

The hypotheses in the fourth column are the assumptions of the runs that check the same
property, except for two.  `FCVStrandsNoMember` needs specs that declare the same number of
shards (`SameCount`): a shard that is rolled back with the others and then taken away gets
no further template, and while its pod still runs the new version a later attempt may
commit the FCV that its template is too old for.  And it needs specs on
the list of supported versions (`Whitelisted`), which the webhook checks on every create and
update.

`FreshCache` is needed: a reconcile that starts from an object older than its
own last write repeats an upgrade step.  Without it TLC refutes the attempts, the backup,
the completion and the downgrade on the instances of their runs, and `FCVNeverLowered` with
an image override; for `FCVRecordTruthful` alone it finds no counterexample, but the proof
rests on the same invariant.  The claims above show what the other hypotheses exclude.

Why the invariants are needed:

- `BootstrapInv`: a reconcile copies flags from a stale cache into its own object, and
  phase Running is computed from them.  The invariant says of all three copies what the
  property says of one; the database's two facts are never undone, which is why a stale
  flag is still true.  `ClosuresKeepFlags` names the closures that leave the flags alone.
- `RecordInv`: the steps are chosen by the stale copy and written to the newest object.
  The invariant says the property of each copy; that what a copy has recorded the
  newest object has recorded, too (`Kept`: a version once set is never cleared); that
  `desired` is a version from the seed on; and that the step to Validating is only
  reached from Upgrading.
- `Fresh`, `AttemptInv`: with an up-to-date cache a reconcile knows the status, though not
  the newest spec; an attempt that was made is under way, marked or needless, and no
  reconcile works for an older generation after it.
- `SettledInv`, `RollInv`, `ObservedInv`: with settled edits a reconcile knows the spec, too.
  Then the template, the effective version and the spec differ only while an upgrade is
  due or in a rollback; an upgrade in phase Upgrading has its backup; and when the clock
  of a validation has run, the StatefulSet's status counts pods of this template.
- `FCVInv` (in `RisingInv`): the minors of the template, of the pods, of the versions in the
  status and the FCV are all bounded by `Top`, the minor of the version the reconcile was
  asked for, which the webhook lets only rise.  When completion is about to be recorded
  the FCV has been committed.
- `ClusterInv`: `NothingLost`, and a reconcile that is about to delete the resources of a
  shard (`Cleanup`) works on one that has left the list.  Between the two the count may
  be raised and a reconcile may crash, but none adds the shard while this one is at
  that step.  Each action then maps to a `Provision`, `Join`, `Write`, `Move`, `Leave` or
  `Discard`, or to a stutter.
- `RInv`: at the step for the shards the config server has the effective version of the
  copy, at the step for mongos every declared shard has, too.
- `TInv`: `TypeOK`, and the shard to clean up next is one that the status still counts:
  without it nothing bounds the length that the slices are cut to.
- `SInv` (sharded): a flag is set after the cluster did what it records, and Running is
  written by a pass that saw every flag set.  Both must hold of the copy of the pass and of
  the stored status, and in the middle of a removal the stored flags name a shard that has
  left: the invariant says of each stage which of the two tells the truth.
- `AInv` (sharded): the guard of `reconcileShardedUpgrade` is one number, the generation
  of the last terminal result.  It is enough because, while no upgrade is under way, a
  generation that was started is complete, marked, or has a failed backup (`Remembered`);
  because the pass's copy agrees with the stored record in these fields, whatever else is
  stale; and because a generation that the pass has not seen was never started.
- `FInv` (sharded): between the old and the new minor, equal or adjacent, lies everything
  that runs, is templated or committed.  An FCV that is the new one already finds every
  template new, since a validation that commits it had them all rolled out; the record of
  it may be missing after a crash, and a validation that then fails must still not roll
  back.  `FPass` says of each stage of a pass what the earlier ones applied.
- `IInv` of `AdminBootstrap_proofs`: `Serialised` says of every process at every step what
  it knows of the lease: who is inside holds it and is younger than it, and who is
  about to create or update it has read a version that the API server will refuse once
  somebody else has written.  `Believed` says what each step of the bootstrap and of the
  rotation has seen: the flag is only about to be set of a user that exists, the
  annotation only to be written after the condition.
- `SInv` of `SearchControllers_proofs`: what a pass wrote before it annotates stays as long
  as the search does (`ConfigFirst`), and a user's own Secret was seen before and is at most
  deleted since (`OwnFirst`); whoever has users or an index has the finalizer
  (`SearchHeld`, `IndexHeld`); and users leave a trace by which the deletion knows of them
  (`UsersTraced`).
- `PodsInv`: rs.initiate uses the members of the reconcile's copy of the spec, so when it is
  about to run the StatefulSet must already have as many pods; and as long as nobody
  approved a change neither the spec, the copy nor an autoscaler may act as if somebody
  had.  `DrainInv`: copy, StatefulSet, budget and autoscaler stay within `spec.members`,
  and an evicted pod is among those that are missing.
- `AgreeInv`: the verdict follows the spec, the conditions follow totals that were read
  one after another: at each point of the pass those read so far fit the copy.
- `TemplateInv`: the template that was applied, under options that may have changed since,
  has its role's selector, and the marker label exactly with the sidecar.
- `BInv`, `FInv` of `Resources_proofs`: what a status, the Job that was read, and the copy a
  reconcile is about to write says has a Job among those that completed (`Truthful`); and a
  backup has its finalizer while a reconcile of it works and while a Job of it exists, so
  that no Job of an earlier backup is there unless its deletion failed (`Held`).  The
  copy of a federation lists every region of the spec as long as it may be written.
- `AInv` of `Resources_proofs`: an index object that only ever changed under the webhook
  has its index, if any, at the one target its spec has always named.

Only model-checked: the liveness properties (`UpgradeSettles`, `EventuallyRunning`,
`EditIsHandled`, `RollbackRestores`, `ScalingSettles`, `UpgradeConverges`,
`StaleLeaseIsReplaced`, `SearchSettles`, `DeletionsEnd`, `WorkloadsSettle`,
`CollectionsSettle`, `ReportsSettle`, `DeletionsComplete`), since fairness is outside the
prover's reach; and `RecommendationsAreSound`, which compares folds over a profile with a
direct reading of it: for profiles of any length that takes an induction over data, which
the prover cannot do.

## Not modelled

- The cleanup of a deleted MongoDB or MongoDBSharded: it deletes objects that owner
  references would delete, and decides nothing.
- `internal/topology`, the detectors of `auto_healing.go`, `auto_anomaly.go` and
  `auto_scaling.go`, `oplog_uploader.go`, and the commands of `internal/mongodb` for
  members, roles and the balancer: nothing in the operator calls them.
- Metrics and alert rules, which nothing reads back; security contexts, network
  policies, probes, resource requests, affinity and presets, which are constant data.
- Text: messages, connection strings, command lines and scripts, mongod options, the
  CronJob's manifest.  Where a decision depends on text (an error that means "not yet
  initialized", a state of removeShard), the decision is modelled.
- The analysis of index usage of `internal/insights`, whose input is decided by what
  mongos answers, and the queryable instance of a verification, which nothing reads.
- Generated DeepCopy code, and the v1beta1 copies of v1alpha1 types, which have no
  controller.

Versions have one digit per part.  An election is represented by its outcome: a primary
exists when a majority is ready.  Leader election is on by default; its loss is
represented by `Crash` in the models of one process and by several processes in
`AdminBootstrap`.  Components in different modules meet where the code lets them: the
upgrade sees a backup by its phase, the sharded bring-up an admin user by its outcome, the
search its source by phase and annotation.  They are not composed further, since what
one writes of the other's state is what these variables hold.
