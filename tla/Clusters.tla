------------------------------ MODULE Clusters ------------------------------
(***************************************************************************)
(* The parts of the two cluster controllers that have modules of their     *)
(* own, side by side.  They share no state, so a behaviour is one of one   *)
(* part, the one "part" names; the variables the part does not have hold   *)
(* "none" throughout.                                                      *)
(***************************************************************************)
EXTENDS Integers, Sequences

CONSTANTS
    ReplicaSet,   \* RSScaling's constants: sizes, the autoscaler's limit, bounds
    Sharded,      \* ShardedStatus': sizes and autoscaler's limit of each component, bounds
    Collections,  \* ShardedCollections': what is declared, another key, bounds
    Builders      \* PodBuilders': roles, options, bounds

\* The CRD wants at least one member of every component of a sharded cluster.
ASSUME SizesAreNat ==
    /\ ReplicaSet.sizes \subseteq Nat /\ ReplicaSet.limit \in Nat
    /\ \A c \in {"cfg", "shard", "mongos"} :
          Sharded.sizes[c] \subseteq Nat \ {0} /\ Sharded.limit[c] \in Nat

\* The four workloads that the builders make.
ASSUME RolesAreKnown == Builders.roles \subseteq {"rs", "cfg", "shard", "mongos"}

VARIABLES part,
    spec, status, run, sts, pdb, conf, hpa, hist,        \* RSScaling
    wl,                                                  \* ShardedStatus
    mongos, coll,                                        \* ShardedCollections
    role, opts, exists, tmpl, pods, left, step, used     \* PodBuilders

builderVars == <<role, opts, exists, tmpl, pods, left, step, used>>
setVars == <<sts, pdb, conf>>
vars == <<part, spec, status, run, setVars, hpa, hist, wl, mongos, coll, builderVars>>

rsVars == <<spec, status, run, setVars, hpa, hist>>
ssVars == <<spec, wl, hpa, run, status, hist>>
scVars == <<spec, mongos, coll, status, run, hist>>
pbVars == builderVars

NoBuilder ==
    /\ role = "none" /\ opts = "none" /\ exists = "none" /\ tmpl = "none"
    /\ pods = "none" /\ left = "none" /\ step = "none" /\ used = "none"
NoSet == sts = "none" /\ pdb = "none" /\ conf = "none"
NoColl == mongos = "none" /\ coll = "none"
NoCluster == spec = "none" /\ status = "none" /\ run = "none" /\ hist = "none"

RS == INSTANCE RSScaling WITH
    Sizes <- ReplicaSet.sizes, MaxReplicas <- ReplicaSet.limit, MaxEdits <- ReplicaSet.edits,
    MaxEvictions <- ReplicaSet.evictions, MaxFaults <- ReplicaSet.faults

SS == INSTANCE ShardedStatus WITH
    Sizes <- Sharded.sizes, MaxReplicas <- Sharded.limit, MaxEdits <- Sharded.edits,
    MaxScalings <- Sharded.scalings, MaxFaults <- Sharded.faults

SC == INSTANCE ShardedCollections WITH
    Declared <- Collections.declared, OtherKey <- Collections.other,
    MaxEdits <- Collections.edits, MaxFaults <- Collections.faults

PB == INSTANCE PodBuilders WITH
    Roles <- Builders.roles, MaxOptions <- Builders.options, Toggled <- Builders.toggled,
    MaxEdits <- Builders.edits, MaxRestarts <- Builders.restarts

Init ==
    \/ part = "RS" /\ RS!Init /\ wl = "none" /\ NoColl /\ NoBuilder
    \/ part = "SS" /\ SS!Init /\ NoColl /\ NoSet /\ NoBuilder
    \/ part = "SC" /\ SC!Init /\ wl = "none" /\ hpa = "none" /\ NoSet /\ NoBuilder
    \/ part = "PB" /\ PB!Init /\ wl = "none" /\ hpa = "none" /\ NoColl /\ NoSet /\ NoCluster

Next ==
    /\ part' = part
    /\ \/ part = "RS" /\ RS!Next /\ UNCHANGED <<wl, mongos, coll, builderVars>>
       \/ part = "SS" /\ SS!Next /\ UNCHANGED <<mongos, coll, setVars, builderVars>>
       \/ part = "SC" /\ SC!Next /\ UNCHANGED <<wl, hpa, setVars, builderVars>>
       \/ part = "PB" /\ PB!Next /\ UNCHANGED <<spec, status, run, hpa, hist, wl, mongos, coll, setVars>>

\* The fairness of the four modules, each for its own behaviours.
Fairness ==
    /\ WF_rsVars(part = "RS" /\ RS!Reconcile)
    /\ WF_rsVars(part = "RS" /\ RS!PodReady)
    /\ WF_ssVars(part = "SS" /\ SS!Reconcile)
    /\ \A c \in {"cfg", "shard", "mongos"} : WF_ssVars(part = "SS" /\ SS!PodReady(c))
    /\ WF_scVars(part = "SC" /\ (SC!Reconcile \/ (~mongos /\ SC!CallFails)))
    /\ WF_scVars(part = "SC" /\ SC!MongosReady)
    /\ WF_pbVars(part = "PB" /\ PB!Reconcile)
    /\ WF_pbVars(part = "PB" /\ PB!IssueCertificate)
    /\ WF_pbVars(part = "PB" /\ PB!BeginRoll)
    /\ WF_pbVars(part = "PB" /\ PB!StartPod)

Spec == Init /\ [][Next]_vars

FairSpec == Spec /\ Fairness

(***************************************************************************)
(* The properties, of the behaviours they speak of.  TLC evaluates the     *)
(* state predicates of a temporal formula in every state, so in the        *)
(* temporal ones each predicate names its part.                            *)
(***************************************************************************)
\* RSScaling: until a user approves a change of size, no edit takes a pod away from a
\* configured member.
MembersKeepTheirPods == part = "RS" => RS!MembersKeepTheirPods

\* RSScaling: node drains have at most one pod of an unedited set down at a time, unless the
\* autoscaler has more of them than the spec.
DrainsOneAtATime == part = "RS" => RS!DrainsOneAtATime

\* RSScaling: an approved change of size, and a set at the size of the spec, end up Running.
ScaleSettles == <>[](part = "RS" /\ RS!Attainable) => <>[](part = "RS" /\ RS!Applied)

\* ShardedStatus: Ready and the component conditions tell one story.
ConditionsAgree == part = "SS" => SS!ConditionsAgree

\* ShardedStatus: a cluster whose mongos an autoscaler sizes becomes and stays Running.
AutoscaledMongosRuns == <>[](part = "SS" /\ SS!Matching) => <>[](part = "SS" /\ SS!Reported)

\* ShardedCollections: a declared collection with another key ends up reported.
DriftIsExposed ==
    <>[](part = "SC" /\ SC!Drifted /\ ~SC!Obstructed) => <>[](part = "SC" /\ status.drift)

\* ShardedCollections: existing, accepted collections end up sharded and listed.
ConvergesToDeclared == <>[](part = "SC" /\ SC!Acceptable) => <>[](part = "SC" /\ SC!AsDeclared)

\* ShardedCollections: every declared collection ends up sharded as declared, or its other key
\* is reported (reconcileShardedCollections, EnsureShardedCollection).
CollectionsSettle == DriftIsExposed /\ ConvergesToDeclared

\* PodBuilders: served combinations of options get ready pods, after node restarts too.
PodsStart ==
    <>[](part = "PB" /\ ~PB!Unserved /\ ~PB!Monitored) => <>[](pods = "ready")

\* PodBuilders: a reconcile never changes the selector of a workload.
SelectorKept == part = "PB" => PB!SelectorKept

\* PodBuilders: the mongot Service selects exactly the shard pods with the sidecar.
ServiceFindsSidecars == part = "PB" => PB!ServiceFindsSidecars

\* PodBuilders: the templates of a workload can be applied in place to the one that runs, and
\* its pods are found by the Service in front of their sidecars (ShardLabels,
\* BuildMongotService).
TemplatesServe == SelectorKept /\ ServiceFindsSidecars

\* RSScaling, ShardedStatus, PodBuilders: pods start, and the cluster ends up reported as
\* Running: a replica set once a change of its size was approved or its size is the spec's; a
\* sharded cluster once the config server and the shards have the spec's sizes, with the mongos
\* at any size an autoscaler chose.  The waits of a reconcile go by the spec, so a replica set
\* or a config server that an autoscaler leaves at another size is not among them.  An init
\* container starts again after a restart (reconcileStatefulSet, areAllPodsReady,
\* isConfigServerReady, isClusterReady, BuildPEMMergeInitContainer).
WorkloadsSettle == ScaleSettles /\ AutoscaledMongosRuns /\ PodsStart

-----------------------------------------------------------------------------
(***************************************************************************)
(* What comments and documents say that the code does not do: TLC refutes  *)
(* each on an instance.  They are the claims of the component modules.     *)
(***************************************************************************)
\* RSScaling, ADR-0008: a change of size that is held back shows in Status.PendingScale.
HeldScaleIsExposed ==
    (part = "RS" /\ RS!Held) ~> (part = "RS" => ~RS!Held \/ status.pending # RS!Nothing)

\* RSScaling, AutoScaling of MongoDBSpec: a set that an autoscaler sizes is Running.
AutoscaledSetRuns ==
    <>[](part = "RS" /\ hpa /\ RS!IsRSHPAActive(spec) /\ sts.ready = sts.replicas)
        => <>[](part = "RS" /\ status.phase = "Running" /\ status.ready = sts.replicas)

\* RSScaling, comment of BuildMongoDBPDB: one member at a time, also of an autoscaled set.
OneMemberAtATime == part = "RS" => RS!OneMemberAtATime

\* ShardedStatus, comment of isClusterReady: any component an autoscaler sizes counts as ready.
AutoscaledClusterRuns ==
    <>[](part = "SS" /\ SS!SizedAsWanted) => <>(part = "SS" /\ status.phase = "Running")

\* ShardedCollections, comment of ListShardedNamespaces: what is registered and not dropped is
\* listed.
ShardedAreListed ==
    <>[](part = "SC" /\ SC!Acceptable)
        => <>[](part = "SC" /\ status.listed = {ns \in SC!Namespaces : SC!IsSharded(ns)})

\* PodBuilders, the monitoring option: a monitored resource gets ready pods.
MonitoredClusterStarts == <>[](part = "PB" /\ PB!Monitored /\ ~PB!Unserved) => <>(pods = "ready")
=============================================================================
