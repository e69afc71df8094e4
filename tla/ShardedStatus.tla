---------------------------- MODULE ShardedStatus ----------------------------
(***************************************************************************)
(* Sizes, autoscalers and the reported status of a sharded cluster whose   *)
(* bring-up is done (MongoDBShardedReconciler models that): the config     *)
(* server, one shard and the mongos are applied in turn, the config server *)
(* and the shard each with a wait for their pods, then come the wait for a *)
(* mongos, the HorizontalPodAutoscalers and updateStatus, which reads the  *)
(* three workloads one after the other and derives phase and conditions.   *)
(***************************************************************************)
EXTENDS Integers

CONSTANTS
    Sizes,        \* the sizes a spec may give each component
    MaxReplicas,  \* the limit of each component's autoscaler
    MaxEdits,     \* bound: edits of the object
    MaxScalings,  \* bound: changes by the autoscalers
    MaxFaults     \* bound: failed calls, crashes, foreign writes, pods that stop being ready

VARIABLES
    spec,     \* size, Deliberate and AutoScaling.Enabled of each component
    wl,       \* StatefulSets and Deployment: replicas, ready pods
    hpa,      \* the components that have an autoscaler
    run,      \* the reconcile: its step, its copy of the spec, the status it builds, freshness
    status,   \* per component ready, total and condition; phase and the Ready condition
    hist      \* bounded counters, and whether a status write met a conflict

vars == <<spec, wl, hpa, run, status, hist>>

Components == {"cfg", "shard", "mongos"}

Specs ==
    {s \in [size : [Components -> UNION {Sizes[c] : c \in Components}],
            deliberate : SUBSET {"cfg", "shard"}, auto : SUBSET {"cfg", "mongos"}] :
        \A c \in Components : s.size[c] \in Sizes[c]}

NoStatus == [c \in Components |-> [ready |-> 0, total |-> 0]]

Init ==
    /\ spec \in Specs
    /\ wl = [c \in Components |-> [replicas |-> spec.size[c], ready |-> 0]]
    /\ hpa = {}
    /\ run = [pc |-> "Idle", spec |-> spec, st |-> NoStatus, fresh |-> FALSE]
    /\ status = [comp |-> NoStatus, phase |-> "Initializing", ready |-> FALSE, conds |-> {}]
    /\ hist = [edits |-> 0, scalings |-> 0, faults |-> 0, conflict |-> FALSE]

-----------------------------------------------------------------------------
Goto(step) == run' = [run EXCEPT !.pc = step]
Return == Goto("Idle")

\* Two guards for the config server, one for the mongos; shards have no autoscaler.
HPAActive(s, c) == c \in s.auto /\ (c = "cfg" => c \in s.deliberate)

\* Kept: the replicas of an autoscaled component, and of a StatefulSet whose change of size
\* is not deliberate.
preserve(s, c) == HPAActive(s, c) \/ (c # "mongos" /\ c \notin s.deliberate)

Resized(c, n) ==
    wl' = [wl EXCEPT ![c] = [replicas |-> n, ready |-> IF @.ready > n THEN n ELSE @.ready]]

Apply(c) ==
    Resized(c, IF preserve(run.spec, c) THEN wl[c].replicas ELSE run.spec.size[c])

Start ==
    /\ run.pc = "Idle"
    /\ run' = [pc |-> "cfg", spec |-> spec, st |-> status.comp, fresh |-> TRUE]
    /\ UNCHANGED <<spec, wl, hpa, status, hist>>

reconcileConfigServer ==
    /\ run.pc = "cfg" /\ Apply("cfg") /\ Goto("cfgReady")
    /\ UNCHANGED <<spec, hpa, status, hist>>

\* Ready pods are compared with the spec, autoscaled or not.
isConfigServerReady ==
    /\ run.pc = "cfgReady"
    /\ IF wl["cfg"].ready = run.spec.size["cfg"] THEN Goto("shard") ELSE Return
    /\ UNCHANGED <<spec, wl, hpa, status, hist>>

reconcileShard ==
    /\ run.pc = "shard" /\ Apply("shard") /\ Goto("shardReady")
    /\ UNCHANGED <<spec, hpa, status, hist>>

areShardsReady ==
    /\ run.pc = "shardReady"
    /\ IF wl["shard"].ready = run.spec.size["shard"] THEN Goto("mongos") ELSE Return
    /\ UNCHANGED <<spec, wl, hpa, status, hist>>

reconcileMongos ==
    /\ run.pc = "mongos" /\ Apply("mongos") /\ Goto("mongosReady")
    /\ UNCHANGED <<spec, hpa, status, hist>>

isMongosReady ==
    /\ run.pc = "mongosReady"
    /\ IF wl["mongos"].ready >= 1 THEN Goto("hpa") ELSE Return
    /\ UNCHANGED <<spec, wl, hpa, status, hist>>

\* Created where the guards hold, deleted where they do not.
reconcileHPAs ==
    /\ run.pc = "hpa"
    /\ hpa' = {c \in Components : HPAActive(run.spec, c)}
    /\ Goto("readCfg")
    /\ UNCHANGED <<spec, wl, status, hist>>

-----------------------------------------------------------------------------
(* updateStatus *)

\* The autoscaler owns the replicas it manages; elsewhere the spec says how many there are.
totalOf(c) == IF HPAActive(run.spec, c) THEN wl[c].replicas ELSE run.spec.size[c]

Read(c, from, to) ==
    /\ run.pc = from
    /\ run' = [run EXCEPT !.pc = to,
                          !.st[c] = [ready |-> wl[c].ready, total |-> totalOf(c)]]
    /\ UNCHANGED <<spec, wl, hpa, status, hist>>

readStatus ==
    \/ Read("cfg", "readCfg", "readShard")
    \/ Read("shard", "readShard", "readMongos")
    \/ Read("mongos", "readMongos", "write")

isClusterReady_OfSpec(s, st) == \A c \in Components : st[c].ready = s.size[c]

\* The target of an autoscaled component is the total just read.
isClusterReady(s, st) ==
    \A c \in Components :
        st[c].ready = IF HPAActive(s, c) /\ st[c].total > 0 THEN st[c].total ELSE s.size[c]

evaluateShardedConditions_AnyReady(st) == {c \in Components : st[c].ready > 0}

\* ConfigServerReady, ShardsReady and MongosReady, from the components' status.
evaluateShardedConditions(st) ==
    {c \in Components : st[c].ready = st[c].total /\ st[c].total > 0}

\* Without a conflict the whole status is stored.  After one, only the closure is applied to
\* the reloaded object: the conditions, from this pass's verdict and the reloaded components.
updateStatus ==
    /\ run.pc = "write"
    /\ LET ready == isClusterReady(run.spec, run.st)
           comp == IF run.fresh THEN run.st ELSE status.comp
       IN  status' = [comp |-> comp,
                      phase |-> IF ~run.fresh THEN status.phase
                                ELSE IF ready THEN "Running" ELSE "Initializing",
                      ready |-> ready,
                      conds |-> evaluateShardedConditions(comp)]
    /\ hist' = [hist EXCEPT !.conflict = ~run.fresh]
    /\ Return
    /\ UNCHANGED <<spec, wl, hpa>>

-----------------------------------------------------------------------------
(* The environment *)

EditSpec ==
    /\ hist.edits < MaxEdits
    /\ hist' = [hist EXCEPT !.edits = @ + 1]
    /\ \/ \E c \in Components : \E n \in Sizes[c] \ {spec.size[c]} :
            spec' = [spec EXCEPT !.size[c] = n]
       \/ \E c \in {"cfg", "mongos"} :
            spec' = [spec EXCEPT !.auto = IF c \in @ THEN @ \ {c} ELSE @ \cup {c}]
    /\ run' = [run EXCEPT !.fresh = FALSE]
    /\ UNCHANGED <<wl, hpa, status>>

AutoscalerScales ==
    /\ hist.scalings < MaxScalings
    /\ hist' = [hist EXCEPT !.scalings = @ + 1]
    /\ \E c \in hpa : \E n \in 1..MaxReplicas[c] : n # wl[c].replicas /\ Resized(c, n)
    /\ UNCHANGED <<spec, hpa, run, status>>

PodReady(c) ==
    /\ wl[c].ready < wl[c].replicas
    /\ wl' = [wl EXCEPT ![c].ready = @ + 1]
    /\ UNCHANGED <<spec, hpa, run, status, hist>>

Faulty ==
    /\ hist.faults < MaxFaults
    /\ hist' = [hist EXCEPT !.faults = @ + 1]

PodFails(c) ==
    /\ Faulty
    /\ wl[c].ready > 0
    /\ wl' = [wl EXCEPT ![c].ready = @ - 1]
    /\ UNCHANGED <<spec, hpa, run, status>>

\* A call fails, which makes the phase Failed, or the operator stops.
CallFails ==
    /\ Faulty
    /\ run.pc # "Idle"
    /\ status' \in {status, [status EXCEPT !.phase = "Failed"]}
    /\ Return
    /\ UNCHANGED <<spec, wl, hpa>>

ForeignWrite ==
    /\ Faulty
    /\ run.fresh
    /\ run' = [run EXCEPT !.fresh = FALSE]
    /\ UNCHANGED <<spec, wl, hpa, status>>

Reconcile ==
    \/ Start \/ reconcileConfigServer \/ isConfigServerReady \/ reconcileShard
    \/ areShardsReady \/ reconcileMongos \/ isMongosReady \/ reconcileHPAs
    \/ readStatus \/ updateStatus

Next ==
    \/ Reconcile \/ EditSpec \/ AutoscalerScales \/ CallFails \/ ForeignWrite
    \/ \E c \in Components : PodReady(c) \/ PodFails(c)

Spec == Init /\ [][Next]_vars

\* Requeues and watches start another reconcile, which goes on, and pods get ready.
FairSpec ==
    /\ Spec
    /\ WF_vars(Reconcile)
    /\ \A c \in Components : WF_vars(PodReady(c))

-----------------------------------------------------------------------------

\* Ready and the component conditions tell one story.  The verdict comes from the spec and
\* the HPA rule, the conditions from totals that updateStatus filled in under a rule of its
\* own, over workloads read at three different moments: Ready is true exactly when
\* ConfigServerReady, ShardsReady and MongosReady are, unless the write met a conflict.
ConditionsAgree == ~hist.conflict => (status.ready <=> status.conds = Components)

\* The config server and the shards have the sizes of the spec, whoever has set them.
Matching == \A c \in {"cfg", "shard"} : wl[c].replicas = spec.size[c]

Reported == status.phase = "Running" /\ status.ready /\ status.conds = Components

\* A cluster ends up Running and Ready at any size its autoscaler leaves the mongos:
\* updateStatus and isClusterReady follow the Deployment's replicas and not the spec's, and a
\* failed pass, a conflict or a lost pod is made good.  The config server and the shards have to
\* have the size of the spec in the end, which isConfigServerReady and areShardsReady wait for.
AutoscaledMongosRuns == <>[]Matching => <>[]Reported

\* Every pod is ready, and every size is the spec's or an autoscaler's.
SizedAsWanted ==
    \A c \in Components : wl[c].ready = wl[c].replicas
                          /\ (wl[c].replicas = spec.size[c] \/ c \in hpa)

\* What isClusterReady's comment says of any autoscaled component: right after the autoscaler
\* has scaled, a cluster with exactly the desired pods ready counts as ready.
AutoscaledClusterRuns == <>[]SizedAsWanted => <>(status.phase = "Running")

=============================================================================
