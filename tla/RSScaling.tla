------------------------------ MODULE RSScaling ------------------------------
(***************************************************************************)
(* The number of members of one replica set, through steps 5 to 10 of the  *)
(* MongoDB reconcile: the StatefulSet, whose replicas are left alone while *)
(* ScalePolicy.Deliberate is false or an autoscaler owns them, the wait    *)
(* for ready pods, rs.initiate, the primary check, the autoscaler object,  *)
(* the record of a change that is being held back, and the final status.   *)
(* The PodDisruptionBudget (enabled, with its default) is written between  *)
(* the StatefulSet and the wait; node drains evict pods as it allows.      *)
(* The bootstrap of the admin user between them is AdminBootstrap's.       *)
(*                                                                         *)
(* Pods are counted: a StatefulSet adds and removes the highest ordinals,  *)
(* and the replica set's configuration always names ordinals from 0 on.    *)
(***************************************************************************)
EXTENDS Integers

CONSTANTS
    Sizes,        \* values of spec.members
    MaxReplicas,  \* the autoscaler's upper limit
    MaxEdits,     \* bound: edits of the object
    MaxEvictions, \* bound: evictions by node drains
    MaxFaults     \* bound: failed calls, crashes and pods that stop being ready

VARIABLES
    spec,     \* members, ScalePolicy.Deliberate, AutoScaling.Enabled
    status,   \* phase, readyMembers, replicaSetInitialized, pendingScale
    run,      \* the running reconcile: its step, its copy of spec and pendingScale
    sts,      \* the StatefulSet: replicas (0: no object), ready and evicted pods, MONGO_MEMBERS
    pdb,      \* the PodDisruptionBudget's minAvailable, or NoPDB
    conf,     \* members in the replica set's configuration (0: not initiated)
    hpa,      \* the HorizontalPodAutoscaler exists
    hist      \* bounded counters; was Deliberate ever set, members edited, a pod evicted
              \* without a budget, the set grown beyond spec.members by the autoscaler

vars == <<spec, status, run, sts, pdb, conf, hpa, hist>>

NoPDB == -1

Specs == [members : Sizes, deliberate : BOOLEAN, auto : BOOLEAN]

\* PendingScale: current and desired members; 0 and 0 when nothing is held back.
Nothing == [current |-> 0, desired |-> 0]

Steps == {"Idle", "StatefulSet", "PDB", "PodsReady", "Initialize", "Primary", "HPA", "Pending",
          "Status"}

\* Admission refuses an autoscaler for a single member (standalone mode).
Admitted(s) == ~(s.members = 1 /\ s.auto)

Init ==
    /\ spec \in {s \in Specs : Admitted(s)}
    /\ status = [phase |-> "Initializing", ready |-> 0, init |-> FALSE, pending |-> Nothing]
    /\ run = [pc |-> "Idle", spec |-> spec, pending |-> Nothing, fresh |-> FALSE]
    /\ sts = [replicas |-> 0, ready |-> 0, evicted |-> 0, env |-> 0]
    /\ pdb = NoPDB
    /\ conf = 0
    /\ hpa = FALSE
    /\ hist = [edits |-> 0, faults |-> 0, evictions |-> 0, deliberate |-> spec.deliberate,
               exposed |-> FALSE, grown |-> FALSE]

-----------------------------------------------------------------------------
Goto(step) == run' = [run EXCEPT !.pc = step]
Return == Goto("Idle")

IsRSScaleDeliberate(s) == s.deliberate

\* The double guard: AutoScaling.Enabled and ScalePolicy.Deliberate.
IsRSHPAActive(s) == s.auto /\ s.deliberate

preserve_HPAOnly(s) == IsRSHPAActive(s)

preserve_Always(s) == TRUE

\* The replicas of an existing StatefulSet are kept.
preserve(s) == IsRSHPAActive(s) \/ ~IsRSScaleDeliberate(s)

Least(m, n) == IF m < n THEN m ELSE n

\* n pods wanted, r of them ready: the others are down, the evicted ones among them.
Pods(n, r) ==
    [sts EXCEPT !.replicas = n, !.ready = r, !.evicted = Least(@, n - r)]

\* Replicas set to n; the pods above n go.
Scaled(n) == Pods(n, Least(sts.ready, n))

\* A majority of the configured members is up.
Majority == conf > 0 /\ 2 * Least(sts.ready, conf) > conf

Start ==
    /\ run.pc = "Idle"
    /\ run' = [pc |-> "StatefulSet", spec |-> spec, pending |-> status.pending,
               fresh |-> TRUE]
    /\ UNCHANGED <<spec, status, sts, pdb, conf, hpa, hist>>

\* The pod template, MONGO_MEMBERS in it, follows spec.members even where the replicas
\* are kept.
reconcileStatefulSet ==
    /\ run.pc = "StatefulSet"
    /\ LET s == run.spec
           n == IF sts.replicas > 0 /\ preserve(s) THEN sts.replicas ELSE s.members
       IN  sts' = [Scaled(n) EXCEPT !.env = s.members]
    /\ Goto("PDB")
    /\ UNCHANGED <<spec, status, pdb, conf, hpa, hist>>

BuildMongoDBPDB_HalfOf(s) == s.members \div 2

\* minAvailable = max(members - 1, 0), of the spec also while the replicas are kept.
BuildMongoDBPDB(s) == IF s.members > 0 THEN s.members - 1 ELSE 0

reconcilePDB ==
    /\ run.pc = "PDB"
    /\ pdb' = BuildMongoDBPDB(run.spec)
    /\ Goto("PodsReady")
    /\ UNCHANGED <<spec, status, sts, conf, hpa, hist>>

\* Ready pods are compared with spec.members, not with the StatefulSet's replicas.
areAllPodsReady == sts.ready = run.spec.members

WaitForPods ==
    /\ run.pc = "PodsReady"
    /\ IF areAllPodsReady THEN Goto("Initialize") ELSE Return
    /\ UNCHANGED <<spec, status, sts, pdb, conf, hpa, hist>>

\* Initiates with spec.members hosts unless the set has a configuration already.  The
\* status write that follows reloads the object when somebody has changed it.
reconcileReplicaSetInitialization ==
    /\ run.pc = "Initialize"
    /\ IF status.init
       THEN Goto("Primary") /\ UNCHANGED <<conf, status>>
       ELSE /\ conf' = IF conf = 0 THEN run.spec.members ELSE conf
            /\ status' = [status EXCEPT !.init = TRUE]
            /\ run' = [run EXCEPT !.pc = "Primary", !.fresh = TRUE,
                                  !.spec = IF run.fresh THEN @ ELSE spec,
                                  !.pending = IF run.fresh THEN @ ELSE status.pending]
    /\ UNCHANGED <<spec, sts, pdb, hpa, hist>>

hasPrimary ==
    /\ run.pc = "Primary"
    /\ IF Majority THEN Goto("HPA") ELSE Return
    /\ UNCHANGED <<spec, status, sts, pdb, conf, hpa, hist>>

\* Creates or updates the autoscaler when both guards hold, deletes it otherwise.
reconcileRSHPA ==
    /\ run.pc = "HPA"
    /\ hpa' = IsRSHPAActive(run.spec)
    /\ Goto("Pending")
    /\ UNCHANGED <<spec, status, sts, pdb, conf, hist>>

recordPendingScale ==
    /\ run.pc = "Pending"
    /\ run' = [run EXCEPT !.pc = "Status", !.pending =
                 IF IsRSScaleDeliberate(run.spec) \/ sts.replicas = run.spec.members
                 THEN Nothing
                 ELSE [current |-> sts.replicas, desired |-> run.spec.members]]
    /\ UNCHANGED <<spec, status, sts, pdb, conf, hpa, hist>>

\* The whole status is stored.  After a conflict only the closure is applied to the
\* reloaded object, which sets none of the fields modelled here.
updateStatus ==
    /\ run.pc = "Status"
    /\ status' = IF ~run.fresh THEN status
                 ELSE [status EXCEPT
                         !.ready = sts.ready,
                         !.pending = run.pending,
                         !.phase = IF sts.ready = run.spec.members THEN "Running"
                                   ELSE IF sts.ready > 0 THEN "Initializing" ELSE @]
    /\ Return
    /\ UNCHANGED <<spec, sts, pdb, conf, hpa, hist>>

-----------------------------------------------------------------------------
(* The environment *)

EditSpec ==
    /\ hist.edits < MaxEdits
    /\ \E s \in Specs \ {spec} : Admitted(s) /\ spec' = s
    /\ run' = [run EXCEPT !.fresh = FALSE]
    /\ hist' = [hist EXCEPT !.edits = @ + 1, !.deliberate = @ \/ spec'.deliberate,
                            !.exposed = @ \/ spec'.members # spec.members]
    /\ UNCHANGED <<status, sts, pdb, conf, hpa>>

PodReady ==
    /\ sts.ready < sts.replicas
    /\ sts' = Pods(sts.replicas, sts.ready + 1)
    /\ UNCHANGED <<spec, status, run, pdb, conf, hpa, hist>>

\* The eviction API asks the budget, where there is one.
Evict ==
    /\ hist.evictions < MaxEvictions
    /\ sts.ready > (IF pdb = NoPDB THEN 0 ELSE pdb)
    /\ sts' = [sts EXCEPT !.ready = @ - 1, !.evicted = @ + 1]
    /\ hist' = [hist EXCEPT !.evictions = @ + 1, !.exposed = @ \/ pdb = NoPDB]
    /\ UNCHANGED <<spec, status, run, pdb, conf, hpa>>

\* The hook of pod 0 initiates the set from MONGO_MEMBERS; every host in it must answer.
HookInitiates ==
    /\ conf = 0 /\ sts.ready > 0 /\ sts.env <= sts.replicas
    /\ conf' = sts.env
    /\ UNCHANGED <<spec, status, run, sts, pdb, hpa, hist>>

AutoscalerScales ==
    /\ hpa
    /\ \E n \in 1..MaxReplicas : n # sts.replicas /\ sts' = Scaled(n)
    /\ hist' = [hist EXCEPT !.grown = @ \/ sts'.replicas > spec.members]
    /\ UNCHANGED <<spec, status, run, pdb, conf, hpa>>

Faulty ==
    /\ hist.faults < MaxFaults
    /\ hist' = [hist EXCEPT !.faults = @ + 1]

PodFails ==
    /\ Faulty
    /\ sts.ready > 0
    /\ sts' = [sts EXCEPT !.ready = @ - 1]
    /\ UNCHANGED <<spec, status, run, pdb, conf, hpa>>

\* A call fails or the operator stops: the next reconcile starts over.
CallFails ==
    /\ Faulty
    /\ run.pc # "Idle"
    /\ Return
    /\ UNCHANGED <<spec, status, sts, pdb, conf, hpa>>

-----------------------------------------------------------------------------
Reconcile ==
    \/ Start
    \/ reconcileStatefulSet
    \/ reconcilePDB
    \/ WaitForPods
    \/ reconcileReplicaSetInitialization
    \/ hasPrimary
    \/ reconcileRSHPA
    \/ recordPendingScale
    \/ updateStatus

Next ==
    \/ Reconcile
    \/ EditSpec
    \/ PodReady
    \/ Evict
    \/ HookInitiates
    \/ AutoscalerScales
    \/ PodFails
    \/ CallFails

Spec == Init /\ [][Next]_vars

\* Requeues and watches start another reconcile, each goes on to its end, and the kubelet
\* gets pods ready.
Fairness == WF_vars(Reconcile) /\ WF_vars(PodReady)

FairSpec == Spec /\ Fairness

-----------------------------------------------------------------------------
(* Properties *)

TypeOK ==
    /\ spec \in Specs
    /\ status.phase \in {"Initializing", "Running"}
    /\ status.ready \in 0..MaxReplicas /\ status.init \in BOOLEAN
    /\ run.pc \in Steps /\ run.spec \in Specs /\ run.fresh \in BOOLEAN
    /\ sts.ready <= sts.replicas
    /\ sts.replicas \in 0..MaxReplicas
    /\ conf \in Sizes \cup {0}

\* MembersKeepTheirPods.  As long as ScalePolicy.Deliberate has never been set, no edit of
\* spec.members and no autoscaler takes a pod away from a member the replica set counts on,
\* whenever the edit falls relative to rs.initiate.
MembersKeepTheirPods == ~hist.deliberate => conf <= sts.replicas

\* DrainsOneAtATime.  Of a set whose size was never edited, nor raised by the autoscaler above
\* spec.members, node drains have at most one pod down at a time once its budget is there, also
\* while another pod has failed, is starting or was removed by the autoscaler: what
\* BuildMongoDBPDB's default is for.
DrainsOneAtATime == ~hist.exposed /\ ~hist.grown => sts.evicted <= 1

\* OneMemberAtATime.  What BuildMongoDBPDB's comment says of the default without that condition:
\* "replicas-1" lets one member go at a time.  It is computed from spec.members, so every pod
\* the autoscaler adds may be missing too.
OneMemberAtATime == ~hist.exposed => sts.evicted <= 1

Applied == status.phase = "Running" /\ status.ready = spec.members

\* The size is the spec's, or the reconcile may make it so, and keeps every configured member.
Approved == spec.deliberate /\ ~spec.auto /\ ~hpa
Attainable == (Approved \/ sts.replicas = spec.members) /\ spec.members >= conf

\* ScaleSettles.  An approved change gets its pods and stays reported as Running, and so does a
\* set that is held at, or that an autoscaler leaves at, the size of the spec: the StatefulSet,
\* the wait for pods, the primary check and updateStatus never wait for each other.  Another
\* size does not: areAllPodsReady waits for exactly spec.members.
ScaleSettles == <>[]Attainable => <>[]Applied

Held == ~spec.deliberate /\ status.init /\ sts.replicas # spec.members

\* AutoscaledSetRuns.  What AutoScaling of MongoDBSpec is for: a set whose pods are all ready at
\* the size an autoscaler gave it is reported as Running, with the members it has.
AutoscaledSetRuns ==
    <>[](hpa /\ IsRSHPAActive(spec) /\ sts.ready = sts.replicas)
        => <>[](status.phase = "Running" /\ status.ready = sts.replicas)

\* HeldScaleIsExposed.  What ADR-0008 says of a change made while Deliberate is false: it is
\* not applied, and Status.PendingScale exposes it.
HeldScaleIsExposed == Held ~> (~Held \/ status.pending # Nothing)

=============================================================================
