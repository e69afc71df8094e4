-------------------------- MODULE Clusters_proofs --------------------------
(***************************************************************************)
(* The invariants of the parts of the cluster controllers, for every value *)
(* of the constants.                                                       *)
(***************************************************************************)
EXTENDS Clusters, TLAPS

-----------------------------------------------------------------------------
(***************************************************************************)
(* RSScaling.  MembersKeepTheirPods is not inductive: it needs to know     *)
(* that nobody holds an approval (neither the object, nor the copy the     *)
(* reconcile works on, nor an autoscaler object left behind), and that the *)
(* members to initiate with, checked against the ready pods one step       *)
(* earlier, still have pods.                                               *)
(***************************************************************************)

Pending == [current : Nat, desired : Nat]

Sets == [replicas : Nat, ready : Nat, evicted : Int, env : Nat]

Histories ==
    [edits : Nat, faults : Nat, evictions : Nat, deliberate : BOOLEAN, exposed : BOOLEAN,
     grown : BOOLEAN]

\* What the proof needs of the types.
Counts ==
    /\ spec \in RS!Specs
    /\ status \in [phase : {"Initializing", "Running"}, ready : Nat, init : BOOLEAN,
                   pending : Pending]
    /\ run \in [pc : RS!Steps, spec : RS!Specs, pending : Pending, fresh : BOOLEAN]
    /\ pdb \in Nat \cup {RS!NoPDB}
    /\ sts \in Sets
    /\ sts.ready <= sts.replicas
    /\ conf \in Nat
    /\ hpa \in BOOLEAN
    /\ hist \in Histories

NobodyApproved == ~spec.deliberate /\ ~run.spec.deliberate /\ ~hpa

PodsInv ==
    /\ Counts
    /\ ~hist.deliberate =>
         /\ NobodyApproved
         /\ conf <= sts.replicas
         /\ run.pc = "Initialize" => run.spec.members <= sts.replicas

\* Records of the shapes the actions build.
LEMMA PodsShape ==
    ASSUME sts \in Sets, NEW n \in Nat, NEW r \in Nat, r <= n
    PROVE  LET p == RS!Pods(n, r)
           IN  /\ p \in Sets
               /\ p.replicas = n /\ p.ready = r
               /\ p.evicted <= sts.evicted /\ p.evicted <= n - r
<1> DEFINE e == RS!Least(sts.evicted, n - r)
<1>1. e \in Int /\ e <= sts.evicted /\ e <= n - r
    BY DEF RS!Least, Sets
<1>2. RS!Pods(n, r) = [sts EXCEPT !.replicas = n, !.ready = r, !.evicted = e]
    BY DEF RS!Pods
<1> HIDE DEF e
<1>3. /\ RS!Pods(n, r) \in Sets
      /\ RS!Pods(n, r).replicas = n /\ RS!Pods(n, r).ready = r /\ RS!Pods(n, r).evicted = e
    BY <1>1, <1>2, Zenon DEF Sets
<1> QED BY <1>1, <1>3

LEMMA ScaledShape ==
    ASSUME sts \in Sets, NEW n \in Nat
    PROVE  LET p == RS!Scaled(n)
           IN  /\ p \in Sets
               /\ p.replicas = n /\ p.ready <= n
               /\ p.evicted <= sts.evicted /\ p.evicted <= n - p.ready
<1>1. RS!Least(sts.ready, n) \in Nat /\ RS!Least(sts.ready, n) <= n
    BY DEF RS!Least, Sets
<1> QED BY <1>1, PodsShape DEF RS!Scaled

LEMMA PodsInit == ASSUME RS!Init PROVE PodsInv
<1> USE SizesAreNat DEF Sets
<1>1. spec \in RS!Specs /\ spec.deliberate \in BOOLEAN
    BY DEF RS!Init, RS!Specs
<1>2. RS!Nothing \in Pending
    BY DEF RS!Nothing, Pending
<1>3. run = [pc |-> "Idle", spec |-> spec, pending |-> RS!Nothing, fresh |-> FALSE]
    BY DEF RS!Init
<1>4. run \in [pc : RS!Steps, spec : RS!Specs, pending : Pending, fresh : BOOLEAN]
    BY <1>1, <1>2, <1>3 DEF RS!Steps
<1>5. hist = [edits |-> 0, faults |-> 0, evictions |-> 0, deliberate |-> spec.deliberate,
              exposed |-> FALSE, grown |-> FALSE]
    BY DEF RS!Init
<1>6. hist \in Histories
    BY <1>1, <1>5 DEF Histories
<1>7. status = [phase |-> "Initializing", ready |-> 0, init |-> FALSE, pending |-> RS!Nothing]
    BY DEF RS!Init
<1>8. status \in [phase : {"Initializing", "Running"}, ready : Nat, init : BOOLEAN,
                   pending : Pending]
    BY <1>2, <1>7
<1>9. Counts
    <2>1. sts = [replicas |-> 0, ready |-> 0, evicted |-> 0, env |-> 0] /\ conf = 0
        BY DEF RS!Init
    <2>2. /\ sts \in Sets
          /\ sts.ready <= sts.replicas /\ conf \in Nat
        BY <2>1
    <2>3. pdb \in Nat \cup {RS!NoPDB} /\ hpa \in BOOLEAN
        BY Zenon DEF RS!Init
    <2> QED BY <1>1, <1>4, <1>6, <1>8, <2>2, <2>3 DEF Counts
<1>10. ~hist.deliberate => NobodyApproved
    BY <1>3, <1>5 DEF RS!Init, NobodyApproved
<1>11. conf <= sts.replicas /\ run.pc # "Initialize"
    BY <1>3 DEF RS!Init
<1> QED BY <1>9, <1>10, <1>11 DEF PodsInv

\* Of an object nobody ever approved, replicas once chosen are never lowered.
LEMMA PodsNext ==
    ASSUME PodsInv, RS!Next
    PROVE  PodsInv'
<1> USE SizesAreNat DEF Sets
<1>2. CASE RS!Start
    BY <1>2 DEF RS!Start, PodsInv, Counts, NobodyApproved, RS!Specs, RS!Steps, RS!Nothing, Pending
<1>3. CASE RS!reconcileStatefulSet
    <2> DEFINE n == IF sts.replicas > 0 /\ RS!preserve(run.spec) THEN sts.replicas
                    ELSE run.spec.members
    <2>1. n \in Nat /\ run.spec.members \in Nat
        BY Zenon DEF PodsInv, Counts, RS!Specs
    <2>2. sts' = [RS!Scaled(n) EXCEPT !.env = run.spec.members]
        BY <1>3 DEF RS!reconcileStatefulSet
    <2>3. ~hist.deliberate => sts.replicas <= n
        BY <2>1 DEF PodsInv, Counts, NobodyApproved, RS!preserve, RS!IsRSScaleDeliberate
    <2> HIDE DEF n
    <2>4. /\ sts' \in Sets
          /\ sts'.ready <= sts'.replicas /\ sts'.replicas = n
        BY <2>1, <2>2, ScaledShape DEF PodsInv, Counts
    <2> QED
        BY <1>3, <2>1, <2>3, <2>4
        DEF RS!reconcileStatefulSet, RS!Goto, PodsInv, Counts, NobodyApproved, RS!Specs, RS!Steps
<1>4. CASE RS!reconcilePDB
    BY <1>4 DEF RS!reconcilePDB, RS!BuildMongoDBPDB, RS!Goto, PodsInv, Counts, NobodyApproved,
                RS!Specs,
                RS!Steps
<1>5. CASE RS!WaitForPods
    BY <1>5 DEF RS!WaitForPods, RS!areAllPodsReady, RS!Goto, RS!Return, PodsInv, Counts,
                NobodyApproved,
                RS!Specs, RS!Steps
<1>6. CASE RS!reconcileReplicaSetInitialization
    <2>1. CASE status.init
        BY <1>6, <2>1 DEF RS!reconcileReplicaSetInitialization, RS!Goto, PodsInv, Counts,
                          NobodyApproved, RS!Specs, RS!Steps
    <2>2. CASE ~status.init
        <3> DEFINE s == IF run.fresh THEN run.spec ELSE spec
                   w == IF run.fresh THEN run.pending ELSE status.pending
        <3>1. s \in RS!Specs /\ w \in Pending
            BY DEF PodsInv, Counts
        <3>2. ~hist.deliberate => ~s.deliberate
            BY DEF PodsInv, NobodyApproved
        <3>3. run' = [run EXCEPT !.pc = "Primary", !.fresh = TRUE, !.spec = s, !.pending = w]
            BY <1>6, <2>2 DEF RS!reconcileReplicaSetInitialization
        <3> HIDE DEF s, w
        <3>4. /\ run' \in [pc : RS!Steps, spec : RS!Specs, pending : Pending, fresh : BOOLEAN]
              /\ run'.spec = s /\ run'.pc = "Primary"
            BY <3>1, <3>3, Zenon DEF PodsInv, Counts, RS!Steps
        <3>5. conf' \in Nat /\ (~hist.deliberate => conf' <= sts.replicas)
            BY <1>6, <2>2 DEF RS!reconcileReplicaSetInitialization, PodsInv, Counts, RS!Specs
        <3> QED
            BY <1>6, <2>2, <3>2, <3>4, <3>5, Zenon
            DEF RS!reconcileReplicaSetInitialization, PodsInv, Counts, NobodyApproved
    <2> QED BY <2>1, <2>2
<1>7. CASE RS!hasPrimary
    BY <1>7 DEF RS!hasPrimary, RS!Goto, RS!Return, PodsInv, Counts, NobodyApproved, RS!Steps
<1>8. CASE RS!reconcileRSHPA
    BY <1>8 DEF RS!reconcileRSHPA, RS!IsRSHPAActive, RS!Goto, PodsInv, Counts, NobodyApproved,
                RS!Specs, RS!Steps
<1>9. CASE RS!recordPendingScale
    BY <1>9, Zenon DEF RS!recordPendingScale, PodsInv, Counts, NobodyApproved, RS!Nothing, Pending,
                       RS!Specs, RS!Steps
<1>10. CASE RS!updateStatus
    BY <1>10, Zenon DEF RS!updateStatus, RS!Return, RS!Goto, PodsInv, Counts, NobodyApproved,
                        RS!Steps
<1>11. CASE RS!EditSpec
    <2> DEFINE d == hist.deliberate \/ spec'.deliberate
               x == hist.exposed \/ spec'.members # spec.members
               e == hist.edits + 1
    <2>1. spec' \in RS!Specs
        BY <1>11 DEF RS!EditSpec
    <2>2. /\ hist' = [hist EXCEPT !.edits = e, !.deliberate = d, !.exposed = x]
          /\ d \in BOOLEAN /\ x \in BOOLEAN /\ e \in Nat
        BY <1>11, <2>1 DEF RS!EditSpec, PodsInv, Counts, Histories, RS!Specs
    <2>3. ~d => ~hist.deliberate /\ ~spec'.deliberate
        OBVIOUS
    <2> HIDE DEF d, e, x
    <2>4. /\ hist' \in Histories
          /\ hist'.deliberate = d
        BY <2>2, Zenon DEF PodsInv, Counts, Histories
    <2> QED BY <1>11, <2>1, <2>3, <2>4, Zenon DEF RS!EditSpec, PodsInv, Counts, NobodyApproved,
                                                  RS!Specs, RS!Steps
<1>12. CASE RS!PodReady
    <2>1. sts.replicas \in Nat /\ sts.ready + 1 \in Nat /\ sts.ready + 1 <= sts.replicas
        BY <1>12 DEF RS!PodReady, PodsInv, Counts, Histories
    <2>2. /\ sts' \in Sets
          /\ sts'.replicas = sts.replicas /\ sts'.ready <= sts'.replicas
        BY <1>12, <2>1, PodsShape DEF RS!PodReady, PodsInv, Counts, Histories
    <2> QED BY <1>12, <2>2 DEF RS!PodReady, PodsInv, Counts, NobodyApproved
<1>13. CASE RS!Evict
    <2> DEFINE x == hist.exposed \/ pdb = RS!NoPDB
               e == hist.evictions + 1
    <2>1. /\ hist' = [hist EXCEPT !.evictions = e, !.exposed = x]
          /\ x \in BOOLEAN /\ e \in Nat
        BY <1>13 DEF RS!Evict, PodsInv, Counts, Histories
    <2> HIDE DEF x, e
    <2>2. /\ hist' \in Histories
          /\ hist'.deliberate = hist.deliberate
        BY <2>1, Zenon DEF PodsInv, Counts, Histories
    <2>3. sts.ready \in Nat \ {0}
        BY <1>13 DEF RS!Evict, RS!NoPDB, PodsInv, Counts, Histories
    <2> DEFINE r == sts.ready - 1
               v == sts.evicted + 1
    <2>5. sts' = [sts EXCEPT !.ready = r, !.evicted = v]
        BY <1>13 DEF RS!Evict
    <2>6. r \in Nat /\ v \in Int /\ r <= sts.replicas
        BY <2>3 DEF PodsInv, Counts, Histories
    <2> HIDE DEF r, v
    <2>4. /\ sts' \in Sets
          /\ sts'.replicas = sts.replicas /\ sts'.ready <= sts'.replicas
        BY <2>5, <2>6, Zenon DEF PodsInv, Counts, Histories
    <2> QED BY <1>13, <2>2, <2>4 DEF RS!Evict, PodsInv, Counts, NobodyApproved
<1>14. CASE RS!HookInitiates
    BY <1>14 DEF RS!HookInitiates, PodsInv, Counts, NobodyApproved
<1>15. CASE RS!AutoscalerScales
    <2>1. PICK n \in 1..ReplicaSet.limit : sts' = RS!Scaled(n)
        BY <1>15 DEF RS!AutoscalerScales
    <2>2. /\ sts' \in Sets
          /\ sts'.ready <= sts'.replicas
        BY <2>1, ScaledShape DEF PodsInv, Counts, Histories
    <2> DEFINE g == hist.grown \/ sts'.replicas > spec.members
    <2>3. hist' = [hist EXCEPT !.grown = g] /\ g \in BOOLEAN
        BY <1>15 DEF RS!AutoscalerScales, PodsInv, Counts, Histories
    <2> HIDE DEF g
    <2>4. hist' \in Histories /\ hist'.deliberate = hist.deliberate
        BY <2>3, Zenon DEF PodsInv, Counts, Histories
    <2> QED BY <1>15, <2>2, <2>4 DEF RS!AutoscalerScales, PodsInv, Counts, NobodyApproved
<1>16. CASE RS!PodFails
    BY <1>16 DEF RS!PodFails, RS!Faulty, PodsInv, Counts, Histories, NobodyApproved
<1>17. CASE RS!CallFails
    BY <1>17 DEF RS!CallFails, RS!Faulty, RS!Return, RS!Goto, PodsInv, Counts, Histories, NobodyApproved,
                 RS!Steps
<1> QED
    BY <1>2, <1>3, <1>4, <1>5, <1>6, <1>7, <1>8, <1>9, <1>10, <1>11, <1>12, <1>13,
       <1>14, <1>15, <1>16, <1>17 DEF RS!Next, RS!Reconcile

-----------------------------------------------------------------------------
(***************************************************************************)
(* DrainsOneAtATime.  The budget that the eviction API consults was        *)
(* computed from a copy of the spec, and applies to pods that the          *)
(* StatefulSet, the autoscaler and failures count differently: the         *)
(* inductive invariant says that all of them stay within spec.members, and *)
(* that an evicted pod is one of those that are missing.                   *)
(***************************************************************************)
Untouched == ~hist.exposed /\ ~hist.grown

Within ==
    /\ run.spec.members = spec.members
    /\ sts.replicas <= spec.members
    /\ pdb \in {RS!NoPDB, RS!BuildMongoDBPDB(spec)}
    /\ sts.evicted <= 1 /\ sts.evicted <= sts.replicas - sts.ready

DrainInv == Untouched => Within

LEMMA DrainInit == ASSUME RS!Init PROVE DrainInv
<1>1. sts = [replicas |-> 0, ready |-> 0, evicted |-> 0, env |-> 0] /\ pdb = RS!NoPDB
    BY DEF RS!Init
<1>2. run.spec = spec /\ spec.members \in Nat
    BY SizesAreNat DEF RS!Init, RS!Specs
<1> QED BY <1>1, <1>2 DEF DrainInv, Within

LEMMA DrainNext == ASSUME PodsInv, DrainInv, RS!Next PROVE DrainInv'
<1> USE SizesAreNat
<1>1. /\ spec.members \in Nat /\ run.spec.members \in Nat
      /\ sts \in Sets /\ sts.ready \in Nat /\ sts.replicas \in Nat /\ sts.evicted \in Int
      /\ sts.ready <= sts.replicas /\ pdb \in Nat \cup {-1}
    BY DEF PodsInv, Counts, RS!Specs, Sets, RS!NoPDB
<1>2. /\ RS!BuildMongoDBPDB(spec) \in Nat
      /\ spec.members <= RS!BuildMongoDBPDB(spec) + 1
    BY <1>1 DEF RS!BuildMongoDBPDB
<1>3. ASSUME UNCHANGED <<spec, sts, pdb, hist>>, run'.spec = run.spec
      PROVE  DrainInv'
    BY <1>3 DEF DrainInv, Untouched, Within, RS!BuildMongoDBPDB
<1>4. ASSUME UNCHANGED <<spec, run, pdb>>, Untouched' => Untouched,
             Within => sts'.replicas <= spec.members /\ sts'.evicted <= 1
                         /\ sts'.evicted <= sts'.replicas - sts'.ready
      PROVE  DrainInv'
    BY <1>4 DEF DrainInv, Within, RS!BuildMongoDBPDB
<1>5. CASE RS!Start
    BY <1>5 DEF RS!Start, DrainInv, Untouched, Within, RS!BuildMongoDBPDB
<1>6. CASE RS!reconcileStatefulSet
    <2> DEFINE n == IF sts.replicas > 0 /\ RS!preserve(run.spec) THEN sts.replicas
                    ELSE run.spec.members
    <2>1. n \in {sts.replicas, run.spec.members}
        OBVIOUS
    <2>2. sts' = [RS!Scaled(n) EXCEPT !.env = run.spec.members]
        BY <1>6 DEF RS!reconcileStatefulSet
    <2> HIDE DEF n
    <2>3. n \in Nat /\ (Within => n <= spec.members)
        BY <1>1, <2>1 DEF Within
    <2>4. /\ sts'.replicas = n /\ sts'.evicted <= sts.evicted
          /\ sts'.evicted <= n - sts'.ready /\ sts' \in Sets
        BY <1>1, <2>2, <2>3, ScaledShape DEF Sets
    <2>5. run'.spec = run.spec /\ UNCHANGED <<spec, pdb, hist>>
        BY <1>6 DEF RS!reconcileStatefulSet, RS!Goto, PodsInv, Counts
    <2> QED
        BY <1>1, <2>3, <2>4, <2>5 DEF Sets, DrainInv, Untouched, Within, RS!BuildMongoDBPDB
<1>7. CASE RS!reconcilePDB
    <2>1. /\ run'.spec = run.spec /\ UNCHANGED <<spec, sts, hist>>
          /\ pdb' = RS!BuildMongoDBPDB(run.spec)
        BY <1>7 DEF RS!reconcilePDB, RS!Goto, PodsInv, Counts
    <2> QED BY <2>1 DEF DrainInv, Untouched, Within, RS!BuildMongoDBPDB
<1>8. CASE RS!WaitForPods \/ RS!hasPrimary \/ RS!reconcileRSHPA
    BY <1>3, <1>8 DEF RS!WaitForPods, RS!hasPrimary, RS!reconcileRSHPA, RS!Goto, RS!Return,
                      PodsInv, Counts
<1>9. CASE RS!recordPendingScale \/ RS!updateStatus \/ RS!HookInitiates
    BY <1>3, <1>9, Zenon DEF RS!recordPendingScale, RS!updateStatus, RS!HookInitiates, RS!Goto,
                      RS!Return, PodsInv, Counts
<1>10. CASE RS!reconcileReplicaSetInitialization
    <2>1. UNCHANGED <<spec, sts, pdb, hist>> /\ run'.spec \in {run.spec, spec}
        BY <1>10, Zenon DEF RS!reconcileReplicaSetInitialization, RS!Goto, PodsInv, Counts
    <2> QED BY <2>1 DEF DrainInv, Untouched, Within, RS!BuildMongoDBPDB
<1>11. CASE RS!EditSpec
    <2>1. /\ run'.spec = run.spec /\ UNCHANGED <<sts, pdb>>
          /\ Untouched' => Untouched /\ spec'.members = spec.members
        BY <1>11, Zenon DEF RS!EditSpec, PodsInv, Counts, Histories, Untouched
    <2> QED BY <2>1 DEF DrainInv, Within, RS!BuildMongoDBPDB
<1>12. CASE RS!PodReady
    <2>1. /\ sts'.replicas = sts.replicas /\ sts'.evicted <= sts.evicted
          /\ sts'.evicted <= sts'.replicas - sts'.ready /\ sts' \in Sets
        BY <1>1, <1>12, PodsShape DEF RS!PodReady, Sets
    <2> QED BY <1>1, <1>4, <1>12, <2>1 DEF RS!PodReady, Untouched, Within, Sets
<1>13. CASE RS!Evict
    <2>1. /\ Untouched' => Untouched /\ pdb # RS!NoPDB
          /\ UNCHANGED <<spec, run, pdb>>
        BY <1>13, Zenon DEF RS!Evict, PodsInv, Counts, Histories, Untouched
    <2>2. /\ sts'.replicas = sts.replicas /\ sts'.ready = sts.ready - 1
          /\ sts'.evicted = sts.evicted + 1
        BY <1>1, <1>13 DEF RS!Evict, Sets
    <2>3. pdb # RS!NoPDB => sts.ready > pdb
        BY <1>13 DEF RS!Evict
    <2>4. Within /\ pdb # RS!NoPDB => sts.evicted <= 0
        BY <1>1, <1>2, <2>3 DEF Within
    <2> QED BY <1>1, <2>1, <2>2, <2>4 DEF DrainInv, Within, RS!BuildMongoDBPDB
<1>14. CASE RS!AutoscalerScales
    <2>1. PICK n \in 1..ReplicaSet.limit : sts' = RS!Scaled(n)
        BY <1>14 DEF RS!AutoscalerScales
    <2>2. /\ sts'.replicas = n /\ sts'.evicted <= sts.evicted
          /\ sts'.evicted <= n - sts'.ready /\ sts' \in Sets
        BY <1>1, <2>1, ScaledShape
    <2>3. Untouched' => Untouched /\ ~(sts'.replicas > spec.members)
        BY <1>14, Zenon DEF RS!AutoscalerScales, PodsInv, Counts, Histories, Untouched
    <2>4. UNCHANGED <<spec, run, pdb>>
        BY <1>14 DEF RS!AutoscalerScales
    <2> QED BY <1>1, <2>2, <2>3, <2>4 DEF DrainInv, Within, Sets, RS!BuildMongoDBPDB
<1>15. CASE RS!PodFails
    <2>1. /\ sts'.replicas = sts.replicas /\ sts'.ready = sts.ready - 1
          /\ sts'.evicted = sts.evicted
        BY <1>1, <1>15 DEF RS!PodFails, Sets
    <2>2. Untouched' => Untouched
        BY <1>15 DEF RS!PodFails, RS!Faulty, PodsInv, Counts, Histories, Untouched
    <2> QED BY <1>1, <1>4, <1>15, <2>1, <2>2 DEF RS!PodFails, Within
<1>16. CASE RS!CallFails
    <2>1. run'.spec = run.spec /\ UNCHANGED <<spec, sts, pdb>>
        BY <1>16 DEF RS!CallFails, RS!Return, RS!Goto, PodsInv, Counts
    <2>2. Untouched' => Untouched
        BY <1>16 DEF RS!CallFails, RS!Faulty, PodsInv, Counts, Histories, Untouched
    <2> QED BY <2>1, <2>2 DEF DrainInv, Within, RS!BuildMongoDBPDB
<1> QED
    BY <1>5, <1>6, <1>7, <1>8, <1>9, <1>10, <1>11, <1>12, <1>13, <1>14, <1>15, <1>16
    DEF RS!Next, RS!Reconcile

\* The two invariants of RSScaling's behaviours.
RSInv == part = "RS" => PodsInv /\ DrainInv

LEMMA RSHolds == Spec => []RSInv
<1>1. Init => RSInv
    BY PodsInit, DrainInit DEF Init, RSInv
<1>2. RSInv /\ [Next]_vars => RSInv'
    <2> SUFFICES ASSUME RSInv, [Next]_vars, part' = "RS" PROVE PodsInv' /\ DrainInv'
        BY DEF RSInv
    <2>1. CASE RS!Next /\ part = "RS"
        BY <2>1, PodsNext, DrainNext DEF RSInv
    <2>2. CASE UNCHANGED vars
        <3>1. PodsInv'
            BY <2>2 DEF vars, setVars, RSInv, PodsInv, Counts, NobodyApproved
        <3>2. DrainInv'
            BY <2>2 DEF vars, setVars, RSInv, DrainInv, Untouched, Within, RS!BuildMongoDBPDB
        <3> QED BY <3>1, <3>2
    <2> QED BY <2>1, <2>2 DEF Next
<1> QED BY <1>1, <1>2, PTL DEF Spec

\* MembersKeepTheirPods in every behaviour: reconcileStatefulSet keeps the replicas of a set
\* nobody approved a change of, and rs.initiate, by the reconcile or by the hook of pod 0,
\* names no member without a pod.
THEOREM PodsKept == Spec => []MembersKeepTheirPods
<1>1. RSInv => MembersKeepTheirPods
    BY DEF RSInv, PodsInv, MembersKeepTheirPods, RS!MembersKeepTheirPods
<1> QED BY <1>1, RSHolds, PTL

\* DrainsOneAtATime in every behaviour: the budget of BuildMongoDBPDB, made of spec.members,
\* never lets node drains have two pods down, while nobody edits the size and the autoscaler
\* stays within it, whatever pods fail, start or are removed meanwhile.
THEOREM OneDrainAtATime == Spec => []DrainsOneAtATime
<1>1. RSInv => DrainsOneAtATime
    BY DEF RSInv, DrainInv, Untouched, Within, DrainsOneAtATime, RS!DrainsOneAtATime
<1> QED BY <1>1, RSHolds, PTL

-----------------------------------------------------------------------------
(***************************************************************************)
(* ShardedStatus.  ConditionsAgree compares a verdict that follows the     *)
(* spec with conditions that follow the totals read before: the inductive  *)
(* invariant says, for every point of the pass, which totals are already   *)
(* those of the copy of the spec that the verdict will use.                *)
(***************************************************************************)
Parts == {"cfg", "shard", "mongos"}

SpecShape ==
    [size : [Parts -> Nat \ {0}], deliberate : SUBSET {"cfg", "shard"},
     auto : SUBSET {"cfg", "mongos"}]

Totals == [Parts -> [ready : Nat, total : Nat]]

Workloads ==
    {w \in [Parts -> [replicas : Nat, ready : Nat]] : \A c \in Parts : w[c].ready <= w[c].replicas}

StatusSteps ==
    {"Idle", "cfg", "cfgReady", "shard", "shardReady", "mongos", "mongosReady", "hpa",
     "readCfg", "readShard", "readMongos", "write"}

StatusShapes ==
    /\ spec \in SpecShape
    /\ wl \in Workloads
    /\ hpa \subseteq Parts
    /\ run \in [pc : StatusSteps, spec : SpecShape, st : Totals, fresh : BOOLEAN]
    /\ status \in [comp : Totals, phase : {"Initializing", "Running", "Failed"},
                   ready : BOOLEAN, conds : SUBSET Parts]
    /\ hist \in [edits : Nat, scalings : Nat, faults : Nat, conflict : BOOLEAN]

\* The total that this pass read of component c is the spec's size, or where an autoscaler
\* sizes the component one that the ready pods do not exceed.
Fits(c) ==
    /\ ~SS!HPAActive(run.spec, c) => run.st[c].total = run.spec.size[c]
    /\ SS!HPAActive(run.spec, c) => run.st[c].ready <= run.st[c].total

ReadSoFar ==
    /\ run.pc \in {"readShard", "readMongos", "write"} => Fits("cfg")
    /\ run.pc \in {"readMongos", "write"} => Fits("shard")
    /\ run.pc = "write" => Fits("mongos")

AgreeInv == StatusShapes /\ ReadSoFar /\ SS!ConditionsAgree

LEMMA SpecsShaped == SS!Specs \subseteq SpecShape
<1> SUFFICES ASSUME NEW s \in SS!Specs PROVE s \in SpecShape
    OBVIOUS
<1> DEFINE All == UNION {Sharded.sizes[c] : c \in Parts}
<1>1. /\ s \in [size : [Parts -> All], deliberate : SUBSET {"cfg", "shard"},
                auto : SUBSET {"cfg", "mongos"}]
      /\ \A c \in Parts : s.size[c] \in Sharded.sizes[c]
    BY Zenon DEF SS!Specs, SS!Components, Parts
<1>2. s.size \in [Parts -> Nat \ {0}]
    BY <1>1, SizesAreNat DEF Parts
<1> QED BY <1>1, <1>2 DEF SpecShape

LEMMA AgreeInit == ASSUME SS!Init PROVE AgreeInv
<1>1. spec \in SpecShape
    BY SpecsShaped DEF SS!Init
<1>2. SS!NoStatus \in Totals
    BY DEF SS!NoStatus, SS!Components, Totals, Parts
<1>3. run = [pc |-> "Idle", spec |-> spec, st |-> SS!NoStatus, fresh |-> FALSE]
    BY DEF SS!Init
<1>4. status = [comp |-> SS!NoStatus, phase |-> "Initializing", ready |-> FALSE, conds |-> {}]
    BY DEF SS!Init
<1>5. StatusShapes
    <2>1. wl \in Workloads
        BY <1>1 DEF SS!Init, SS!Components, Parts, SpecShape, Workloads
    <2>2. run \in [pc : StatusSteps, spec : SpecShape, st : Totals, fresh : BOOLEAN]
        BY <1>1, <1>2, <1>3 DEF StatusSteps
    <2>3. status \in [comp : Totals, phase : {"Initializing", "Running", "Failed"},
                      ready : BOOLEAN, conds : SUBSET Parts]
        BY <1>2, <1>4, Zenon
    <2>4. hpa \subseteq Parts /\ hist \in [edits : Nat, scalings : Nat, faults : Nat, conflict : BOOLEAN]
        BY DEF SS!Init
    <2> QED BY <1>1, <2>1, <2>2, <2>3, <2>4 DEF StatusShapes
<1>6. ReadSoFar
    BY <1>3 DEF ReadSoFar
<1>7. SS!ConditionsAgree
    BY <1>4 DEF SS!ConditionsAgree, SS!Components
<1> QED BY <1>5, <1>6, <1>7 DEF AgreeInv

\* The verdict and the conditions of a whole pass agree, component by component.
LEMMA VerdictsAgree ==
    ASSUME StatusShapes, Fits("cfg"), Fits("shard"), Fits("mongos")
    PROVE  SS!isClusterReady(run.spec, run.st)
             <=> SS!evaluateShardedConditions(run.st) = Parts
<1>1. ASSUME NEW c \in Parts
      PROVE  run.st[c].ready = (IF SS!HPAActive(run.spec, c) /\ run.st[c].total > 0
                                THEN run.st[c].total ELSE run.spec.size[c])
             <=> run.st[c].ready = run.st[c].total /\ run.st[c].total > 0
    <2>1. /\ run.st[c].ready \in Nat /\ run.st[c].total \in Nat
          /\ run.spec.size[c] \in Nat \ {0}
        BY DEF StatusShapes, Totals, SpecShape
    <2>2. Fits(c)
        BY DEF Parts
    <2>3. CASE SS!HPAActive(run.spec, c)
        BY <2>1, <2>2, <2>3 DEF Fits
    <2>4. CASE ~SS!HPAActive(run.spec, c)
        BY <2>1, <2>2, <2>4 DEF Fits
    <2> QED BY <2>3, <2>4
<1> QED BY <1>1, Zenon DEF SS!isClusterReady, SS!evaluateShardedConditions, SS!Components, Parts

\* What the three ways to change a workload leave of its shape.
LEMMA Resizing ==
    ASSUME StatusShapes, NEW c \in Parts, NEW n \in Nat, SS!Resized(c, n)
    PROVE  wl' \in Workloads
<1> DEFINE r == IF wl[c].ready > n THEN n ELSE wl[c].ready
<1>1. r \in Nat /\ r <= n
    BY DEF StatusShapes, Workloads
<1>2. wl' = [wl EXCEPT ![c] = [replicas |-> n, ready |-> r]]
    BY DEF SS!Resized
<1> HIDE DEF r
<1> QED BY <1>1, <1>2 DEF StatusShapes, Workloads

LEMMA AgreeNext == ASSUME AgreeInv, SS!Next PROVE AgreeInv'
<1> USE DEF AgreeInv
<1>1. /\ run.spec.size \in [Parts -> Nat \ {0}] /\ run.spec \in SpecShape /\ run.st \in Totals
      /\ run.fresh \in BOOLEAN /\ status.comp \in Totals
    BY DEF StatusShapes, SpecShape
\* A step of the pass that only moves on, reading and writing no status.
<1>2. ASSUME NEW s \in StatusSteps \ {"readShard", "readMongos", "write"},
             run' = [run EXCEPT !.pc = s], UNCHANGED <<spec, status, hist>>,
             wl' \in Workloads, hpa' \subseteq Parts
      PROVE  AgreeInv'
    <2>1. StatusShapes'
        BY <1>2 DEF StatusShapes
    <2>2. ReadSoFar'
        BY <1>2 DEF StatusShapes, ReadSoFar
    <2> QED BY <1>2, <2>1, <2>2 DEF SS!ConditionsAgree
\* A step of the environment: the copy of the pass keeps its spec and totals.
<1>3. ASSUME run'.pc \in {run.pc, "Idle"}, UNCHANGED <<run.spec, run.st>>, StatusShapes',
             hist'.conflict = hist.conflict, UNCHANGED <<status.ready, status.conds>>
      PROVE  AgreeInv'
    <2>1. ReadSoFar'
        BY <1>3 DEF ReadSoFar, Fits
    <2> QED BY <1>3, <2>1 DEF SS!ConditionsAgree
<1>4. CASE SS!Start
    <2>1. run' = [pc |-> "cfg", spec |-> spec, st |-> status.comp, fresh |-> TRUE]
        BY <1>4 DEF SS!Start
    <2>2. StatusShapes'
        BY <1>1, <1>4, <2>1 DEF SS!Start, StatusShapes, StatusSteps
    <2>3. ReadSoFar'
        BY <2>1 DEF ReadSoFar
    <2> QED BY <1>4, <2>2, <2>3 DEF SS!Start, SS!ConditionsAgree
<1>5. ASSUME NEW c \in Parts, SS!Apply(c)
      PROVE  wl' \in Workloads
    <2> DEFINE n == IF SS!preserve(run.spec, c) THEN wl[c].replicas ELSE run.spec.size[c]
    <2>1. n \in Nat
        BY <1>1 DEF StatusShapes, Workloads
    <2>2. SS!Resized(c, n)
        BY <1>5 DEF SS!Apply
    <2> HIDE DEF n
    <2> QED BY <2>1, <2>2, Resizing
<1>6. CASE SS!reconcileConfigServer
    BY <1>2, <1>5, <1>6 DEF SS!reconcileConfigServer, SS!Goto, StatusSteps, Parts, StatusShapes
<1>7. CASE SS!reconcileShard
    BY <1>2, <1>5, <1>7 DEF SS!reconcileShard, SS!Goto, StatusSteps, Parts, StatusShapes
<1>8. CASE SS!reconcileMongos
    BY <1>2, <1>5, <1>8 DEF SS!reconcileMongos, SS!Goto, StatusSteps, Parts, StatusShapes
<1>9. CASE SS!isConfigServerReady \/ SS!areShardsReady \/ SS!isMongosReady
    <2>1. /\ \/ run' = [run EXCEPT !.pc = "shard"] \/ run' = [run EXCEPT !.pc = "mongos"]
             \/ run' = [run EXCEPT !.pc = "hpa"] \/ run' = [run EXCEPT !.pc = "Idle"]
          /\ UNCHANGED <<spec, wl, hpa, status, hist>>
        BY <1>9 DEF SS!isConfigServerReady, SS!areShardsReady, SS!isMongosReady, SS!Goto,
                    SS!Return
    <2> QED BY <1>2, <2>1 DEF StatusSteps, StatusShapes
<1>10. CASE SS!reconcileHPAs
    BY <1>2, <1>10 DEF SS!reconcileHPAs, SS!Goto, SS!Components, StatusSteps, Parts, StatusShapes
<1>11. ASSUME NEW c \in Parts, NEW p \in StatusSteps, NEW q \in StatusSteps, SS!Read(c, p, q)
       PROVE  /\ StatusShapes' /\ SS!ConditionsAgree'
              /\ run.pc = p /\ run'.pc = q /\ run'.spec = run.spec
              /\ Fits(c)' /\ \A d \in Parts \ {c} : Fits(d) => Fits(d)'
    <2> DEFINE t == [ready |-> wl[c].ready, total |-> SS!totalOf(c)]
    <2>1. t \in [ready : Nat, total : Nat]
        BY <1>1 DEF SS!totalOf, StatusShapes, Workloads
    <2>2. t.total = SS!totalOf(c) /\ t.ready = wl[c].ready
        OBVIOUS
    <2>3. run' = [run EXCEPT !.pc = q, !.st[c] = t] /\ UNCHANGED <<spec, wl, hpa, status, hist>>
        BY <1>11 DEF SS!Read
    <2> HIDE DEF t
    <2>4. /\ run' \in [pc : StatusSteps, spec : SpecShape, st : Totals, fresh : BOOLEAN]
          /\ run'.st = [run.st EXCEPT ![c] = t] /\ run'.pc = q /\ run'.spec = run.spec
        BY <2>1, <2>3, Zenon DEF StatusShapes, Totals
    <2>5. StatusShapes' /\ SS!ConditionsAgree'
        BY <2>3, <2>4 DEF StatusShapes, SS!ConditionsAgree
    <2>6. Fits(c)'
        <3>1. run'.st[c] = t /\ wl[c].ready <= wl[c].replicas
            BY <1>1, <2>4 DEF Totals, StatusShapes, Workloads
        <3> QED BY <2>2, <2>4, <3>1 DEF Fits, SS!totalOf
    <2>7. \A d \in Parts \ {c} : Fits(d) => Fits(d)'
        BY <1>1, <2>4 DEF Fits, SS!HPAActive, Totals
    <2> QED BY <1>11, <2>4, <2>5, <2>6, <2>7 DEF SS!Read
<1>12. CASE SS!readStatus
    <2>1. CASE SS!Read("cfg", "readCfg", "readShard")
        BY <1>11, <2>1 DEF Parts, StatusSteps, ReadSoFar
    <2>2. CASE SS!Read("shard", "readShard", "readMongos")
        BY <1>11, <2>2 DEF Parts, StatusSteps, ReadSoFar
    <2>3. CASE SS!Read("mongos", "readMongos", "write")
        BY <1>11, <2>3 DEF Parts, StatusSteps, ReadSoFar
    <2> QED BY <1>12, <2>1, <2>2, <2>3 DEF SS!readStatus
<1>13. CASE SS!updateStatus
    <2> DEFINE ready == SS!isClusterReady(run.spec, run.st)
               comp == IF run.fresh THEN run.st ELSE status.comp
               phase == IF ~run.fresh THEN status.phase
                        ELSE IF ready THEN "Running" ELSE "Initializing"
               conds == SS!evaluateShardedConditions(comp)
    <2>1. /\ status' = [comp |-> comp, phase |-> phase, ready |-> ready, conds |-> conds]
          /\ hist' = [hist EXCEPT !.conflict = ~run.fresh]
          /\ run' = [run EXCEPT !.pc = "Idle"] /\ UNCHANGED <<spec, wl, hpa>>
        BY <1>13 DEF SS!updateStatus, SS!Return, SS!Goto
    <2>2. comp \in Totals
        BY <1>1
    <2>3. ready \in BOOLEAN
        BY Zenon DEF SS!isClusterReady
    <2>4. conds \in SUBSET Parts
        BY Zenon DEF SS!evaluateShardedConditions, SS!Components, Parts
    <2>5. phase \in {"Initializing", "Running", "Failed"}
        BY DEF StatusShapes
    <2>6. run.fresh => (ready <=> conds = Parts)
        <3>1. Fits("cfg") /\ Fits("shard") /\ Fits("mongos")
            BY <1>13 DEF SS!updateStatus, ReadSoFar
        <3> QED BY <3>1, VerdictsAgree
    <2> HIDE DEF ready, comp, phase, conds
    <2>7. /\ status' \in [comp : Totals, phase : {"Initializing", "Running", "Failed"},
                          ready : BOOLEAN, conds : SUBSET Parts]
          /\ (status'.ready <=> ready) /\ status'.conds = conds
        BY <2>1, <2>2, <2>3, <2>4, <2>5, Zenon
    <2>8. /\ run' \in [pc : StatusSteps, spec : SpecShape, st : Totals, fresh : BOOLEAN]
          /\ run'.pc = "Idle"
        BY <2>1 DEF StatusShapes, StatusSteps
    <2>9. /\ hist' \in [edits : Nat, scalings : Nat, faults : Nat, conflict : BOOLEAN]
          /\ hist'.conflict <=> ~run.fresh
        BY <1>1, <2>1, Zenon DEF StatusShapes
    <2>10. StatusShapes'
        BY <2>1, <2>7, <2>8, <2>9 DEF StatusShapes
    <2>11. ReadSoFar'
        BY <2>8 DEF ReadSoFar
    <2>12. SS!ConditionsAgree'
        BY <2>6, <2>7, <2>9 DEF SS!ConditionsAgree, SS!Components, Parts
    <2> QED BY <2>10, <2>11, <2>12
<1>14. CASE SS!EditSpec
    <2>1. spec' \in SpecShape
        <3>1. CASE \E c \in SS!Components : \E n \in Sharded.sizes[c] \ {spec.size[c]} :
                      spec' = [spec EXCEPT !.size[c] = n]
            <4>1. PICK c \in Parts : \E n \in Sharded.sizes[c] : spec' = [spec EXCEPT !.size[c] = n]
                BY <3>1 DEF SS!Components, Parts
            <4>2. PICK n \in Nat \ {0} : spec' = [spec EXCEPT !.size[c] = n]
                BY <4>1, SizesAreNat DEF Parts
            <4> QED BY <4>2 DEF StatusShapes, SpecShape
        <3>2. CASE \E c \in {"cfg", "mongos"} :
                      spec' = [spec EXCEPT !.auto = IF c \in @ THEN @ \ {c} ELSE @ \cup {c}]
            <4>1. PICK c \in {"cfg", "mongos"} :
                      spec' = [spec EXCEPT !.auto = IF c \in spec.auto THEN spec.auto \ {c}
                                                    ELSE spec.auto \cup {c}]
                BY <3>2
            <4> DEFINE a == IF c \in spec.auto THEN spec.auto \ {c} ELSE spec.auto \cup {c}
            <4>2. a \in SUBSET {"cfg", "mongos"}
                BY DEF StatusShapes, SpecShape
            <4>3. spec' = [spec EXCEPT !.auto = a]
                BY <4>1
            <4> HIDE DEF a
            <4> QED BY <4>2, <4>3 DEF StatusShapes, SpecShape
        <3> QED BY <1>14, <3>1, <3>2 DEF SS!EditSpec
    <2>2. /\ hist' = [hist EXCEPT !.edits = hist.edits + 1]
          /\ run' = [run EXCEPT !.fresh = FALSE] /\ UNCHANGED <<wl, hpa, status>>
        BY <1>14 DEF SS!EditSpec
    <2>3. run' \in [pc : StatusSteps, spec : SpecShape, st : Totals, fresh : BOOLEAN]
        BY <2>2, Zenon DEF StatusShapes
    <2>4. hist' \in [edits : Nat, scalings : Nat, faults : Nat, conflict : BOOLEAN]
        BY <2>2 DEF StatusShapes
    <2>5. StatusShapes'
        BY <2>1, <2>2, <2>3, <2>4 DEF StatusShapes
    <2> QED BY <1>3, <2>2, <2>5 DEF StatusShapes
<1>15. CASE SS!AutoscalerScales
    <2>1. PICK c \in hpa : \E n \in 1..Sharded.limit[c] : SS!Resized(c, n)
        BY <1>15 DEF SS!AutoscalerScales
    <2>2. c \in Parts
        BY DEF StatusShapes
    <2>3. PICK n \in Nat : SS!Resized(c, n)
        BY <2>1, <2>2, SizesAreNat DEF Parts
    <2>4. wl' \in Workloads
        BY <2>2, <2>3, Resizing
    <2>5. hist' = [hist EXCEPT !.scalings = hist.scalings + 1] /\ UNCHANGED <<spec, hpa, run, status>>
        BY <1>15 DEF SS!AutoscalerScales
    <2>6. StatusShapes'
        BY <2>4, <2>5 DEF StatusShapes
    <2> QED BY <1>3, <2>5, <2>6 DEF StatusShapes
<1>16. ASSUME NEW c \in Parts, SS!PodReady(c) \/ SS!PodFails(c)
       PROVE  AgreeInv'
    <2>1. wl' \in Workloads
        <3>1. /\ wl[c].ready \in Nat /\ wl[c].replicas \in Nat /\ wl[c].ready <= wl[c].replicas
              /\ wl \in [Parts -> [replicas : Nat, ready : Nat]]
            BY DEF StatusShapes, Workloads
        <3>2. PICK r \in Nat : wl' = [wl EXCEPT ![c].ready = r] /\ r <= wl[c].replicas
            <4>1. CASE SS!PodReady(c)
                <5>1. /\ wl' = [wl EXCEPT ![c].ready = wl[c].ready + 1]
                      /\ wl[c].ready + 1 \in Nat /\ wl[c].ready + 1 <= wl[c].replicas
                    BY <3>1, <4>1 DEF SS!PodReady
                <5> QED BY <5>1, Zenon
            <4>2. CASE SS!PodFails(c)
                <5>1. /\ wl' = [wl EXCEPT ![c].ready = wl[c].ready - 1]
                      /\ wl[c].ready - 1 \in Nat /\ wl[c].ready - 1 <= wl[c].replicas
                    BY <3>1, <4>2 DEF SS!PodFails
                <5> QED BY <5>1, Zenon
            <4> QED BY <1>16, <4>1, <4>2
        <3> QED BY <3>1, <3>2 DEF StatusShapes, Workloads
    <2>2. /\ UNCHANGED <<spec, hpa, run, status>>
          /\ hist' = hist \/ hist' = [hist EXCEPT !.faults = hist.faults + 1]
        BY <1>16 DEF SS!PodReady, SS!PodFails, SS!Faulty
    <2>3. StatusShapes' /\ hist'.conflict = hist.conflict
        BY <2>1, <2>2 DEF StatusShapes
    <2> QED BY <1>3, <2>2, <2>3
<1>17. CASE SS!CallFails
    <2>1. /\ hist' = [hist EXCEPT !.faults = hist.faults + 1]
          /\ status' \in {status, [status EXCEPT !.phase = "Failed"]}
          /\ run' = [run EXCEPT !.pc = "Idle"] /\ UNCHANGED <<spec, wl, hpa>>
        BY <1>17 DEF SS!CallFails, SS!Faulty, SS!Return, SS!Goto
    <2>2. StatusShapes'
        BY <2>1 DEF StatusShapes, StatusSteps
    <2> QED BY <1>3, <2>1, <2>2 DEF StatusShapes
<1>18. CASE SS!ForeignWrite
    <2>1. /\ hist' = [hist EXCEPT !.faults = hist.faults + 1]
          /\ run' = [run EXCEPT !.fresh = FALSE] /\ UNCHANGED <<spec, wl, hpa, status>>
        BY <1>18 DEF SS!ForeignWrite, SS!Faulty
    <2>2. run' \in [pc : StatusSteps, spec : SpecShape, st : Totals, fresh : BOOLEAN]
        BY <2>1, Zenon DEF StatusShapes
    <2>3. hist' \in [edits : Nat, scalings : Nat, faults : Nat, conflict : BOOLEAN]
        BY <2>1 DEF StatusShapes
    <2>4. StatusShapes'
        BY <2>1, <2>2, <2>3 DEF StatusShapes
    <2> QED BY <1>3, <2>1, <2>4 DEF StatusShapes
<1> QED
    BY <1>4, <1>6, <1>7, <1>8, <1>9, <1>10, <1>12, <1>13, <1>14, <1>15, <1>16, <1>17, <1>18
    DEF SS!Next, SS!Reconcile, SS!Components, Parts

\* ConditionsAgree in every behaviour: updateStatus derives Ready from the spec and the
\* autoscalers' rule, evaluateShardedConditions the component conditions from the totals, and
\* they agree whatever pods, autoscalers and users do between the three reads, as long as no
\* conflict mixes two passes.
THEOREM StatusAgrees == Spec => []ConditionsAgree
<1> DEFINE Inv == part = "SS" => AgreeInv
<1>1. Init => Inv
    BY AgreeInit DEF Init
<1>2. Inv /\ [Next]_vars => Inv'
    <2> SUFFICES ASSUME Inv, [Next]_vars, part' = "SS" PROVE AgreeInv'
        OBVIOUS
    <2>1. CASE SS!Next /\ part = "SS"
        BY <2>1, AgreeNext
    <2>2. CASE UNCHANGED vars
        <3>1. StatusShapes'
            BY <2>2 DEF vars, AgreeInv, StatusShapes
        <3>2. ReadSoFar'
            BY <2>2 DEF vars, AgreeInv, ReadSoFar, Fits, SS!HPAActive
        <3>3. SS!ConditionsAgree'
            BY <2>2 DEF vars, AgreeInv, SS!ConditionsAgree
        <3> QED BY <3>1, <3>2, <3>3 DEF AgreeInv
    <2> QED BY <2>1, <2>2 DEF Next
<1>3. Inv => ConditionsAgree
    BY DEF AgreeInv, ConditionsAgree
<1> QED BY <1>1, <1>2, <1>3, PTL DEF Spec

-----------------------------------------------------------------------------
(***************************************************************************)
(* PodBuilders.  TemplatesServe follows from what every builder does,      *)
(* whatever the options are at the time it runs: the selector depends on   *)
(* the workload alone, and of a shard the label and the sidecar come and   *)
(* go together.  The options may have changed since the template was       *)
(* applied, so the invariant is about the template itself.                 *)
(***************************************************************************)
SelectorOf(r) ==
    CASE r = "rs" -> {"replicaset"} [] r = "cfg" -> {"configsvr"}
      [] r = "shard" -> {"shard-0"} [] r = "mongos" -> {"mongos"}

HasSidecar(t) == \E c \in t.containers : c.name = "mongot"

Suits(t) ==
    /\ t.selector = SelectorOf(role)
    /\ t.selector \subseteq t.labels
    /\ role = "shard" => (PB!BuildMongotService \subseteq t.labels <=> HasSidecar(t))

TemplateInv ==
    /\ role \in {"rs", "cfg", "shard", "mongos"}
    /\ tmpl # PB!NoTemplate => Suits(tmpl)

\* Adding the PEM merge changes the init containers only.
LEMMA MergeKeeps ==
    ASSUME NEW sel, NEW lab, NEW cl, NEW vol, NEW ini, NEW con,
           NEW t, t = [selector |-> sel, labels |-> lab, claims |-> cl, volumes |-> vol,
                       inits |-> ini, containers |-> con]
    PROVE  LET w == PB!WithPEMMerge(t)
           IN  w.selector = sel /\ w.labels = lab /\ w.containers = con
<1> DEFINE i == t.inits \cup PB!Flag("tls", {PB!BuildPEMMergeInitContainer})
<1>1. PB!WithPEMMerge(t) = [t EXCEPT !.inits = i]
    BY DEF PB!WithPEMMerge
<1> HIDE DEF i
<1> QED BY <1>1

\* The sidecar of mongot is the only container with that name.
LEMMA ServerName == PB!ShardServer.name = "mongodb"
<1> DEFINE C(m, f) == PB!Container("mongodb", m, f, {})
<1>1. ASSUME NEW m, NEW f, NEW c, c = C(m, f)
      PROVE  PB!Extended(c).name = "mongodb"
    <2>1. c = [name |-> "mongodb", mounts |-> m, files |-> f, env |-> {},
               runsServer |-> "mongodb" \in {"mongodb", "mongos"}]
        BY <1>1 DEF PB!Container
    <2> DEFINE d == PB!applyDiagnosticMode(c)
    <2>2. d = [c EXCEPT !.files = {}, !.runsServer = FALSE]
        BY DEF PB!applyDiagnosticMode
    <2>3. /\ d.name = "mongodb" /\ "name" \in DOMAIN d
          /\ c.name = "mongodb" /\ "name" \in DOMAIN c
        BY <2>1, <2>2, Zenon
    <2> HIDE DEF d
    <2>4. ASSUME NEW x, x.name = "mongodb", "name" \in DOMAIN x
          PROVE  PB!applyPodSpecExtensions(x).name = "mongodb"
        <3> DEFINE a == x.mounts \cup PB!Flag("initScripts", {"init-scripts"})
                   b == x.files \ PB!Flag("preStop", {<<"scripts", "prestop-stepdown.sh">>})
        <3>1. PB!applyPodSpecExtensions(x) = [x EXCEPT !.mounts = a, !.files = b]
            BY DEF PB!applyPodSpecExtensions
        <3> HIDE DEF a, b
        <3> QED BY <2>4, <3>1
    <2> QED BY <2>3, <2>4 DEF PB!Extended, d
<1> HIDE DEF C
<1> QED BY <1>1 DEF PB!ShardServer, C

LEMMA BuildSuits ==
    ASSUME role \in {"rs", "cfg", "shard", "mongos"}
    PROVE  Suits(PB!Build)
<1>1. CASE role = "rs"
    BY <1>1 DEF Suits, PB!Build, PB!BuildReplicaSetStatefulSet, SelectorOf
<1>2. CASE role = "cfg"
    <2>1. PB!Build = PB!WithPEMMerge(PB!BuildConfigServerStatefulSet)
        BY <1>2 DEF PB!Build
    <2> QED
        BY <1>2, <2>1, MergeKeeps
        DEF Suits, PB!BuildConfigServerStatefulSet, SelectorOf
<1>3. CASE role = "shard"
    <2> DEFINE t == PB!BuildShardStatefulSet
               w == PB!WithPEMMerge(t)
    <2>1. PB!Build = w
        BY <1>3 DEF PB!Build
    <2>2. /\ w.selector = PB!ShardLabels.selector /\ w.labels = PB!ShardLabels.labels
          /\ w.containers = {PB!ShardServer} \cup PB!sidecars
                              \cup PB!Flag("mongot", {PB!MongotSidecar})
        BY MergeKeeps DEF PB!BuildShardStatefulSet
    <2> HIDE DEF w
    <2>3. /\ PB!ShardLabels.selector = {"shard-0"}
          /\ PB!ShardLabels.labels = {"shard-0"} \cup PB!Flag("mongot", {"mongot"})
        BY DEF PB!ShardLabels
    <2>4. \A c \in PB!sidecars : c.name \in {"oplog-tailer", "audit-forwarder"}
        BY DEF PB!sidecars, PB!Flag, PB!BuildOplogTailerSidecar,
               PB!buildAuditForwarderSidecar, PB!Container
    <2>5. PB!MongotSidecar.name = "mongot"
        BY DEF PB!MongotSidecar, PB!Container
    <2>6. PB!BuildMongotService \subseteq w.labels <=> HasSidecar(w)
        <3>1. CASE "mongot" \in opts
            BY <2>2, <2>3, <2>5, <3>1 DEF PB!Flag, PB!BuildMongotService, HasSidecar
        <3>2. CASE "mongot" \notin opts
            <4>1. ~HasSidecar(w)
                BY <2>2, <2>4, <3>2, ServerName DEF PB!Flag, HasSidecar
            <4> QED BY <2>2, <2>3, <3>2, <4>1 DEF PB!Flag, PB!BuildMongotService
        <3> QED BY <3>1, <3>2
    <2> QED BY <1>3, <2>1, <2>2, <2>3, <2>6 DEF Suits, SelectorOf
<1>4. CASE role = "mongos"
    <2>1. PB!Build = PB!WithPEMMerge(PB!BuildMongosDeployment)
        BY <1>4 DEF PB!Build
    <2> QED
        BY <1>4, <2>1, MergeKeeps DEF Suits, PB!BuildMongosDeployment, SelectorOf
<1> QED BY <1>1, <1>2, <1>3, <1>4

\* TemplatesServe in every behaviour, for every set of options and any number of edits: no
\* builder changes the selector of a workload that runs (ShardLabels adds the
\* sidecar's label to a copy), and BuildMongotService finds exactly the pods with a sidecar.
THEOREM TemplatesAlwaysServe == Spec => []TemplatesServe
<1> DEFINE Inv == part = "PB" => TemplateInv
<1>1. Init => Inv
    BY RolesAreKnown DEF Init, PB!Init, TemplateInv
<1>2. Inv /\ [Next]_vars => Inv'
    <2> SUFFICES ASSUME Inv, [Next]_vars, part' = "PB" PROVE TemplateInv'
        OBVIOUS
    <2>1. ASSUME UNCHANGED <<role, tmpl>>, part = "PB" PROVE TemplateInv'
        BY <2>1 DEF TemplateInv, Suits
    <2>2. CASE UNCHANGED vars
        BY <2>1, <2>2 DEF vars, builderVars
    <2>3. CASE PB!Next /\ part = "PB"
        <3>1. CASE PB!ApplyWorkload
            <4>1. tmpl' \in {tmpl, PB!Build} /\ role' = role
                BY <3>1 DEF PB!ApplyWorkload
            <4>2. Suits(PB!Build)
                BY <2>3, BuildSuits DEF TemplateInv
            <4> QED BY <2>1, <2>3, <4>1, <4>2 DEF TemplateInv, Suits
        <3>2. CASE ~PB!ApplyWorkload
            <4>1. UNCHANGED <<role, tmpl>>
                BY <2>3, <3>2
                DEF PB!Next, PB!Reconcile, PB!Prepare, PB!Gate, PB!IssueCertificate, PB!BeginRoll,
                    PB!StartPod, PB!RestartInPlace, PB!Edit
            <4> QED BY <2>1, <2>3, <4>1
        <3> QED BY <3>1, <3>2
    <2> QED BY <2>2, <2>3 DEF Next
<1>3. Inv => TemplatesServe
    <2> SUFFICES ASSUME TemplateInv, tmpl # PB!NoTemplate
                 PROVE  PB!SelectorKept /\ PB!ServiceFindsSidecars
        BY DEF TemplatesServe, SelectorKept, ServiceFindsSidecars, PB!SelectorKept,
               PB!ServiceFindsSidecars
    <2>1. Suits(PB!Build) /\ Suits(tmpl)
        BY BuildSuits DEF TemplateInv
    <2> QED BY <2>1 DEF Suits, HasSidecar, PB!SelectorKept, PB!ServiceFindsSidecars
<1> QED BY <1>1, <1>2, <1>3, PTL DEF Spec
=============================================================================
