------------------------ MODULE AdminBootstrap_proofs ------------------------
(***************************************************************************)
(* BootstrapSerialised, FlagMeansUser and RotationIsNotForgotten for any   *)
(* number of operator processes, any lease duration and any number of      *)
(* crashes and edits.                                                      *)
(*                                                                         *)
(* Serialised is the inductive form of the first: whoever is inside the    *)
(* bootstrap is the holder of a record that has not run out, and a copy of *)
(* the Lease that is still current may only be used by its holder, or once *)
(* the record has run out.                                                 *)
(***************************************************************************)
EXTENDS AdminBootstrap, FiniteSetTheorems, TLAPS

Proc == [pc : Steps, age : 0..Duration, fresh : BOOLEAN, pw : Passwords \cup {NoPassword},
         ok : BOOLEAN, flag : BOOLEAN]

\* The part of TypeOK the proofs use, without the bounds.
Types ==
    /\ lease \in [exists : BOOLEAN, holder : Processes, age : 0..Duration]
    /\ proc \in [Processes -> Proc]
    /\ secret \in Passwords
    /\ user \in Passwords \cup {NoPassword}
    /\ cr \in [flag : BOOLEAN, unreachable : BOOLEAN, pending : BOOLEAN,
               hash : Passwords \cup {NoPassword}]
    /\ hist \in [edits : Nat, crashes : Nat, late : BOOLEAN]

\* What holds of a process whose record is r.
MayTake(p) == lease.exists /\ (lease.holder = p \/ lease.age = Duration)

Owner(p, r) ==
    /\ lease.exists /\ lease.holder = p
    /\ lease.age = r.age /\ r.age < Duration

Ser(p, r) ==
    /\ r.pc = "UpdateLease" /\ r.fresh => MayTake(p)
    /\ ~hist.late /\ r.pc \in {"CreateLease", "UpdateLease"} => r.age < Duration
    /\ ~hist.late /\ r.pc \in Holding => Owner(p, r)

Bel(r) ==
    /\ r.pc \in {"CreateUser", "Verify"} => r.pw \in Passwords
    /\ r.pc = "SetFlag" => user # NoPassword
    /\ r.pc = "Annotate" => cr.pending

Serialised == \A p \in Processes : Ser(p, proc[p])

Believed == (cr.flag => user # NoPassword) /\ \A p \in Processes : Bel(proc[p])

IInv == Types /\ Serialised /\ Believed

LEMMA IdleIsProc == IdleProc \in Proc /\ IdleProc.pc = "Idle"
BY DurationIsNat DEF IdleProc, Proc, Steps

\* A step of p that leaves the Lease alone, in terms of p's next record.
LEMMA OwnStep ==
    ASSUME Types, Serialised, NEW p \in Processes, NEW next \in Proc,
           proc' = [proc EXCEPT ![p] = next], lease' = lease, hist'.late = hist.late,
           Ser(p, next)
    PROVE  proc' \in [Processes -> Proc] /\ Serialised'
<1>1. proc' \in [Processes -> Proc]
    BY DEF Types
<1>2. ASSUME NEW q \in Processes PROVE Ser(q, proc[q])'
    <2>1. Ser(q, proc'[q])
        BY DEF Types, Serialised
    <2> QED BY <2>1 DEF Ser, MayTake, Owner
<1> QED BY <1>1, <1>2 DEF Serialised

\* What p's next record must satisfy for Believed, while users are not dropped and the
\* pending condition is not taken back.
LEMMA OwnBelief ==
    ASSUME Types, Believed, NEW p \in Processes, NEW next \in Proc,
           proc' = [proc EXCEPT ![p] = next],
           user # NoPassword => user' # NoPassword, cr.pending => cr'.pending,
           cr'.flag => user' # NoPassword,
           next.pc \in {"CreateUser", "Verify"} => next.pw \in Passwords,
           next.pc = "SetFlag" => user' # NoPassword,
           next.pc = "Annotate" => cr'.pending
    PROVE  Believed'
<1>1. ASSUME NEW q \in Processes PROVE Bel(proc[q])'
    BY DEF Types, Believed, Bel
<1> QED BY <1>1 DEF Believed

\* A Lease writer of which nobody else is inside: the others' copies are outdated.
LEMMA LeaseStep ==
    ASSUME Types, Serialised, NEW p \in Processes, NEW next \in Proc, NEW l,
           l \in [exists : BOOLEAN, holder : Processes, age : 0..Duration],
           WriteLease(p, next, l), hist'.late = hist.late,
           ~hist.late => \A q \in Processes \ {p} : proc[q].pc \notin Holding,
           next.pc # "UpdateLease", next.pc # "CreateLease",
           ~hist.late /\ next.pc \in Holding =>
             l.exists /\ l.holder = p /\ l.age = next.age /\ next.age < Duration
    PROVE  lease' = l /\ proc' \in [Processes -> Proc] /\ Serialised'
<1>1. lease' = l
    BY DEF WriteLease
<1>2. ASSUME NEW q \in Processes
      PROVE  proc'[q] = IF q = p THEN next ELSE [proc[q] EXCEPT !.fresh = FALSE]
    BY DEF WriteLease
<1>3. ASSUME NEW q \in Processes, q # p
      PROVE  /\ [proc[q] EXCEPT !.fresh = FALSE] \in Proc
             /\ [proc[q] EXCEPT !.fresh = FALSE].pc = proc[q].pc
             /\ [proc[q] EXCEPT !.fresh = FALSE].age = proc[q].age
             /\ ~[proc[q] EXCEPT !.fresh = FALSE].fresh
    BY Zenon DEF Types, Proc
<1>4. proc' \in [Processes -> Proc]
    BY <1>3 DEF WriteLease
<1>5. ASSUME NEW q \in Processes PROVE Ser(q, proc[q])'
    <2>1. CASE q = p
        BY <1>1, <1>2, <2>1, Zenon DEF Ser, Owner
    <2>2. CASE q # p
        BY <1>2, <1>3, <2>2, Zenon DEF Ser, Serialised
    <2> QED BY <2>1, <2>2
<1> QED BY <1>1, <1>4, <1>5 DEF Serialised

LEMMA LeaseBelief ==
    ASSUME Types, Believed, NEW p \in Processes, NEW next \in Proc, NEW l,
           WriteLease(p, next, l), UNCHANGED <<user, cr>>,
           next.pc \notin {"CreateUser", "Verify", "SetFlag", "Annotate"}
    PROVE  Believed'
<1>1. ASSUME NEW q \in Processes PROVE Bel(proc[q])'
    <2>1. CASE q = p
        <3>1. proc'[q] = next
            BY <2>1 DEF WriteLease
        <3> QED BY <3>1 DEF Bel
    <2>2. CASE q # p
        <3>1. proc'[q] = [proc[q] EXCEPT !.fresh = FALSE]
            BY <2>2 DEF WriteLease
        <3>2. proc'[q].pc = proc[q].pc /\ proc'[q].pw = proc[q].pw
            BY <3>1 DEF Types, Proc
        <3> QED BY <3>2 DEF Bel, Believed
    <2> QED BY <2>1, <2>2
<1> QED BY <1>1 DEF Believed

LEMMA InitInv == Init => IInv
<1> SUFFICES ASSUME Init PROVE IInv
    OBVIOUS
<1>1. \A p \in Processes : proc[p] = IdleProc
    BY DEF Init
<1>2. proc \in [Processes -> Proc]
    BY IdleIsProc DEF Init
<1>3. lease \in [exists : BOOLEAN, holder : Processes, age : 0..Duration]
    BY DurationIsNat, ProcessesNonEmpty DEF Init
<1>4. Types
    BY <1>2, <1>3 DEF Init, Types
<1>5. Serialised
    BY <1>1, IdleIsProc DEF Serialised, Ser, Holding
<1>6. Believed
    BY <1>1, IdleIsProc DEF Init, Believed, Bel
<1> QED BY <1>4, <1>5, <1>6 DEF IInv

Outside == Steps \ (Holding \cup {"CreateLease", "UpdateLease", "Annotate"})

CR == [flag : BOOLEAN, unreachable : BOOLEAN, pending : BOOLEAN,
       hash : Passwords \cup {NoPassword}]

\* A step of p that stays outside the bootstrap and writes at most the conditions.
LEMMA QuietStep ==
    ASSUME IInv, NEW p \in Processes, NEW next \in Proc,
           proc' = [proc EXCEPT ![p] = next], UNCHANGED <<lease, secret, user>>,
           cr' \in CR, cr'.flag = cr.flag, cr.pending => cr'.pending,
           hist' \in [edits : Nat, crashes : Nat, late : BOOLEAN], hist'.late = hist.late,
           next.pc \in Outside \/ (next.pc = "Annotate" /\ cr'.pending)
    PROVE  IInv'
<1> USE DEF IInv
<1>1. Ser(p, next)
    BY DEF Ser, Outside, Holding
<1>2. proc' \in [Processes -> Proc] /\ Serialised'
    BY <1>1, OwnStep, Zenon
<1>3. next.pc \notin {"CreateUser", "Verify", "SetFlag"}
    BY DEF Outside, Holding
<1>4. cr'.flag => user' # NoPassword
    BY DEF Believed
<1>5. Believed'
    BY <1>3, <1>4, OwnBelief, Zenon DEF Outside
<1> QED BY <1>2, <1>5 DEF Types, CR

\* The steps of a reconcile before and after the bootstrap, and the end of one.
LEMMA QuietSteps ==
    ASSUME IInv, NEW p \in Processes,
           \/ Start(p) \/ PrimaryCheckAuthenticated(p) \/ PrimaryCheckAnonymous(p)
           \/ Rotate(p) \/ Crash(p) \/ Replaced(p)
    PROVE  IInv'
<1>0. /\ proc[p] \in Proc /\ cr \in CR /\ secret \in Passwords
      /\ hist \in [edits : Nat, crashes : Nat, late : BOOLEAN]
    BY DEF IInv, Types, CR
<1>1. CASE Start(p)
    <2> DEFINE next == [IdleProc EXCEPT !.pc = "Primary", !.flag = cr.flag]
    <2>1. next \in Proc /\ next.pc \in Outside
        BY <1>0, IdleIsProc, Zenon DEF Proc, CR, Steps, Outside, Holding
    <2>2. proc' = [proc EXCEPT ![p] = next]
        BY <1>1 DEF Start
    <2> HIDE DEF next
    <2> QED BY <1>0, <1>1, <2>1, <2>2, QuietStep, Zenon DEF Start
<1>2. CASE Return(p) /\ UNCHANGED <<lease, secret, user, hist>> /\ cr' \in CR
           /\ cr'.flag = cr.flag /\ (cr.pending => cr'.pending)
    <2>1. IdleProc.pc \in Outside
        BY IdleIsProc DEF Steps, Outside, Holding
    <2>2. proc' = [proc EXCEPT ![p] = IdleProc]
        BY <1>2 DEF Return
    <2> QED BY <1>0, <1>2, <2>1, <2>2, IdleIsProc, QuietStep, Zenon
<1>3. ASSUME NEW step \in Outside \cup {"GetLease"}, Goto(p, step),
             UNCHANGED <<lease, secret, user, hist>>, cr' \in CR, cr'.flag = cr.flag,
             cr.pending => cr'.pending
      PROVE  IInv'
    <2> DEFINE next == [proc[p] EXCEPT !.pc = step]
    <2>1. next \in Proc /\ next.pc \in Outside
        BY <1>0, <1>3 DEF Proc, Steps, Outside, Holding
    <2>2. proc' = [proc EXCEPT ![p] = next]
        BY <1>3 DEF Goto
    <2> HIDE DEF next
    <2> QED BY <1>0, <1>3, <2>1, <2>2, QuietStep, Zenon
<1>4. CASE PrimaryCheckAuthenticated(p) \/ PrimaryCheckAnonymous(p)
    <2>1. cr' \in CR /\ cr'.flag = cr.flag /\ (cr.pending => cr'.pending)
        BY <1>0, <1>4, Zenon DEF PrimaryCheckAuthenticated, PrimaryCheckAnonymous, PrimaryFound,
                          PrimaryMissing, CR
    <2>2. Return(p) \/ Goto(p, "Rotation") \/ Goto(p, "GetLease")
        BY <1>4 DEF PrimaryCheckAuthenticated, PrimaryCheckAnonymous, PrimaryFound,
                    PrimaryMissing
    <2>3. {"Rotation", "GetLease"} \subseteq Outside
        BY DEF Outside, Steps, Holding
    <2>4. UNCHANGED <<lease, secret, user, hist>>
        BY <1>4 DEF PrimaryCheckAuthenticated, PrimaryCheckAnonymous
    <2> QED BY <1>2, <1>3, <2>1, <2>2, <2>3, <2>4
<1>5. CASE reconcilePasswordRotation(p)
    <2>1. cr' \in CR /\ cr'.flag = cr.flag /\ cr'.pending = cr.pending
        BY <1>0, <1>5 DEF reconcilePasswordRotation, CR
    <2>2. CASE Return(p)
        BY <1>2, <1>5, <2>1, <2>2 DEF reconcilePasswordRotation
    <2>3. CASE ~Return(p)
        <3> DEFINE next == [proc[p] EXCEPT !.pc = "Signal", !.pw = secret]
        <3>1. next \in Proc /\ next.pc \in Outside
            BY <1>0, Zenon DEF Proc, Steps, Outside, Holding
        <3>2. proc' = [proc EXCEPT ![p] = next]
            BY <1>5, <2>3, Zenon DEF reconcilePasswordRotation
        <3> HIDE DEF next
        <3> QED BY <1>0, <1>5, <2>1, <3>1, <3>2, QuietStep, Zenon DEF reconcilePasswordRotation
    <2> QED BY <2>2, <2>3
<1>6. CASE signalRotation(p)
    <2> DEFINE next == [proc[p] EXCEPT !.pc = "Annotate"]
    <2>1. next \in Proc /\ next.pc = "Annotate"
        BY <1>0 DEF Proc, Steps
    <2>2. proc' = [proc EXCEPT ![p] = next]
        BY <1>6 DEF signalRotation, Goto
    <2>3. cr' \in CR /\ cr'.flag = cr.flag /\ cr'.pending
        BY <1>0, <1>6, Zenon DEF signalRotation, CR
    <2> HIDE DEF next
    <2> QED BY <1>0, <1>6, <2>1, <2>2, <2>3, QuietStep, Zenon DEF signalRotation
<1>7. CASE annotateHash(p)
    <2>1. cr' \in CR /\ cr'.flag = cr.flag /\ cr'.pending = cr.pending
        BY <1>0, <1>7 DEF annotateHash, CR, Proc
    <2> QED BY <1>2, <1>7, <2>1 DEF annotateHash
<1>8. CASE Crash(p) \/ Replaced(p)
    <2> DEFINE next == IF Return(p) THEN IdleProc ELSE [IdleProc EXCEPT !.pc = "Gone"]
    <2>1. next \in Proc /\ next.pc \in Outside
        BY IdleIsProc DEF Proc, Steps, Outside, Holding
    <2>2. proc' = [proc EXCEPT ![p] = next]
        BY <1>8 DEF Crash, Replaced, Return
    <2>3. /\ hist' \in [edits : Nat, crashes : Nat, late : BOOLEAN]
          /\ hist'.late = hist.late
        BY <1>0, <1>8 DEF Crash, Replaced
    <2> HIDE DEF next
    <2> QED BY <1>0, <1>8, <2>1, <2>2, <2>3, QuietStep, Zenon DEF Crash, Replaced
<1> QED BY <1>1, <1>4, <1>5, <1>6, <1>7, <1>8 DEF Rotate

\* Nobody but the holder is inside.
LEMMA OnlyHolder ==
    ASSUME IInv, ~hist.late, NEW q \in Processes, proc[q].pc \in Holding
    PROVE  lease.exists /\ lease.holder = q /\ lease.age < Duration
BY DEF IInv, Serialised, Ser, Owner

\* acquireBootstrapLease: the Get decides, Create and Update are guarded by the API server.
LEMMA AcquireSteps ==
    ASSUME IInv, NEW p \in Processes, Acquire(p)
    PROVE  IInv'
<1>0. /\ Types /\ Serialised /\ Believed /\ proc[p] \in Proc /\ Ser(p, proc[p])
      /\ lease \in [exists : BOOLEAN, holder : Processes, age : 0..Duration]
    BY DEF IInv, Types, Serialised
<1>1. CASE acquireGet(p)
    <2> DEFINE next ==
          IF ~lease.exists THEN [proc[p] EXCEPT !.pc = "CreateLease", !.age = 0]
          ELSE IF HeldByOther(p) THEN IdleProc
          ELSE [proc[p] EXCEPT !.pc = "UpdateLease", !.age = 0, !.fresh = TRUE]
    <2>1. next \in Proc
        <3>0. 0 \in 0..Duration
            BY DurationIsNat
        <3>1. [proc[p] EXCEPT !.pc = "CreateLease", !.age = 0] \in Proc
            BY <1>0, <3>0, Zenon DEF Proc, Steps
        <3>2. [proc[p] EXCEPT !.pc = "UpdateLease", !.age = 0, !.fresh = TRUE] \in Proc
            BY <1>0, <3>0, Zenon DEF Proc, Steps
        <3> QED BY <3>1, <3>2, IdleIsProc
    <2>2. next.pc \in {"CreateLease", "UpdateLease", "Idle"}
        BY <1>0, IdleIsProc DEF Proc
    <2>3. next.pc # "Idle" => next.age = 0
        BY <1>0, IdleIsProc DEF Proc
    <2>4. next.pc = "UpdateLease" => MayTake(p)
        <3>1. CASE ~lease.exists
            BY <1>0, <3>1 DEF Proc
        <3>2. CASE lease.exists /\ HeldByOther(p)
            BY <3>2, IdleIsProc
        <3>3. CASE lease.exists /\ ~HeldByOther(p)
            BY <1>0, <3>3, DurationIsNat DEF MayTake, HeldByOther
        <3> QED BY <3>1, <3>2, <3>3
    <2>5. proc' = [proc EXCEPT ![p] = next]
        BY <1>1 DEF acquireGet
    <2> HIDE DEF next
    <2>6. Ser(p, next)
        BY <2>2, <2>3, <2>4, DurationIsNat DEF Ser, Holding
    <2>7. proc' \in [Processes -> Proc] /\ Serialised'
        BY <1>0, <1>1, <2>1, <2>5, <2>6, OwnStep, Zenon DEF acquireGet
    <2>8. Believed'
        BY <1>0, <1>1, <2>1, <2>2, <2>5, OwnBelief, Zenon DEF acquireGet, Believed
    <2> QED BY <1>0, <1>1, <2>7, <2>8 DEF acquireGet, Types, IInv
<1>2. CASE lease' = lease /\ Return(p) /\ UNCHANGED <<secret, user, cr, hist>>
    <2>1. Ser(p, IdleProc)
        BY IdleIsProc DEF Ser, Holding
    <2>2. proc' \in [Processes -> Proc] /\ Serialised'
        BY <1>0, <1>2, <2>1, IdleIsProc, OwnStep, Zenon DEF Return
    <2>3. Believed'
        BY <1>0, <1>2, IdleIsProc, OwnBelief, Zenon DEF Return, Believed
    <2> QED BY <1>0, <1>2, <2>2, <2>3 DEF Types, IInv
<1>3. ASSUME NEW next \in Proc, WriteLease(p, next, Held(p)), next.pc = "Password",
             next.age = proc[p].age, proc[p].pc \in {"CreateLease", "UpdateLease"},
             ~lease.exists \/ MayTake(p), UNCHANGED <<secret, user, cr, hist>>
      PROVE  IInv'
    <2>1. ~hist.late => \A q \in Processes \ {p} : proc[q].pc \notin Holding
        BY <1>0, <1>3, OnlyHolder, DurationIsNat DEF MayTake
    <2>2. ~hist.late => proc[p].age < Duration
        BY <1>0, <1>3 DEF Ser
    <2>3. /\ Held(p) \in [exists : BOOLEAN, holder : Processes, age : 0..Duration]
          /\ Held(p).exists /\ Held(p).holder = p /\ Held(p).age = proc[p].age
        BY <1>0 DEF Held, Proc
    <2>4. lease' = Held(p) /\ proc' \in [Processes -> Proc] /\ Serialised'
        BY <1>0, <1>3, <2>1, <2>2, <2>3, LeaseStep
    <2>5. Believed'
        BY <1>0, <1>3, LeaseBelief
    <2> QED BY <1>0, <1>3, <2>3, <2>4, <2>5 DEF Types, IInv
<1>4. CASE acquireCreate(p)
    <2>1. CASE lease.exists
        BY <1>2, <1>4, <2>1 DEF acquireCreate
    <2>2. CASE ~lease.exists
        <3> DEFINE next == [proc[p] EXCEPT !.pc = "Password"]
        <3>1. next \in Proc /\ next.pc = "Password" /\ next.age = proc[p].age
            BY <1>0 DEF Proc, Steps
        <3>2. WriteLease(p, next, Held(p)) /\ proc[p].pc = "CreateLease"
            BY <1>4, <2>2 DEF acquireCreate
        <3> HIDE DEF next
        <3> QED BY <1>3, <1>4, <2>2, <3>1, <3>2 DEF acquireCreate
    <2> QED BY <2>1, <2>2
<1>5. CASE acquireUpdate(p)
    <2>1. CASE ~(lease.exists /\ proc[p].fresh)
        BY <1>2, <1>5, <2>1 DEF acquireUpdate
    <2>2. CASE lease.exists /\ proc[p].fresh
        <3> DEFINE next == [proc[p] EXCEPT !.pc = "Password", !.fresh = FALSE]
        <3>1. next \in Proc /\ next.pc = "Password" /\ next.age = proc[p].age
            BY <1>0, Zenon DEF Proc, Steps
        <3>2. WriteLease(p, next, Held(p)) /\ proc[p].pc = "UpdateLease"
            BY <1>5, <2>2 DEF acquireUpdate
        <3>3. MayTake(p)
            BY <1>0, <2>2, <3>2 DEF Ser
        <3> HIDE DEF next
        <3> QED BY <1>3, <1>5, <3>1, <3>2, <3>3 DEF acquireUpdate
    <2> QED BY <2>1, <2>2
<1> QED BY <1>1, <1>4, <1>5 DEF Acquire

\* The bootstrap itself: inside, p stays the owner; the release leaves nobody inside.
LEMMA BootstrapSteps ==
    ASSUME IInv, NEW p \in Processes, Bootstrap(p)
    PROVE  IInv'
<1>0. /\ Types /\ Serialised /\ Believed /\ proc[p] \in Proc /\ Ser(p, proc[p])
      /\ Bel(proc[p]) /\ secret \in Passwords /\ cr \in CR
    BY DEF IInv, Types, Serialised, Believed, CR
<1>1. ASSUME NEW next \in Proc, proc' = [proc EXCEPT ![p] = next], next.pc \in Holding,
             proc[p].pc \in Holding, next.age = proc[p].age,
             UNCHANGED <<lease, secret, hist>>
      PROVE  proc' \in [Processes -> Proc] /\ Serialised'
    <2>1. Ser(p, next)
        BY <1>0, <1>1 DEF Ser, Holding, Owner
    <2> QED BY <1>0, <1>1, <2>1, OwnStep, Zenon
<1>2. CASE getAdminPassword(p)
    <2> DEFINE next == [proc[p] EXCEPT !.pc = "CreateUser", !.pw = secret]
    <2>1. /\ next \in Proc /\ next.pc = "CreateUser" /\ next.age = proc[p].age
          /\ next.pw \in Passwords
        BY <1>0, Zenon DEF Proc, Steps
    <2>2. proc' = [proc EXCEPT ![p] = next] /\ UNCHANGED <<lease, secret, user, cr, hist>>
        BY <1>2, Zenon DEF getAdminPassword
    <2> HIDE DEF next
    <2>3. proc' \in [Processes -> Proc] /\ Serialised'
        BY <1>1, <1>2, <2>1, <2>2, Zenon DEF getAdminPassword, Holding
    <2>4. Believed'
        BY <1>0, <2>1, <2>2, OwnBelief, Zenon DEF Believed
    <2> QED BY <1>0, <2>2, <2>3, <2>4 DEF Types, IInv
<1>3. ASSUME NEW step \in {"Verify", "SetFlag", "Release"}, Goto(p, step),
             proc[p].pc \in {"CreateUser", "Verify"},
             UNCHANGED <<lease, secret, cr, hist>>,
             user' \in Passwords \cup {NoPassword},
             user # NoPassword => user' # NoPassword,
             step = "SetFlag" => user' # NoPassword
      PROVE  IInv'
    <2> DEFINE next == [proc[p] EXCEPT !.pc = step]
    <2>1. /\ next \in Proc /\ next.pc = step /\ next.age = proc[p].age
          /\ next.pw = proc[p].pw
        BY <1>0 DEF Proc, Steps
    <2>2. proc' = [proc EXCEPT ![p] = next]
        BY <1>3 DEF Goto
    <2>3. proc[p].pw \in Passwords
        BY <1>0, <1>3 DEF Bel
    <2> HIDE DEF next
    <2>4. proc' \in [Processes -> Proc] /\ Serialised'
        BY <1>1, <1>3, <2>1, <2>2, Zenon DEF Holding
    <2>5. Believed'
        BY <1>0, <1>3, <2>1, <2>2, <2>3, OwnBelief, Zenon DEF Believed
    <2> QED BY <1>0, <1>3, <2>4, <2>5 DEF Types, IInv
<1>4. CASE BootstrapAdminUser(p)
    <2>1. proc[p].pw \in Passwords
        BY <1>0, <1>4 DEF BootstrapAdminUser, Bel
    <2> QED BY <1>0, <1>3, <1>4, <2>1, NoPasswordIsNone DEF BootstrapAdminUser, Types
<1>5. CASE verifyAdminUser(p)
    <2>1. proc[p].pw \in Passwords
        BY <1>0, <1>5 DEF verifyAdminUser, Bel
    <2> QED BY <1>0, <1>3, <1>5, <2>1, NoPasswordIsNone DEF verifyAdminUser, Types
<1>6. CASE setAdminCreated(p)
    <2> DEFINE next == [proc[p] EXCEPT !.pc = "Release", !.ok = TRUE]
    <2>1. next \in Proc /\ next.pc = "Release" /\ next.age = proc[p].age
        BY <1>0, Zenon DEF Proc, Steps
    <2>2. proc' = [proc EXCEPT ![p] = next] /\ UNCHANGED <<lease, secret, user, hist>>
        BY <1>6, Zenon DEF setAdminCreated
    <2>3. cr' \in CR /\ cr'.pending = cr.pending /\ user # NoPassword
        BY <1>0, <1>6, Zenon DEF setAdminCreated, CR, Bel
    <2> HIDE DEF next
    <2>4. proc' \in [Processes -> Proc] /\ Serialised'
        BY <1>1, <1>6, <2>1, <2>2, Zenon DEF setAdminCreated, Holding
    <2>5. Believed'
        BY <1>0, <2>1, <2>2, <2>3, OwnBelief, Zenon
    <2> QED BY <1>0, <2>2, <2>3, <2>4, <2>5 DEF Types, CR, IInv
<1>7. CASE releaseBootstrapLease(p)
    <2> DEFINE next == IF proc[p].ok THEN [proc[p] EXCEPT !.pc = "Rotation"] ELSE IdleProc
               l == [lease EXCEPT !.exists = FALSE]
    <2>1. next \in Proc /\ next.pc \in {"Rotation", "Idle"}
        BY <1>0, IdleIsProc DEF Proc, Steps
    <2>2. l \in [exists : BOOLEAN, holder : Processes, age : 0..Duration]
        BY <1>0, Zenon DEF Types
    <2>3. WriteLease(p, next, l) /\ UNCHANGED <<secret, user, cr, hist>>
        BY <1>7 DEF releaseBootstrapLease
    <2> HIDE DEF next, l
    <2>4. ~hist.late => \A q \in Processes \ {p} : proc[q].pc \notin Holding
        BY <1>7, OnlyHolder DEF releaseBootstrapLease, Holding
    <2>5. lease' = l /\ proc' \in [Processes -> Proc] /\ Serialised'
        BY <1>0, <2>1, <2>2, <2>3, <2>4, LeaseStep DEF Holding
    <2>6. Believed'
        BY <1>0, <2>1, <2>3, LeaseBelief
    <2> QED BY <1>0, <2>2, <2>3, <2>5, <2>6 DEF Types, IInv
<1> QED BY <1>2, <1>4, <1>5, <1>6, <1>7 DEF Bootstrap

\* A tick: an owner ages with its record, and a record that would run out first is late.
LEMMA TickStep == ASSUME IInv, Tick PROVE IInv'
<1>0. /\ Types /\ Serialised /\ Believed
      /\ lease \in [exists : BOOLEAN, holder : Processes, age : 0..Duration]
    BY DEF IInv, Types
<1>1. ASSUME NEW a \in 0..Duration
      PROVE  /\ Older(a) \in 0..Duration
             /\ a = Duration => Older(a) = Duration
             /\ a + 1 < Duration => Older(a) < Duration
    BY DurationIsNat DEF Older
<1>2. /\ lease' \in [exists : BOOLEAN, holder : Processes, age : 0..Duration]
      /\ lease'.exists = lease.exists /\ lease'.holder = lease.holder
      /\ lease'.age = Older(lease.age)
    BY <1>0, <1>1 DEF Tick
<1>3. ASSUME NEW p \in Processes
      PROVE  /\ proc'[p] \in Proc /\ proc'[p].pc = proc[p].pc /\ proc'[p].fresh = proc[p].fresh
             /\ proc'[p].pw = proc[p].pw /\ proc'[p].age = Older(proc[p].age)
             /\ proc[p].age \in 0..Duration
    <2>1. proc'[p] = [proc[p] EXCEPT !.age = Older(@)]
        BY DEF Tick
    <2>2. proc[p] \in Proc
        BY <1>0 DEF Types
    <2> QED BY <1>1, <2>1, <2>2 DEF Proc
<1>4. proc' \in [Processes -> Proc]
    BY <1>3 DEF Tick
<1> DEFINE soon == \E p \in Processes :
                     /\ proc[p].pc \in Holding \cup {"CreateLease", "UpdateLease"}
                     /\ proc[p].age + 1 >= Duration
           late == hist.late \/ soon
<1>5. hist' = [hist EXCEPT !.late = late] /\ late \in BOOLEAN
    BY <1>0 DEF Tick, Types
<1>6. ~late => ~hist.late /\ ~soon
    OBVIOUS
<1>7. ~soon => \A p \in Processes :
                 proc[p].pc \in Holding \cup {"CreateLease", "UpdateLease"} =>
                   proc[p].age + 1 < Duration
    BY <1>3, DurationIsNat
<1> HIDE DEF soon, late
<1>8. hist' \in [edits : Nat, crashes : Nat, late : BOOLEAN] /\ hist'.late = late
    BY <1>0, <1>5 DEF Types
<1>9. ASSUME NEW p \in Processes PROVE Ser(p, proc[p])'
    <2>0. Ser(p, proc[p])
        BY <1>0 DEF Serialised
    <2>1. proc'[p].pc = "UpdateLease" /\ proc'[p].fresh => MayTake(p)'
        BY <1>0, <1>1, <1>2, <1>3, <2>0 DEF Ser, MayTake
    <2>2. ~late /\ proc[p].pc \in Holding \cup {"CreateLease", "UpdateLease"} =>
            proc'[p].age < Duration
        BY <1>1, <1>3, <1>6, <1>7
    <2>3. ~late /\ proc'[p].pc \in Holding => Owner(p, proc[p])'
        BY <1>2, <1>3, <1>6, <2>0, <2>2 DEF Ser, Owner
    <2> QED BY <1>3, <1>8, <2>1, <2>2, <2>3 DEF Ser
<1>10. Believed'
    BY <1>0, <1>3 DEF Tick, Believed, Bel
<1>11. Serialised'
    BY <1>9 DEF Serialised
<1> QED BY <1>0, <1>2, <1>4, <1>8, <1>10, <1>11 DEF Tick, Types, IInv

\* Hooks, administrators and edits of the Secret move neither the Lease nor a process.
LEMMA OtherSteps ==
    ASSUME IInv, HookCreateUser \/ EditSecret \/ AdminChangesPassword \/ UNCHANGED vars
    PROVE  IInv'
<1>0. Types /\ Serialised /\ Believed
    BY DEF IInv
<1>1. UNCHANGED <<lease, proc, cr>> /\ secret' \in Passwords
    BY <1>0 DEF HookCreateUser, EditSecret, AdminChangesPassword, vars, Types
<1>2. user' \in Passwords \cup {NoPassword} /\ (user # NoPassword => user' # NoPassword)
    BY <1>0, NoPasswordIsNone DEF HookCreateUser, EditSecret, AdminChangesPassword, vars, Types
<1>3. hist' \in [edits : Nat, crashes : Nat, late : BOOLEAN] /\ hist'.late = hist.late
    BY <1>0 DEF HookCreateUser, EditSecret, AdminChangesPassword, vars, Types
<1>4. Serialised'
    BY <1>0, <1>1, <1>3 DEF Serialised, Ser, MayTake, Owner
<1>5. Believed'
    BY <1>0, <1>1, <1>2 DEF Believed, Bel
<1> QED BY <1>0, <1>1, <1>2, <1>3, <1>4, <1>5 DEF Types, IInv

LEMMA StepInv == IInv /\ [Next]_vars => IInv'
<1> SUFFICES ASSUME IInv, [Next]_vars PROVE IInv'
    OBVIOUS
<1>1. CASE Environment \/ UNCHANGED vars
    BY <1>1, TickStep, OtherSteps DEF Environment
<1>2. CASE \E p \in Processes : Reconcile(p) \/ Crash(p) \/ Replaced(p)
    BY <1>2, QuietSteps, AcquireSteps, BootstrapSteps DEF Reconcile
<1> QED BY <1>1, <1>2 DEF Next

\* BootstrapSerialised in every behaviour: the Lease of bootstrap_lease.go keeps two
\* processes from bootstrapping one replica set at the same time, unless one of them takes
\* longer than the lease lasts.
THEOREM Serialisation == Spec => []BootstrapSerialised
<1>1. IInv => BootstrapSerialised
    <2> SUFFICES ASSUME IInv, ~hist.late PROVE Cardinality(Inside) <= 1
        BY DEF BootstrapSerialised
    <2>1. \A p, q \in Inside : p = q
        BY OnlyHolder DEF Inside
    <2>2. CASE Inside = {}
        BY <2>2, FS_EmptySet
    <2>3. CASE Inside # {}
        <3>1. PICK p : p \in Inside
            BY <2>3
        <3>2. Inside = {p}
            BY <2>1, <3>1
        <3> QED BY <3>2, FS_Singleton
    <2> QED BY <2>2, <2>3
<1> QED BY <1>1, InitInv, StepInv, PTL DEF Spec

\* FlagMeansUser in every behaviour: AdminUserCreated is stored after a login as the user
\* has succeeded, and no step takes the user away.
THEOREM FlagIsBelieved == Spec => []FlagMeansUser
<1>1. IInv => FlagMeansUser
    BY DEF IInv, Believed, FlagMeansUser
<1> QED BY <1>1, InitInv, StepInv, PTL DEF Spec

\* RotationIsNotForgotten in every behaviour: the step that replaces a recorded hash runs
\* after the one that stores PasswordRotationPending, which nothing takes back.
THEOREM RotationRecorded == Spec => RotationIsNotForgotten
<1> DEFINE Signalled == cr.hash # NoPassword /\ cr'.hash # cr.hash => cr.pending
<1>1. IInv /\ [Next]_vars => [Signalled]_cr
    <2> SUFFICES ASSUME IInv, [Next]_vars, cr.hash # NoPassword, cr'.hash # cr.hash
                 PROVE  cr.pending
        OBVIOUS
    <2>1. cr \in CR
        BY DEF IInv, Types, CR
    <2>2. ~(Environment \/ UNCHANGED vars)
        BY DEF Environment, HookCreateUser, EditSecret, AdminChangesPassword, Tick, vars
    <2>3. PICK p \in Processes : Reconcile(p)
        BY <2>2 DEF Next, Crash, Replaced
    <2>4. annotateHash(p)
        BY <2>1, <2>3 DEF Reconcile, Start, PrimaryCheckAuthenticated, PrimaryCheckAnonymous,
             PrimaryFound, PrimaryMissing, Acquire, acquireGet, acquireCreate, acquireUpdate,
             Bootstrap, getAdminPassword, BootstrapAdminUser, verifyAdminUser,
             setAdminCreated, releaseBootstrapLease, Rotate, reconcilePasswordRotation,
             signalRotation, CR
    <2> QED BY <2>4 DEF annotateHash, IInv, Believed, Bel
<1> QED BY <1>1, InitInv, StepInv, PTL DEF Spec, RotationIsNotForgotten
=============================================================================
