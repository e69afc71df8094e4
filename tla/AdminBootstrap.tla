--------------------------- MODULE AdminBootstrap ---------------------------
(***************************************************************************)
(* Steps 8 to 9.05 of the replica-set reconcile, seen by several operator  *)
(* processes at once: the primary check, the bootstrap lease, the creation *)
(* and verification of the admin user, and the detection of a changed      *)
(* credentials Secret.  Two processes overlap while leadership moves from  *)
(* one to the other, and always with --leader-elect=false.                 *)
(*                                                                         *)
(* Time is the age of each lease record: bootstrapLeaseDuration is         *)
(* Duration ticks, and an age stops counting once it has reached it.       *)
(***************************************************************************)
EXTENDS Integers, FiniteSets

CONSTANTS
    Processes,   \* lease holder identities (host and pid)
    Passwords,   \* values the credentials Secret takes
    Duration,    \* bootstrapLeaseDuration, in ticks
    NoPassword,  \* no user, no recorded hash, nothing read yet
    MaxEdits,    \* bound: edits of the credentials Secret
    MaxCrashes   \* bound: crashes, failed calls and lost replies

ASSUME ProcessesNonEmpty == Processes # {}
ASSUME DurationIsNat == Duration \in Nat \ {0}
ASSUME BoundsAreNat == MaxEdits \in Nat /\ MaxCrashes \in Nat
ASSUME NoPasswordIsNone == NoPassword \notin Passwords

VARIABLES
    lease,    \* the Lease object: exists, its holder, its age
    proc,     \* each process: where it is in the reconcile, and what it has read
    secret,   \* the password in the credentials Secret
    user,     \* the admin user's password in the database, or NoPassword
    cr,       \* AdminUserCreated, the two conditions and the hash annotation
    hist      \* bounded counters, and whether a bootstrap ever outlived its lease

vars == <<lease, proc, secret, user, cr, hist>>

\* Gone: the pod was replaced, and no process has this identity any more.
Steps == {"Idle", "Gone", "Primary", "GetLease", "CreateLease", "UpdateLease", "Password",
          "CreateUser", "Verify", "SetFlag", "Release", "Rotation", "Signal", "Annotate"}

\* The steps between acquireBootstrapLease and the deferred releaseBootstrapLease.
Holding == {"Password", "CreateUser", "Verify", "SetFlag", "Release"}

Inside == {p \in Processes : proc[p].pc \in Holding}

\* age: ticks since p read its clock in acquireBootstrapLease, the renewTime it writes.
\* fresh: the Lease p read has not been written since, so its resourceVersion still holds.
IdleProc == [pc |-> "Idle", age |-> 0, fresh |-> FALSE, pw |-> NoPassword, ok |-> FALSE,
             flag |-> FALSE]

Init ==
    /\ lease = [exists |-> FALSE, holder |-> CHOOSE p \in Processes : TRUE, age |-> 0]
    /\ proc = [p \in Processes |-> IdleProc]
    /\ secret \in Passwords
    /\ user = NoPassword
    /\ cr = [flag |-> FALSE, unreachable |-> FALSE, pending |-> FALSE, hash |-> NoPassword]
    /\ hist = [edits |-> 0, crashes |-> 0, late |-> FALSE]

-----------------------------------------------------------------------------
Goto(p, step) == proc' = [proc EXCEPT ![p].pc = step]

\* The reconcile ends: done, requeued, or failed through updateStatusError.
Return(p) == proc' = [proc EXCEPT ![p] = IdleProc]

\* A write of the Lease outdates every other process's copy of it.
WriteLease(p, next, l) ==
    /\ lease' = l
    /\ proc' = [q \in Processes |->
                  IF q = p THEN next ELSE [proc[q] EXCEPT !.fresh = FALSE]]

\* The reconcile starts from a fresh copy of the MongoDB object.
Start(p) ==
    /\ proc[p].pc = "Idle"
    /\ proc' = [proc EXCEPT ![p] = [IdleProc EXCEPT !.pc = "Primary", !.flag = cr.flag]]
    /\ UNCHANGED <<lease, secret, user, cr, hist>>

PrimaryFound(p, step) ==
    /\ cr' = [cr EXCEPT !.unreachable = FALSE]
    /\ Goto(p, step)

\* No primary yet, or a failed call, which PrimaryUnreachable records: a requeue.
PrimaryMissing(p) ==
    /\ cr' \in {[cr EXCEPT !.unreachable = u] : u \in BOOLEAN}
    /\ Return(p)

\* hasPrimary once the flag is set: the check logs in with the password the Secret holds
\* now, and a refused login is a failed call.
PrimaryCheckAuthenticated(p) ==
    /\ proc[p].pc = "Primary" /\ proc[p].flag
    /\ \/ secret = user /\ PrimaryFound(p, "Rotation")
       \/ PrimaryMissing(p)
    /\ UNCHANGED <<lease, secret, user, hist>>

\* Before that the check is anonymous, and a refused login only means that the user may
\* exist already: the bootstrap goes on.
PrimaryCheckAnonymous(p) ==
    /\ proc[p].pc = "Primary" /\ ~proc[p].flag
    /\ PrimaryFound(p, "GetLease") \/ PrimaryMissing(p)
    /\ UNCHANGED <<lease, secret, user, hist>>

-----------------------------------------------------------------------------
(* bootstrap_lease.go *)

\* Mutant: a record never runs out.
HeldByOther_NeverExpires(p) == lease.holder # p

\* Another holder's record that has not run out.
HeldByOther(p) == lease.holder # p /\ lease.age < Duration

\* The clock is read first; the Get then decides between create, busy and takeover.
acquireGet(p) ==
    /\ proc[p].pc = "GetLease"
    /\ proc' = [proc EXCEPT ![p] =
                  IF ~lease.exists THEN [@ EXCEPT !.pc = "CreateLease", !.age = 0]
                  ELSE IF HeldByOther(p) THEN IdleProc
                  ELSE [@ EXCEPT !.pc = "UpdateLease", !.age = 0, !.fresh = TRUE]]
    /\ UNCHANGED <<lease, secret, user, cr, hist>>

Held(p) == [exists |-> TRUE, holder |-> p, age |-> proc[p].age]

\* Create: AlreadyExists means that another process was first, which is busy.
acquireCreate(p) ==
    /\ proc[p].pc = "CreateLease"
    /\ IF lease.exists
       THEN lease' = lease /\ Return(p)
       ELSE WriteLease(p, [proc[p] EXCEPT !.pc = "Password"], Held(p))
    /\ UNCHANGED <<secret, user, cr, hist>>

\* Mutant: the update carries no resourceVersion.
acquireUpdate_NoConflict(p) ==
    /\ proc[p].pc = "UpdateLease"
    /\ WriteLease(p, [proc[p] EXCEPT !.pc = "Password", !.fresh = FALSE], Held(p))
    /\ UNCHANGED <<secret, user, cr, hist>>

\* Update under the resourceVersion that was read: a conflict is busy, a Lease deleted
\* meanwhile is an error, and both end the reconcile.
acquireUpdate(p) ==
    /\ proc[p].pc = "UpdateLease"
    /\ IF lease.exists /\ proc[p].fresh
       THEN WriteLease(p, [proc[p] EXCEPT !.pc = "Password", !.fresh = FALSE], Held(p))
       ELSE lease' = lease /\ Return(p)
    /\ UNCHANGED <<secret, user, cr, hist>>

\* Deletes the Lease by name, with no precondition on who holds it now.
releaseBootstrapLease(p) ==
    /\ proc[p].pc = "Release"
    /\ WriteLease(p, IF proc[p].ok THEN [proc[p] EXCEPT !.pc = "Rotation"] ELSE IdleProc,
                  [lease EXCEPT !.exists = FALSE])
    /\ UNCHANGED <<secret, user, cr, hist>>

-----------------------------------------------------------------------------
(* reconcileAdminUser *)

getAdminPassword(p) ==
    /\ proc[p].pc = "Password"
    /\ proc' = [proc EXCEPT ![p].pc = "CreateUser", ![p].pw = secret]
    /\ UNCHANGED <<lease, secret, user, cr, hist>>

\* createUser over an anonymous connection.  An existing user and a refused login both
\* count as success; the latter also happens while there is no user.  A connection that
\* fails otherwise is an error.
BootstrapAdminUser(p) ==
    /\ proc[p].pc = "CreateUser"
    /\ \/ /\ user = NoPassword
          /\ user' = proc[p].pw
          /\ Goto(p, "Verify")
       \/ user' = user /\ Goto(p, "Verify")
       \/ user' = user /\ Goto(p, "Release")
    /\ UNCHANGED <<lease, secret, cr, hist>>

\* Mutant: what createUser answered is believed.
verifyAdminUser_Skipped(p) ==
    /\ proc[p].pc = "Verify"
    /\ Goto(p, "SetFlag")
    /\ UNCHANGED <<lease, secret, user, cr, hist>>

\* usersInfo, logged in as the user: it must exist and have the password just read.  A
\* secondary that lags may still miss it when the five seconds are over.
verifyAdminUser(p) ==
    /\ proc[p].pc = "Verify"
    /\ \/ user = proc[p].pw /\ Goto(p, "SetFlag")
       \/ Goto(p, "Release")
    /\ UNCHANGED <<lease, secret, user, cr, hist>>

setAdminCreated(p) ==
    /\ proc[p].pc = "SetFlag"
    /\ cr' = [cr EXCEPT !.flag = TRUE]
    /\ proc' = [proc EXCEPT ![p].pc = "Release", ![p].ok = TRUE]
    /\ UNCHANGED <<lease, secret, user, hist>>

-----------------------------------------------------------------------------
(* reconcilePasswordRotation *)

\* The first pass records the hash; later passes compare.
reconcilePasswordRotation(p) ==
    /\ proc[p].pc = "Rotation"
    /\ IF cr.hash = NoPassword
       THEN /\ cr' = [cr EXCEPT !.hash = secret]
            /\ Return(p)
       ELSE /\ cr' = cr
            /\ IF cr.hash = secret
               THEN Return(p)
               ELSE proc' = [proc EXCEPT ![p].pc = "Signal", ![p].pw = secret]
    /\ UNCHANGED <<lease, secret, user, hist>>

\* Mutant: the new hash is stored before the condition.
signalRotation_AnnotationFirst(p) ==
    /\ proc[p].pc = "Signal"
    /\ cr' = [cr EXCEPT !.hash = proc[p].pw]
    /\ Goto(p, "Annotate")
    /\ UNCHANGED <<lease, secret, user, hist>>

\* The condition is stored, and the copy in memory is replaced by the stored object.
signalRotation(p) ==
    /\ proc[p].pc = "Signal"
    /\ cr' = [cr EXCEPT !.pending = TRUE]
    /\ Goto(p, "Annotate")
    /\ UNCHANGED <<lease, secret, user, hist>>

\* The Update that follows stores the annotation: the new hash when the status write left
\* the copy in memory alone, the old one when it replaced it.
annotateHash(p) ==
    /\ proc[p].pc = "Annotate"
    /\ cr' \in {cr, [cr EXCEPT !.hash = proc[p].pw]}
    /\ Return(p)
    /\ UNCHANGED <<lease, secret, user, hist>>

-----------------------------------------------------------------------------
(* The environment *)

\* The postStart hook of pod 0 creates the user from the Secret it has mounted.
HookCreateUser ==
    /\ user = NoPassword
    /\ user' = secret
    /\ UNCHANGED <<lease, proc, secret, cr, hist>>

EditSecret ==
    /\ hist.edits < MaxEdits
    /\ \E s \in Passwords \ {secret} : secret' = s
    /\ hist' = [hist EXCEPT !.edits = @ + 1]
    /\ UNCHANGED <<lease, proc, user, cr>>

\* The administrator changes the user's password in the database to the Secret's.
AdminChangesPassword ==
    /\ user # NoPassword /\ user # secret
    /\ user' = secret
    /\ UNCHANGED <<lease, proc, secret, cr, hist>>

\* A process stops anywhere; its deferred release does not run.  Its container restarts with
\* the same host name and pid.
Crash(p) ==
    /\ proc[p].pc \notin {"Idle", "Gone"} /\ hist.crashes < MaxCrashes
    /\ Return(p)
    /\ hist' = [hist EXCEPT !.crashes = @ + 1]
    /\ UNCHANGED <<lease, secret, user, cr>>

\* Its pod is replaced: the process that runs next has another identity.
Replaced(p) ==
    /\ proc[p].pc # "Gone" /\ hist.crashes < MaxCrashes
    /\ \E q \in Processes \ {p} : proc[q].pc # "Gone"
    /\ proc' = [proc EXCEPT ![p] = [IdleProc EXCEPT !.pc = "Gone"]]
    /\ hist' = [hist EXCEPT !.crashes = @ + 1]
    /\ UNCHANGED <<lease, secret, user, cr>>

Older(age) == IF age < Duration THEN age + 1 ELSE age

\* A tick ages the lease and every attempt to take or use it.  late: some bootstrap, or
\* some attempt at one, has outlived the record it writes.
Tick ==
    /\ lease' = [lease EXCEPT !.age = Older(@)]
    /\ proc' = [p \in Processes |-> [proc[p] EXCEPT !.age = Older(@)]]
    /\ hist' = [hist EXCEPT !.late = @ \/ \E p \in Processes :
                  /\ proc[p].pc \in Holding \cup {"CreateLease", "UpdateLease"}
                  /\ proc[p].age + 1 >= Duration]
    /\ UNCHANGED <<secret, user, cr>>

-----------------------------------------------------------------------------
Acquire(p) == acquireGet(p) \/ acquireCreate(p) \/ acquireUpdate(p)

Bootstrap(p) ==
    \/ getAdminPassword(p)
    \/ BootstrapAdminUser(p)
    \/ verifyAdminUser(p)
    \/ setAdminCreated(p)
    \/ releaseBootstrapLease(p)

Rotate(p) == reconcilePasswordRotation(p) \/ signalRotation(p) \/ annotateHash(p)

Reconcile(p) ==
    \/ Start(p)
    \/ PrimaryCheckAuthenticated(p)
    \/ PrimaryCheckAnonymous(p)
    \/ Acquire(p)
    \/ Bootstrap(p)
    \/ Rotate(p)

Environment == HookCreateUser \/ EditSecret \/ AdminChangesPassword \/ Tick

Next == Environment \/ \E p \in Processes : Reconcile(p) \/ Crash(p) \/ Replaced(p)

Spec == Init /\ [][Next]_vars

\* The primary check lets the reconcile go on.
Proceeds(p) ==
    /\ PrimaryCheckAnonymous(p) \/ PrimaryCheckAuthenticated(p)
    /\ proc'[p].pc # "Idle"

\* A reconcile that has started goes on, the controller starts another, time passes, and a
\* primary that is asked again and again is found in the end.
FairSpec ==
    /\ Spec
    /\ WF_vars(Tick)
    /\ \A p \in Processes : WF_vars(Reconcile(p)) /\ SF_vars(Proceeds(p))

-----------------------------------------------------------------------------
(* Properties *)

TypeOK ==
    /\ lease \in [exists : BOOLEAN, holder : Processes, age : 0..Duration]
    /\ proc \in [Processes -> [pc : Steps, age : 0..Duration, fresh : BOOLEAN,
                               pw : Passwords \cup {NoPassword}, ok : BOOLEAN, flag : BOOLEAN]]
    /\ secret \in Passwords
    /\ user \in Passwords \cup {NoPassword}
    /\ cr \in [flag : BOOLEAN, unreachable : BOOLEAN, pending : BOOLEAN,
               hash : Passwords \cup {NoPassword}]
    /\ hist \in [edits : 0..MaxEdits, crashes : 0..MaxCrashes, late : BOOLEAN]

\* BootstrapSerialised.  As long as every bootstrap finishes within the lease duration, at
\* most one process is between acquireBootstrapLease and releaseBootstrapLease, whatever
\* crashes, restarts and create or update races happen.
BootstrapSerialised == ~hist.late => Cardinality(Inside) <= 1

\* FlagMeansUser.  AdminUserCreated is only ever stored for a user that exists, however
\* many processes bootstrap at once and whatever the anonymous calls were refused with.
FlagMeansUser == cr.flag => user # NoPassword

\* RotationIsNotForgotten.  The recorded hash moves on to a new Secret only once
\* PasswordRotationPending is stored, so a crash between the two writes of
\* reconcilePasswordRotation loses no rotation.
RotationIsNotForgotten == [][cr.hash # NoPassword /\ cr'.hash # cr.hash => cr.pending]_cr

\* StaleLeaseIsReplaced.  A Lease left behind by a process that died inside the bootstrap
\* blocks nobody for good: it is taken over once it has run out (acquireBootstrapLease),
\* unless the flag is set and no bootstrap is needed any more.
StaleLeaseIsReplaced == lease.exists ~> (~lease.exists \/ cr.flag)

\* ChangedSecretIsSignalled.  What the comment of reconcilePasswordRotation says: a change of
\* the credentials Secret is detected, and PasswordRotationPending is set.
ChangedSecretIsSignalled ==
    (cr.flag /\ cr.hash \notin {NoPassword, secret}) ~> (cr.pending \/ cr.hash = secret)

=============================================================================
