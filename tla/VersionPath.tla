---------------------------- MODULE VersionPath ----------------------------
(***************************************************************************)
(* Version numbers and the upgrade-path rule of the admission webhook      *)
(* (api/v1alpha1/common_types.go).                                         *)
(*                                                                         *)
(* The CRD pattern admits only digits and dots, so "8.2.1" is written here *)
(* as the number 821: major 8, minor 2, patch 1 (one digit each).  0 is    *)
(* the empty string of a status field that was never set.                  *)
(***************************************************************************)
EXTENDS Integers, FiniteSets

NoVersion == 0

MajorMinor(v) == v \div 10

Major(v) == v \div 100

Minor(v) == MajorMinor(v) % 10

\* The whitelist 8.0, 8.2, 8.3, 9.0 (major.minor).
supportedMongoDBList == {80, 82, 83, 90}

IsSupportedMongoDBVersion(v) == MajorMinor(v) \in supportedMongoDBList

supportedMinors(major) == {s % 10 : s \in {t \in supportedMongoDBList : t \div 10 = major}}

\* Mutant: any supported minor may step to the next major.
checkMajorStep_AnyMinor(from, to) ==
    Major(to) = Major(from) + 1 /\ \A m \in supportedMinors(Major(to)) : Minor(to) <= m

\* Mutant: the next major is never reached.
checkMajorStep_Never(from, to) == FALSE

\* Only the last supported minor of a major may step to the first one of the next.
checkMajorStep(from, to) ==
    /\ Major(to) = Major(from) + 1
    /\ supportedMinors(Major(from)) # {} /\ supportedMinors(Major(to)) # {}
    /\ \A m \in supportedMinors(Major(from)) : m <= Minor(from)
    /\ \A m \in supportedMinors(Major(to)) : Minor(to) <= m

\* Mutants: minors may be skipped; downgrades pass.
AdjacentMinor_Skips(from, to) == Minor(from) <= Minor(to)

AdjacentMinor_Downgrades(from, to) ==
    \A m \in supportedMinors(Major(from)) : ~ (Minor(from) < m /\ m < Minor(to))

\* toIdx - fromIdx <= 1 in the sorted list: no supported minor lies strictly between.
AdjacentMinor(from, to) ==
    /\ Minor(from) <= Minor(to)
    /\ \A m \in supportedMinors(Major(from)) : ~ (Minor(from) < m /\ m < Minor(to))

IsValidUpgradePath(from, to) ==
    \/ from = to
    \/ /\ IsSupportedMongoDBVersion(from) /\ IsSupportedMongoDBVersion(to)
       /\ IF Major(to) # Major(from) THEN checkMajorStep(from, to)
                                     ELSE AdjacentMinor(from, to)

\* upgrade.go's FCV of a version: its major.minor; an unset version has none.
fcvMajorMinor(v) == MajorMinor(v)

(***************************************************************************)
(* External: mongod.  A binary runs only on data files whose feature       *)
(* compatibility version is its own, the one of the release before it      *)
(* (last continuous) or the one of the last LTS release, 8.0.              *)
(***************************************************************************)
LastLTS == 80

Precedes(f, g) ==
    /\ f < g
    /\ \A s \in supportedMongoDBList : ~ (f < s /\ s < g)

BinaryRunsAtFCV(v, fcv) ==
    \/ fcv = MajorMinor(v)
    \/ Precedes(fcv, MajorMinor(v))
    \/ fcv = LastLTS /\ LastLTS < MajorMinor(v)
=============================================================================
