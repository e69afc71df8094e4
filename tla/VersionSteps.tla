---------------------------- MODULE VersionSteps ----------------------------
(***************************************************************************)
(* Upgrades one after another along the paths the admission webhook lets   *)
(* through, each committing the FCV of its version once it is validated    *)
(* (upgrade.go), as checkMajorStep's comment assumes.                      *)
(***************************************************************************)
EXTENDS VersionPath

CONSTANT Releases  \* the versions a user may write

VARIABLES cur, fcv

Init == cur \in Releases /\ fcv = fcvMajorMinor(cur)

Next ==
    \E to \in Releases :
        /\ IsValidUpgradePath(cur, to)
        /\ cur' = to /\ fcv' = fcvMajorMinor(to)

Spec == Init /\ [][Next]_<<cur, fcv>>

-----------------------------------------------------------------------------
\* Reference for the rule: b is the first supported minor after a.
IsNext(a, b) ==
    LET later == {s \in supportedMongoDBList : a < s}
    IN  b \in later /\ \A s \in later : b <= s

\* IsValidUpgradePath, which treats minors and majors by separate rules and never compares
\* positions across majors, admits exactly the steps that stay on a supported minor or go
\* to the next one of the whole list (and the no-op).
PathIsNextSupported ==
    \A to \in Releases :
        IsValidUpgradePath(cur, to) <=>
            \/ to = cur
            \/ /\ IsSupportedMongoDBVersion(cur) /\ IsSupportedMongoDBVersion(to)
               /\ \/ MajorMinor(to) = MajorMinor(cur)
                  \/ IsNext(MajorMinor(cur), MajorMinor(to))

\* A step the webhook admits can start: the new binary runs on the FCV that the upgrade
\* before it committed.
StepStartsOnFCV ==
    \A to \in Releases : IsValidUpgradePath(cur, to) => BinaryRunsAtFCV(to, fcv)

\* No dead end: from every supported version but those of the last minor an upgrade is admitted.
NoDeadEnd ==
    IsSupportedMongoDBVersion(cur) /\ (\E s \in supportedMongoDBList : MajorMinor(cur) < s)
        => \E to \in Releases : MajorMinor(to) > MajorMinor(cur) /\ IsValidUpgradePath(cur, to)
=============================================================================
