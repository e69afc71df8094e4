---------------------------- MODULE MCReconciler ----------------------------
(* Instances of MongoDBReconciler for TLC. *)
EXTENDS UpgradeClaims

S(v, b, r) == [version |-> v, image |-> FALSE, backup |-> b, rollback |-> r]
WithImage(s) == [s EXCEPT !.image = TRUE]

Plain80 == S(801, FALSE, FALSE)
Backup80 == S(801, TRUE, TRUE)
Specs1 == {Plain80, S(821, TRUE, TRUE), S(821, FALSE, FALSE)}
Specs2 == {Plain80, S(821, TRUE, TRUE)}
SpecsImage == {Plain80, S(821, TRUE, TRUE), WithImage(S(821, FALSE, FALSE))}
SpecsPatch == {Plain80, S(821, FALSE, FALSE), S(822, FALSE, FALSE)}
SpecsRetry == {Plain80, S(821, FALSE, TRUE), S(831, FALSE, TRUE)}
SpecsBackup == {Backup80, S(821, TRUE, TRUE)}
SpecsLive == {Plain80, S(821, TRUE, TRUE), S(822, FALSE, FALSE)}
Roll82 == S(821, FALSE, TRUE)
SpecsUp == {Plain80, Roll82, S(831, FALSE, TRUE), S(901, FALSE, TRUE)}
Bad82 == {821}
None == {}
=============================================================================
