------------------------------ MODULE MCAdmin ------------------------------
(* Instance of AdminBootstrap for TLC: two operator processes, two passwords. *)
EXTENDS AdminBootstrap

CONSTANTS p1, p2, w1, w2

Procs == {p1, p2}
Pws == {w1, w2}
=============================================================================
