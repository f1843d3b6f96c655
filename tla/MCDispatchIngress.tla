------------------------- MODULE MCDispatchIngress -------------------------
(* Instances of DispatchIngress for TLC. *)
EXTENDS DispatchIngress

CONSTANTS r1, r2, p1, p2, s1
=============================================================================
