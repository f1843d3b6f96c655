--------------------------- MODULE MCPhase1Cursor ---------------------------
(* Instances of Phase1Cursor for TLC. *)
EXTENDS Phase1Cursor

CONSTANTS w1, w2
=============================================================================
