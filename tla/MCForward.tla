----------------------------- MODULE MCForward -----------------------------
(* Forward for TLC: three clients and two overlapping close calls. *)
EXTENDS Forward

CONSTANTS p1, p2, p3, k1, k2
=============================================================================
