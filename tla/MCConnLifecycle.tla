-------------------------- MODULE MCConnLifecycle --------------------------
(* ConnLifecycle for TLC: two overlapping app calls. *)
EXTENDS ConnLifecycle

CONSTANTS c1, c2
=============================================================================
