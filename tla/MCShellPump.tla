---------------------------- MODULE MCShellPump ----------------------------
(* ShellPump for TLC: two writes that do not fit together and one resize. *)
EXTENDS ShellPump, TLC

CONSTANTS w1, w2, w3, k1, k2

MCSize == (w1 :> 3) @@ (w2 :> 2) @@ (w3 :> 0)
=============================================================================
