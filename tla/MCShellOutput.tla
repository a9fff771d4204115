--------------------------- MODULE MCShellOutput ---------------------------
(* ShellOutput for TLC: two streams; an interactive size, a bulk one, and one over
   the limit of a merged buffer. *)
EXTENDS ShellOutput

CONSTANTS out, err
=============================================================================
