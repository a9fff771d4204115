------------------------------- MODULE MCExec -------------------------------
(***************************************************************************)
(* Exec for TLC.  The chunks put together make a euro sign out of two      *)
(* messages (E2 82 | AC), a surrogate (ED A0 | AC), and cut sequences.     *)
(***************************************************************************)
EXTENDS Exec

MCChunks == {<<65>>, <<226, 130>>, <<172>>, <<237, 160>>}

\* Bytes at the borders of every range of table 3-7.
Borders ==
    {65, 128, 143, 144, 159, 160, 191, 193, 194, 224, 226, 237, 240, 241, 244, 245}

\* Sanitize repairs every string of up to four such bytes.
ASSUME SanitizeRepairs ==
    \A n \in 0..4 : \A data \in [1..n -> Borders] : Repairs(Sanitize(data), data)

\* A sequence is accepted exactly if UTF-8 has it.
ASSUME AcceptsWellFormed ==
    \A n \in 1..4 : \A b \in [1..n -> Borders] : Accepts(b) <=> WellFormed(b)
=============================================================================
