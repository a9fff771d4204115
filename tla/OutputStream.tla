---------------------------- MODULE OutputStream ----------------------------
(***************************************************************************)
(* What a shell promises about its output: the app gets the chunks the     *)
(* pump received, none lost, none doubled, in order across both streams,   *)
(* and on_closed comes last, when nothing is held back.                    *)
(***************************************************************************)
EXTENDS Integers, Sequences

CONSTANT Chunk

VARIABLES
    received,   \* chunks received from the channel, in order
    delivered,  \* chunks handed to on_data, in order
    closed      \* on_closed was delivered

vars == <<received, delivered, closed>>

Init ==
    /\ received = <<>>
    /\ delivered = <<>>
    /\ closed = FALSE

\* A chunk arrives; some of what is due may be delivered in the same step, the
\* chunk itself included.
Arrive ==
    /\ ~closed
    /\ \E c \in Chunk : received' = Append(received, c)
    /\ \E n \in Len(delivered)..Len(received') : delivered' = SubSeq(received', 1, n)
    /\ UNCHANGED closed

\* What was held back is delivered, oldest first.
Deliver ==
    /\ ~closed
    /\ \E n \in Len(delivered)..Len(received) : delivered' = SubSeq(received, 1, n)
    /\ UNCHANGED <<received, closed>>

Close ==
    /\ ~closed
    /\ delivered = received
    /\ closed' = TRUE
    /\ UNCHANGED <<received, delivered>>

Next == Arrive \/ Deliver \/ Close

Spec == Init /\ [][Next]_vars
=============================================================================
