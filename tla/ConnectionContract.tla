------------------------- MODULE ConnectionContract -------------------------
(***************************************************************************)
(* What rnssh_connect promises to the binding about the callbacks of one   *)
(* connection id, as the doc of RnsshConnectionCallbacks states it and as  *)
(* far as the code keeps it.  ConnLifecycle implements this specification; *)
(* AbortableConnect is built on it.                                        *)
(*                                                                         *)
(* Not promised, because the code does not keep it: that on_disconnected   *)
(* follows on_connected, or that no prompt follows on_error.               *)
(***************************************************************************)
EXTENDS Naturals

VARIABLES
    cb,        \* how often each callback was delivered
    bye,       \* the app's good-bye reached the session
    released   \* release(user) was called

vars == <<cb, bye, released>>

Prompts == {"hostKey", "kbi"}
Callbacks == Prompts \union {"connected", "error", "disconnected"}

Terminals == cb["connected"] + cb["error"]

Init ==
    /\ cb = [k \in Callbacks |-> 0]
    /\ bye = FALSE
    /\ released = FALSE

\* The user decides on the host key before anything else is asked or reported,
\* except a failure; one terminal callback; on_disconnected once, unless the app
\* said good-bye.
May(k) ==
    /\ k \in {"kbi", "connected", "disconnected"} => cb["hostKey"] > 0
    /\ k \in {"connected", "error"} => Terminals = 0
    /\ k = "disconnected" => ~bye /\ cb["disconnected"] = 0

Delivers(k) ==
    /\ May(k)
    /\ cb' = [cb EXCEPT ![k] = @ + 1]
    /\ UNCHANGED bye

HangsUp ==
    /\ cb["disconnected"] = 0
    /\ bye' = TRUE
    /\ UNCHANGED cb

\* The last clone of the bridge may be dropped by the step that called back.
\* Nothing follows release, and release follows the terminal callback.
Releasing ==
    /\ ~released
    /\ released' => Terminals' = 1

Next ==
    /\ Releasing
    /\ released' \in BOOLEAN
    /\ \/ \E k \in Callbacks : Delivers(k)
       \/ HangsUp
       \/ UNCHANGED <<cb, bye>>

Spec == Init /\ [][Next]_vars
=============================================================================
