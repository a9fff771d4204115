-------------------------------- MODULE Auth --------------------------------
(***************************************************************************)
(* authenticate() of connection.rs: the first method, the second factor,   *)
(* the fallback from a refused password to keyboard-interactive, and the   *)
(* capped rounds of prompts.                                               *)
(*                                                                         *)
(* The server is free to answer every request with success, any failure, a *)
(* challenge or silence.  A challenge is the set of kinds of its prompts:  *)
(* "echo" for one whose answer is shown, "secret" for one that is not.     *)
(***************************************************************************)
EXTENDS Integers

CONSTANT Rounds   \* bound of the loops over keyboard-interactive replies

ASSUME RoundsAssumption == Rounds \in Nat

VARIABLES
    setup,     \* options.auth, and whether events.supports_keyboard_interactive()
    pc,        \* what authenticate() waits for or does next
    reply,     \* the reply of the server to the last request
    way,       \* who answers prompts: "app", the "password", or nobody so far
    round,     \* replies consumed by the loop of keyboard-interactive
    result,    \* of authenticate(), with the checks of connect() before it
    accepted,  \* the server sent a success
    refused,   \* the failure the first method got
    filled     \* kinds of prompts that got the password

vars == <<setup, pc, reply, way, round, result, accepted, refused, filled>>

AuthPC == {"checks", "first", "firstSent", "kbiStart", "kbiSent", "asking", "done"}
Methods == {"password", "keyboard-interactive"}
Failure == [kind : {"failure"}, remaining : SUBSET Methods, partial : BOOLEAN]
Challenge == [kind : {"challenge"}, prompts : SUBSET {"echo", "secret"}]
None == [kind |-> "none"]
Success == [kind |-> "success"]
Lost == [kind |-> "lost"]

Init ==
    /\ setup \in [auth : {"none", "privateKey", "password", "keyboardInteractive"},
                  handler : BOOLEAN]
    /\ pc = "checks" /\ reply = None /\ way = "none" /\ round = 0
    /\ result = "none"
    /\ accepted = FALSE /\ refused = None /\ filled = {}

Goes(from, to) == pc = from /\ pc' = to

Finishes(from, r) == Goes(from, "done") /\ result' = r

----------------------------------------------------------------------------
(* connect() refuses a request nobody could answer; the method begins *)

ConnectRefuses ==
    /\ setup.auth = "keyboardInteractive" /\ ~setup.handler
    /\ Finishes("checks", "invalid")
    /\ UNCHANGED <<setup, reply, way, round, accepted, refused, filled>>

ConnectProceeds ==
    /\ ~(setup.auth = "keyboardInteractive" /\ ~setup.handler)
    /\ IF setup.auth = "keyboardInteractive"
       THEN Goes("checks", "kbiStart") /\ way' = "app"
       ELSE Goes("checks", "first") /\ UNCHANGED way
    /\ UNCHANGED <<setup, reply, round, result, accepted, refused, filled>>

\* The key does not parse, the server only takes SHA-1 for it, or asking failed.
KeyUnusable ==
    /\ setup.auth = "privateKey"
    /\ \E r \in {"badKey", "authFailed", "lost"} : Finishes("first", r)
    /\ UNCHANGED <<setup, reply, way, round, accepted, refused, filled>>

SendFirst ==
    /\ Goes("first", "firstSent")
    /\ UNCHANGED <<setup, reply, way, round, result, accepted, refused, filled>>

----------------------------------------------------------------------------
(* The server *)

ServerReplies ==
    /\ pc \in {"firstSent", "kbiSent"} /\ reply = None
    /\ reply' \in {Success, Lost} \union Failure
                    \union (IF pc = "kbiSent" THEN Challenge ELSE {})
    /\ accepted' = (accepted \/ reply' = Success)
    /\ UNCHANGED <<setup, pc, way, round, result, refused, filled>>

\* The await behind any request ends with an error of the transport.
ReplyLost ==
    /\ reply = Lost
    /\ \E from \in {"firstSent", "kbiSent"} : Finishes(from, "lost")
    /\ reply' = None
    /\ UNCHANGED <<setup, way, round, accepted, refused, filled>>

----------------------------------------------------------------------------
(* authenticate() looks at the reply to the first method *)

FirstSucceeds ==
    /\ reply = Success
    /\ Finishes("firstSent", "ok")
    /\ reply' = None
    /\ UNCHANGED <<setup, way, round, accepted, refused, filled>>

SecondFactorAsked ==
    /\ setup.auth \in {"privateKey", "password"}
    /\ reply.kind = "failure" /\ reply.partial
    /\ "keyboard-interactive" \in reply.remaining

SecondFactor ==
    /\ SecondFactorAsked
    /\ IF setup.handler
       THEN Goes("firstSent", "kbiStart") /\ way' = "app" /\ UNCHANGED result
       ELSE Finishes("firstSent", "authFailed") /\ UNCHANGED way
    /\ refused' = reply /\ reply' = None
    /\ UNCHANGED <<setup, round, accepted, filled>>

\* Mutant of PasswordNotTaken: the methods that remain are not looked at closely.
PasswordNotTakenLoosely ==
    /\ setup.auth = "password"
    /\ reply.kind = "failure" /\ ~reply.partial
    /\ "keyboard-interactive" \in reply.remaining

\* Only a server that takes no password at all may be tried with its prompts.
PasswordNotTaken ==
    /\ setup.auth = "password"
    /\ reply.kind = "failure" /\ ~reply.partial
    /\ "keyboard-interactive" \in reply.remaining
    /\ "password" \notin reply.remaining

FallsBack ==
    /\ PasswordNotTaken
    /\ Goes("firstSent", "kbiStart")
    /\ way' = IF setup.handler THEN "app" ELSE "password"
    /\ refused' = reply /\ reply' = None
    /\ UNCHANGED <<setup, round, result, accepted, filled>>

FirstFails ==
    /\ reply.kind = "failure"
    /\ ~SecondFactorAsked /\ ~PasswordNotTaken
    /\ Finishes("firstSent", "authFailed")
    /\ refused' = reply /\ reply' = None
    /\ UNCHANGED <<setup, way, round, accepted, filled>>

----------------------------------------------------------------------------
(* keyboard_interactive and keyboard_interactive_via_events *)

KbiStart ==
    /\ Goes("kbiStart", "kbiSent")
    /\ UNCHANGED <<setup, reply, way, round, result, accepted, refused, filled>>

\* Mutants of Looks: the rounds are not counted; the bound is not checked.
LooksUncounted == round < Rounds /\ round' = round
LooksUnbounded == round' = round + 1

Looks == round < Rounds /\ round' = round + 1

KbiSucceeds ==
    /\ reply = Success /\ Looks
    /\ Finishes("kbiSent", "ok")
    /\ reply' = None
    /\ UNCHANGED <<setup, way, accepted, refused, filled>>

KbiFails ==
    /\ reply.kind = "failure" /\ Looks
    /\ Finishes("kbiSent", "authFailed")
    /\ reply' = None
    /\ UNCHANGED <<setup, way, accepted, refused, filled>>

KbiAsks ==
    /\ way = "app"
    /\ reply.kind = "challenge" /\ Looks
    /\ Goes("kbiSent", "asking")
    /\ UNCHANGED <<setup, reply, way, result, accepted, refused, filled>>

\* The app answers every prompt, or cancels, or gives the wrong number of answers.
KbiAnswered ==
    /\ \/ Goes("asking", "kbiSent") /\ UNCHANGED result
       \/ \E r \in {"cancelled", "invalid"} : Finishes("asking", r)
    /\ reply' = None
    /\ UNCHANGED <<setup, way, round, accepted, refused, filled>>

\* The answers are made of the password, an empty one for an echoed prompt.
KbiFills ==
    /\ way = "password"
    /\ reply.kind = "challenge" /\ Looks
    /\ pc = "kbiSent"
    /\ filled' = filled \union (reply.prompts \ {"echo"})
    /\ reply' = None
    /\ UNCHANGED <<setup, pc, way, result, accepted, refused>>

\* Mutant of KbiGivesUp: one round too early.
KbiGivesUpEarly ==
    /\ reply \notin {None, Lost} /\ round + 1 >= Rounds
    /\ Finishes("kbiSent", "authFailed")
    /\ reply' = None
    /\ UNCHANGED <<setup, way, round, accepted, refused, filled>>

\* The loop is over; the reply to its last answers is not looked at.
KbiGivesUp ==
    /\ reply \notin {None, Lost} /\ round = Rounds
    /\ Finishes("kbiSent", "authFailed")
    /\ reply' = None
    /\ UNCHANGED <<setup, way, round, accepted, refused, filled>>

----------------------------------------------------------------------------
First ==
    \/ ConnectRefuses \/ ConnectProceeds \/ KeyUnusable \/ SendFirst
    \/ FirstSucceeds \/ SecondFactor \/ FallsBack \/ FirstFails

Kbi == KbiStart \/ KbiSucceeds \/ KbiFails \/ KbiAsks \/ KbiFills \/ KbiGivesUp

Next == First \/ Kbi \/ ReplyLost \/ KbiAnswered \/ ServerReplies

(***************************************************************************)
(* The future is polled, and what it awaits comes: a server or a user that *)
(* never answers is the business of the deadline, see ConnectDeadline.     *)
(***************************************************************************)
Spec == Init /\ [][Next]_vars /\ WF_vars(Next)

----------------------------------------------------------------------------
(* Properties *)

\* Every variable has its type.
TypeOK ==
    /\ setup \in [auth : {"none", "privateKey", "password", "keyboardInteractive"},
                   handler : BOOLEAN]
    /\ pc \in AuthPC
    /\ reply \in {None, Success, Lost} \union Failure \union Challenge
    /\ way \in {"none", "app", "password"}
    /\ round \in 0..Rounds
    /\ result \in {"none", "ok", "invalid", "badKey", "authFailed", "cancelled", "lost"}
    /\ accepted \in BOOLEAN
    /\ refused \in {None} \union Failure
    /\ filled \subseteq {"echo", "secret"}

\* authenticate() succeeds if and only if the server said so, whatever the mix of
\* methods, factors and rounds, with one exception that a cap on the prompts costs:
\* a success that answers the last of the rounds is reported as a failure.
AcceptanceReported ==
    pc = "done" =>
        \/ accepted <=> result = "ok"
        \/ accepted /\ result = "authFailed" /\ round = Rounds

\* The password of the app goes into prompts only as the fallback documented for
\* it: refused by a server that takes no passwords, which did not count it as a
\* first factor either, by an app that cannot be asked, and never where it is echoed.
PasswordOnlyAsFallback ==
    filled # {} =>
        /\ setup = [auth |-> "password", handler |-> FALSE]
        /\ refused.kind = "failure" /\ ~refused.partial
        /\ refused.remaining = {"keyboard-interactive"}
        /\ "echo" \notin filled

\* The app is asked, along each of the ways that lead to prompts, only if it gave
\* a handler for them; the FFI would call the missing one a user who cancelled.
AskedOnlyIfAble == pc = "asking" => setup.handler

\* Prompts are answered by whom they are meant for, however the methods follow each
\* other: the password or the app, each only in its case.
PromptsWellAnswered == PasswordOnlyAsFallback /\ AskedOnlyIfAble

=============================================================================
