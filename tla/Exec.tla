--------------------------------- MODULE Exec ---------------------------------
(***************************************************************************)
(* One rnssh_connection_exec, from the lookup of the connection to the     *)
(* promise of exec() or execText(): the task that opens a channel, runs    *)
(* the command and collects its output, against a server that sends any    *)
(* messages it likes and a connection that may end at any moment.          *)
(*                                                                         *)
(* russh hands the channel's messages over through a queue of the process: *)
(* what the session task received before it ended is still read.  `sent'   *)
(* is everything that entered that queue and `heard' how much was taken.   *)
(***************************************************************************)
EXTENDS Integers, Sequences, SequencesExt, Errors, Utf8

CONSTANTS
    Chunks,     \* what one message of output may carry
    Statuses,   \* exit statuses of the command
    Limit,      \* max_exec_output
    MaxSent     \* bound on the messages of the server

ASSUME ChunksAssumption == Chunks \subseteq Seq(Byte)
ASSUME LimitAssumption == Limit \in Nat /\ MaxSent \in Nat
ASSUME StatusesAssumption == Statuses \subseteq Nat

VARIABLES
    text,       \* execText was called, not exec
    listed,     \* the id is in registry.connections
    connected,  \* the AtomicBool of the Connection
    alive,      \* the russh session task runs
    pc,         \* what the task of rnssh_connection_exec does next
    sent, heard,
    out,        \* the output collected, per stream
    total,      \* its bytes
    exit,       \* result.exit_code; -1 is None, as for JavaScript
    answer      \* what the promise was settled with

connVars == <<listed, connected, alive>>
collected == <<out, total, exit>>
vars == <<text, connVars, pc, sent, heard, collected, answer>>

ExecPC == {"idle", "missing", "spawned", "opening", "opened", "reading", "done"}
OutputKinds == {"data", "ext0", "stderr"}
Message ==
    [kind : OutputKinds, bytes : Chunks] \union [kind : {"status"}, code : Statuses]
      \union [kind : {"signal", "failure", "close", "other"}]

Pending == [code |-> "none"]

Init ==
    /\ text \in BOOLEAN
    /\ listed = TRUE /\ connected = TRUE /\ alive = TRUE
    /\ pc = "idle"
    /\ sent = <<>> /\ heard = 0
    /\ out = [stdout |-> <<>>, stderr |-> <<>>] /\ total = 0 /\ exit = -1
    /\ answer = Pending

----------------------------------------------------------------------------
(* The connection, whoever ends it *)

\* rnssh_connection_disconnect, or ConnEvents::disconnected.
Unregisters ==
    /\ listed
    /\ listed' = FALSE
    /\ UNCHANGED <<text, connected, alive, pc, sent, heard, collected, answer>>

\* Connection::disconnect, or Handler::disconnected.
FlagFalls ==
    /\ connected
    /\ connected' = FALSE
    /\ UNCHANGED <<text, listed, alive, pc, sent, heard, collected, answer>>

SessionEnds ==
    /\ alive
    /\ alive' = FALSE
    /\ UNCHANGED <<text, listed, connected, pc, sent, heard, collected, answer>>

\* The server sends nothing on a channel it has closed.
ServerSends(m) ==
    /\ alive
    /\ pc = "reading"
    /\ Len(sent) < MaxSent
    /\ \A i \in DOMAIN sent : sent[i].kind # "close"
    /\ sent' = Append(sent, m)
    /\ UNCHANGED <<text, connVars, pc, heard, collected, answer>>

----------------------------------------------------------------------------
(* The task *)

Goes(from, to) ==
    /\ pc = from
    /\ pc' = to
    /\ UNCHANGED <<text, connVars, sent, heard, collected, answer>>

\* Mutant of Shown: the bytes become the string as they are.
ShownUnrepaired(bytes) == bytes

\* The callback copies the buffers, or makes strings of them, and settles the promise.
Shown(bytes) == IF text THEN Sanitize(bytes) ELSE bytes

Succeeds ==
    /\ pc' = "done"
    /\ answer' = [code |-> "Ok", stdout |-> Shown(out.stdout),
                  stderr |-> Shown(out.stderr), exit |-> exit]

Fails(code) ==
    /\ pc' = "done"
    /\ answer' = [code |-> code, stdout |-> <<>>, stderr |-> <<>>, exit |-> -1]

FailsAt(from, code) ==
    /\ pc = from
    /\ Fails(code)
    /\ UNCHANGED <<text, connVars, sent, heard, collected>>

IsConnected == connected /\ alive

\* The lookup happens in the call, before the task is spawned.
Call == Goes("idle", IF listed THEN "spawned" ELSE "missing")

ReportsMissing == FailsAt("missing", "NotFound")

EnsureConnected ==
    IF IsConnected THEN Goes("spawned", "opening") ELSE FailsAt("spawned", "Closed")

\* 30 seconds; the server refuses the channel; or the session goes away.
OpenFails ==
    \/ FailsAt("opening", "Timeout")
    \/ alive /\ FailsAt("opening", CodeOf("ChannelOpenFailure"))
    \/ ~alive /\ \E e \in {"Disconnect", "SendError", "RecvError"} : FailsAt("opening", CodeOf(e))

Opens == alive /\ Goes("opening", "opened")

Requests ==
    IF alive THEN Goes("opened", "reading") ELSE FailsAt("opened", CodeOf("SendError"))

----------------------------------------------------------------------------
(* channel.wait() *)

\* wait() returns the next message of the queue, one of these kinds.
Takes(kinds) ==
    /\ pc = "reading"
    /\ heard < Len(sent)
    /\ sent[heard + 1].kind \in kinds
    /\ heard' = heard + 1

\* The message wait() returned.
Waited == sent[heard + 1]

Stream(kind) == IF kind = "stderr" THEN "stderr" ELSE "stdout"

\* Mutant of TakesOutput: only stdout counts against the limit.
TakesOutputOfStdout ==
    /\ Takes(OutputKinds)
    /\ total' = total + (IF Waited.kind = "stderr" THEN 0 ELSE Len(Waited.bytes))
    /\ IF total' > Limit
       THEN Fails("TooLarge") /\ UNCHANGED out
       ELSE /\ out' = [out EXCEPT ![Stream(Waited.kind)] = @ \o Waited.bytes]
            /\ UNCHANGED <<pc, answer>>
    /\ UNCHANGED <<text, connVars, sent, exit>>

\* Output is counted before it is kept; past the limit the channel is closed.
TakesOutput ==
    /\ Takes(OutputKinds)
    /\ total' = total + Len(Waited.bytes)
    /\ IF total' > Limit
       THEN Fails("TooLarge") /\ UNCHANGED out
       ELSE /\ out' = [out EXCEPT ![Stream(Waited.kind)] = @ \o Waited.bytes]
            /\ UNCHANGED <<pc, answer>>
    /\ UNCHANGED <<text, connVars, sent, exit>>

TakesStatus ==
    /\ Takes({"status"})
    /\ exit' = Waited.code
    /\ UNCHANGED <<text, connVars, pc, sent, out, total, answer>>

\* get_or_insert: a status that came before the signal stays.
TakesSignal ==
    /\ Takes({"signal"})
    /\ exit' = IF exit = -1 THEN 128 ELSE exit
    /\ UNCHANGED <<text, connVars, pc, sent, out, total, answer>>

TakesFailure ==
    /\ Takes({"failure"})
    /\ Fails("Protocol")
    /\ UNCHANGED <<text, connVars, sent, collected>>

TakesClose ==
    /\ Takes({"close"})
    /\ Succeeds
    /\ UNCHANGED <<text, connVars, sent, collected>>

\* Success, Eof, window adjustments: nothing of the result.
TakesOther ==
    /\ Takes({"other"})
    /\ UNCHANGED <<text, connVars, pc, sent, collected, answer>>

\* Mutant of ChannelGone: only the close message ends the loop.
ChannelGoneGoesOn ==
    /\ pc = "reading" /\ ~alive /\ heard = Len(sent)
    /\ UNCHANGED vars

\* The session ended and its queue is drained: wait() returns None.
ChannelGone ==
    /\ pc = "reading" /\ ~alive /\ heard = Len(sent)
    /\ Succeeds
    /\ UNCHANGED <<text, connVars, sent, heard, collected>>

----------------------------------------------------------------------------
Task ==
    \/ ReportsMissing \/ EnsureConnected \/ OpenFails \/ Opens \/ Requests
    \/ TakesOutput \/ TakesStatus \/ TakesSignal \/ TakesFailure \/ TakesClose
    \/ TakesOther \/ ChannelGone

Next ==
    \/ Call
    \/ Task
    \/ \E m \in Message : ServerSends(m)
    \/ Unregisters \/ FlagFalls \/ SessionEnds

(***************************************************************************)
(* Fairness: the task is polled, and the 30 seconds of the channel pass.   *)
(* Nothing is assumed of the server: a command may run for ever.           *)
(***************************************************************************)
Spec == Init /\ [][Next]_vars /\ WF_vars(Task)

----------------------------------------------------------------------------
(* Properties *)

\* What these messages carry on these kinds, in order.
Output(msgs, kinds) ==
    FoldLeft(LAMBDA bytes, m : IF m.kind \in kinds THEN bytes \o m.bytes ELSE bytes,
             <<>>, msgs)

OfKind(kinds) == {i \in DOMAIN sent : sent[i].kind \in kinds}

\* The status the server reported last, else the one that stands for a signal.
ExitSent ==
    IF OfKind({"status"}) # {} THEN sent[Max(OfKind({"status"}))].code
    ELSE IF OfKind({"signal"}) # {} THEN 128 ELSE -1

\* exec() succeeds with all that the server sent, each stream in order whatever
\* its messages were and however they interleave, and with its exit status; it
\* fails for its size only if both streams together exceed the limit, and as
\* refused only if the server refused.
ResultFaithful ==
    /\ answer.code = "Ok" =>
         /\ answer.exit = ExitSent
         /\ Len(Output(sent, OutputKinds)) <= Limit
         /\ OfKind({"failure"}) = {}
         /\ ~text => /\ answer.stdout = Output(sent, {"data", "ext0"})
                     /\ answer.stderr = Output(sent, {"stderr"})
    /\ answer.code = "TooLarge" => Len(Output(sent, OutputKinds)) > Limit
    /\ answer.code = "Protocol" => sent = <<>> \/ OfKind({"failure"}) # {}

\* execText() gives a string whatever the bytes are: valid UTF-8, exactly the
\* output where that is valid, even if a message ended inside a character, and
\* with every ASCII character in place.
TextRepaired ==
    answer.code = "Ok" /\ text =>
        /\ Repairs(answer.stdout, Output(sent, {"data", "ext0"}))
        /\ Repairs(answer.stderr, Output(sent, {"stderr"}))

\* A connection that ends, at whatever point of an exec, settles its promise.
LossEnds == (pc # "idle" /\ ~alive) ~> (answer # Pending)

----------------------------------------------------------------------------
(* A statement of comments and docs that the code does not keep *)

\* connection.rs on ExecResult, and index.ts: no exit code means that the server
\* closed the channel without reporting a status.
NoStatusMeansServerClosed ==
    answer.code = "Ok" /\ answer.exit = -1 => OfKind({"close"}) # {}
=============================================================================
