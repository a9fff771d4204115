----------------------------- MODULE ShellPump -----------------------------
(***************************************************************************)
(* The input side and the life of one shell: the task rnssh_shell_open     *)
(* spawns, the pump task that owns the SSH channel, and the app's          *)
(* overlapping writes and closes, which reach the pump through a bounded   *)
(* command queue.  The output side is module ShellOutput.                  *)
(***************************************************************************)
EXTENDS Integers, FiniteSets, Sequences, FiniteSetsExt

CONSTANTS
    Writers,     \* app calls of write, resize and send_eof
    Closers,     \* app calls of rnssh_shell_close
    Size,        \* bytes each writer queues; 0 stands for resize and send_eof
    MaxPending,  \* MAX_PENDING_WRITE_BYTES
    QueueLen     \* COMMAND_QUEUE_LEN

ASSUME SizeAssumption == Size \in [Writers -> Nat]
ASSUME LimitsAssumption == MaxPending \in Nat /\ QueueLen \in Nat \ {0}
ASSUME CallersAssumption == IsFiniteSet(Writers) /\ Writers \intersect Closers = {}

VARIABLES
    opener,      \* program counter of the task rnssh_shell_open spawns
    registered,  \* the id is in registry.shells
    channelUp,   \* the channel can still carry messages
    pump,        \* program counter of the pump task
    sending,     \* the writer whose command the pump is carrying out
    queue,       \* the command queue: the callers whose commands wait
    open,        \* the AtomicBool shared by the pump and the handles
    pendingBytes,\* the AtomicUsize shared by the pump and the handles
    writer,      \* program counter of each writer
    closer,      \* program counter of each closer
    waiters,     \* the pump's close_waiters
    cb           \* callbacks delivered

pumpVars == <<pump, sending, waiters>>
vars == <<opener, registered, channelUp, pumpVars, queue, open, pendingBytes,
          writer, closer, cb>>

None == "none"
OpenerPC == {"start", "accepted", "inserted", "done"}
PumpPC == {"none", "select", "sending", "closing", "stopping", "draining",
           "unregister", "announce", "notify", "done"}
\* "queued" and later: accepted, then handed to the transport, failed there, or
\* lost with the queue.
WriterPC == {"idle", "added", "over", "sendable", "undo", "refused",
             "queued", "handed", "failed", "lost"}
CloserPC == {"idle", "found", "queued", "resolved", "missed", "done"}

\* The pump still owns the receiving end of the queue.
Receiving == pump \notin {"none", "done"}

Bytes(ws) == MapThenSumSet(LAMBDA w : Size[w], ws)

Deliver(name) == cb' = [cb EXCEPT ![name] = @ + 1]

Init ==
    /\ opener = "start" /\ registered = FALSE
    /\ channelUp = TRUE
    /\ pump = "none" /\ sending = None /\ waiters = {}
    /\ queue = <<>>
    /\ open = TRUE /\ pendingBytes = 0
    /\ writer = [w \in Writers |-> "idle"]
    /\ closer = [c \in Closers |-> "idle"]
    /\ cb = [k \in {"opened", "failed", "closed"} |-> 0]

----------------------------------------------------------------------------
(* rnssh_shell_open's task: Connection::open_shell, Shell::start *)

\* No such connection, channel refused, a request refused, or the deadline.
OpenFails ==
    /\ opener = "start"
    /\ Deliver("failed")
    /\ opener' = "done"
    /\ UNCHANGED <<registered, channelUp, pumpVars, queue, open, pendingBytes,
                   writer, closer>>

\* The server accepted the shell; start spawns the pump, then returns the handle.
OpenAccepted ==
    /\ opener = "start"
    /\ opener' = "accepted"
    /\ pump' = "select"
    /\ UNCHANGED <<registered, channelUp, sending, waiters, queue, open, pendingBytes,
                   writer, closer, cb>>

OpenInserts ==
    /\ opener = "accepted"
    /\ registered' = TRUE
    /\ opener' = "inserted"
    /\ UNCHANGED <<channelUp, pumpVars, queue, open, pendingBytes, writer, closer, cb>>

OpenReports ==
    /\ opener = "inserted"
    /\ Deliver("opened")
    /\ opener' = "done"
    /\ UNCHANGED <<registered, channelUp, pumpVars, queue, open, pendingBytes,
                   writer, closer>>

----------------------------------------------------------------------------
(* Shell::write, resize and eof.  The app has the handle from on_opened.     *)

WriterGoes(w, from, to) == writer[w] = from /\ writer' = [writer EXCEPT ![w] = to]

\* fetch_add first, then the check: the reserved bytes are visible meanwhile.
WriteReserves(w) ==
    /\ cb["opened"] > 0 /\ registered
    /\ WriterGoes(w, "idle",
           IF Size[w] > 0 /\ pendingBytes + Size[w] > MaxPending THEN "over" ELSE "added")
    /\ pendingBytes' = pendingBytes + Size[w]
    /\ UNCHANGED <<opener, registered, channelUp, pumpVars, queue, open, closer, cb>>

WriteNotFound(w) ==
    /\ cb["opened"] > 0 /\ ~registered
    /\ WriterGoes(w, "idle", "refused")
    /\ UNCHANGED <<opener, registered, channelUp, pumpVars, queue, open, pendingBytes,
                   closer, cb>>

WriteChecksOpen(w) ==
    /\ WriterGoes(w, "added", IF open THEN "sendable" ELSE "undo")
    /\ UNCHANGED <<opener, registered, channelUp, pumpVars, queue, open, pendingBytes,
                   closer, cb>>

\* try_send succeeds: the write is accepted.
WriteQueues(w) ==
    /\ WriterGoes(w, "sendable", "queued")
    /\ Receiving /\ Len(queue) < QueueLen
    /\ queue' = Append(queue, w)
    /\ UNCHANGED <<opener, registered, channelUp, pumpVars, open, pendingBytes, closer, cb>>

\* Mutant of WriteBounces: the bytes are given back here and again by the undo.
WriteBouncesTwice(w) ==
    /\ ~Receiving \/ Len(queue) >= QueueLen
    /\ WriterGoes(w, "sendable", "undo")
    /\ pendingBytes' = pendingBytes - Size[w]
    /\ UNCHANGED <<opener, registered, channelUp, pumpVars, queue, open, closer, cb>>

\* try_send fails: the queue is full, or its receiver is gone.
WriteBounces(w) ==
    /\ ~Receiving \/ Len(queue) >= QueueLen
    /\ WriterGoes(w, "sendable", "undo")
    /\ UNCHANGED <<opener, registered, channelUp, pumpVars, queue, open, pendingBytes,
                   closer, cb>>

WriteUndoes(w) ==
    /\ WriterGoes(w, "over", "refused") \/ WriterGoes(w, "undo", "refused")
    /\ pendingBytes' = pendingBytes - Size[w]
    /\ UNCHANGED <<opener, registered, channelUp, pumpVars, queue, open, closer, cb>>

----------------------------------------------------------------------------
(* rnssh_shell_close: a lookup, then Shell::close on a clone *)

CloserGoes(c, from, to) == closer[c] = from /\ closer' = [closer EXCEPT ![c] = to]

CloseLooksUp(c) ==
    /\ cb["opened"] > 0
    /\ CloserGoes(c, "idle", IF registered THEN "found" ELSE "missed")
    /\ UNCHANGED <<opener, registered, channelUp, pumpVars, queue, open, pendingBytes,
                   writer, cb>>

\* send().await: waits for room in the queue.
CloseQueues(c) ==
    /\ Receiving /\ Len(queue) < QueueLen
    /\ CloserGoes(c, "found", "queued")
    /\ queue' = Append(queue, c)
    /\ UNCHANGED <<opener, registered, channelUp, pumpVars, open, pendingBytes, writer, cb>>

\* send fails once the receiver is gone: close() returns.
CloseFindsNone(c) ==
    /\ ~Receiving
    /\ CloserGoes(c, "found", "resolved")
    /\ UNCHANGED <<opener, registered, channelUp, pumpVars, queue, open, pendingBytes,
                   writer, cb>>

CloseCompletes(c) ==
    /\ CloserGoes(c, "resolved", "done") \/ CloserGoes(c, "missed", "done")
    /\ UNCHANGED <<opener, registered, channelUp, pumpVars, queue, open, pendingBytes,
                   writer, cb>>

----------------------------------------------------------------------------
(* pump: a biased select of the command queue and the channel *)

PumpGoes(from, to) == pump = from /\ pump' = to

\* Data, Resize, Eof: the pump awaits the channel before it polls anything else.
PumpTakesWrite ==
    /\ queue # <<>> /\ Head(queue) \in Writers
    /\ PumpGoes("select", "sending")
    /\ sending' = Head(queue)
    /\ queue' = Tail(queue)
    /\ UNCHANGED <<opener, registered, channelUp, waiters, open, pendingBytes,
                   writer, closer, cb>>

\* Mutant of PumpHandsOver: the bytes stay reserved.
PumpHandsOverKeeping ==
    /\ channelUp
    /\ PumpGoes("sending", "select")
    /\ writer' = [writer EXCEPT ![sending] = "handed"]
    /\ sending' = None
    /\ UNCHANGED <<opener, registered, channelUp, waiters, queue, open, pendingBytes,
                   closer, cb>>

\* The server's window took the bytes.
PumpHandsOver ==
    /\ channelUp
    /\ PumpGoes("sending", "select")
    /\ pendingBytes' = pendingBytes - Size[sending]
    /\ writer' = [writer EXCEPT ![sending] = "handed"]
    /\ sending' = None
    /\ UNCHANGED <<opener, registered, channelUp, waiters, queue, open, closer, cb>>

\* Mutant of PumpSendFails: a Data command is tried again for ever.
PumpSendRetries ==
    /\ ~channelUp
    /\ PumpGoes("sending", "select") /\ Size[sending] = 0
    /\ writer' = [writer EXCEPT ![sending] = "failed"]
    /\ sending' = None
    /\ UNCHANGED <<opener, registered, channelUp, waiters, queue, open, pendingBytes,
                   closer, cb>>

\* The channel failed: a Data command ends the pump, Resize and Eof do not.
PumpSendFails ==
    /\ ~channelUp
    /\ PumpGoes("sending", IF Size[sending] > 0 THEN "stopping" ELSE "select")
    /\ pendingBytes' = pendingBytes - Size[sending]
    /\ writer' = [writer EXCEPT ![sending] = "failed"]
    /\ sending' = None
    /\ UNCHANGED <<opener, registered, channelUp, waiters, queue, open, closer, cb>>

PumpTakesClose ==
    /\ queue # <<>> /\ Head(queue) \in Closers
    /\ PumpGoes("select", "closing")
    /\ waiters' = waiters \union {Head(queue)}
    /\ queue' = Tail(queue)
    /\ UNCHANGED <<opener, registered, channelUp, sending, open, pendingBytes,
                   writer, closer, cb>>

\* Mutant of PumpClosesChannel: the close is answered as soon as it was sent.
PumpClosesAndAnswers ==
    /\ PumpGoes("closing", "stopping")
    /\ channelUp' = FALSE
    /\ closer' = [c \in Closers |-> IF c \in waiters THEN "resolved" ELSE closer[c]]
    /\ waiters' = {}
    /\ UNCHANGED <<opener, registered, sending, queue, open, pendingBytes, writer, cb>>

PumpClosesChannel ==
    /\ PumpGoes("closing", "stopping")
    /\ channelUp' = FALSE
    /\ UNCHANGED <<opener, registered, sending, waiters, queue, open, pendingBytes,
                   writer, closer, cb>>

\* channel.wait yields Close or None; it is polled only when no command waits.
PumpSeesEnd ==
    /\ queue = <<>>
    /\ ~channelUp
    /\ PumpGoes("select", "stopping")
    /\ UNCHANGED <<opener, registered, channelUp, sending, waiters, queue, open,
                   pendingBytes, writer, closer, cb>>

PumpMarksClosed ==
    /\ PumpGoes("stopping", "draining")
    /\ open' = FALSE
    /\ UNCHANGED <<opener, registered, channelUp, sending, waiters, queue, pendingBytes,
                   writer, closer, cb>>

\* try_recv: close requests join the waiters, every other command is dropped
\* without giving its bytes back to pendingBytes.
PumpDrains ==
    /\ pump = "draining" /\ queue # <<>>
    /\ IF Head(queue) \in Closers
       THEN waiters' = waiters \union {Head(queue)} /\ UNCHANGED writer
       ELSE writer' = [writer EXCEPT ![Head(queue)] = "lost"] /\ UNCHANGED waiters
    /\ queue' = Tail(queue)
    /\ UNCHANGED <<opener, registered, channelUp, pump, sending, open, pendingBytes,
                   closer, cb>>

PumpDrained ==
    /\ queue = <<>>
    /\ PumpGoes("draining", "unregister")
    /\ UNCHANGED <<opener, registered, channelUp, sending, waiters, queue, open,
                   pendingBytes, writer, closer, cb>>

\* ShellSink::on_closed: unregister, then call the app.  rnssh_shell_write holds
\* the registry entry it looked up (a read lock of its shard) until it returns.
PumpUnregisters ==
    /\ PumpGoes("unregister", "announce")
    /\ \A w \in Writers : writer[w] \notin {"added", "over", "sendable", "undo"}
    /\ registered' = FALSE
    /\ UNCHANGED <<opener, channelUp, sending, waiters, queue, open, pendingBytes,
                   writer, closer, cb>>

PumpAnnounces ==
    /\ PumpGoes("announce", "notify")
    /\ Deliver("closed")
    /\ UNCHANGED <<opener, registered, channelUp, sending, waiters, queue, open,
                   pendingBytes, writer, closer>>

\* Mutant of PumpEnds: the waiters collected so far are forgotten.
PumpEndsSilently ==
    /\ PumpGoes("notify", "done")
    /\ closer' = [c \in Closers |->
                    IF \E i \in 1..Len(queue) : queue[i] = c THEN "resolved" ELSE closer[c]]
    /\ writer' = [w \in Writers |->
                    IF \E i \in 1..Len(queue) : queue[i] = w THEN "lost" ELSE writer[w]]
    /\ waiters' = {}
    /\ queue' = <<>>
    /\ UNCHANGED <<opener, registered, channelUp, sending, open, pendingBytes, cb>>

\* Answer the waiters and end; what was queued after the drain is dropped with
\* the receiver, which resolves the closes among it too.
PumpEnds ==
    /\ PumpGoes("notify", "done")
    /\ closer' = [c \in Closers |->
                    IF c \in waiters \/ \E i \in 1..Len(queue) : queue[i] = c
                    THEN "resolved" ELSE closer[c]]
    /\ writer' = [w \in Writers |->
                    IF \E i \in 1..Len(queue) : queue[i] = w THEN "lost" ELSE writer[w]]
    /\ waiters' = {}
    /\ queue' = <<>>
    /\ UNCHANGED <<opener, registered, channelUp, sending, open, pendingBytes, cb>>

\* The server closes the channel or the transport goes away.
ChannelEnds ==
    /\ channelUp
    /\ channelUp' = FALSE
    /\ UNCHANGED <<opener, registered, pumpVars, queue, open, pendingBytes,
                   writer, closer, cb>>

\* rnssh_shell_is_open
IsOpen == registered /\ open

----------------------------------------------------------------------------
Opener == OpenFails \/ OpenAccepted \/ OpenInserts \/ OpenReports

WriteSteps(w) ==
    \/ WriteChecksOpen(w) \/ WriteQueues(w) \/ WriteBounces(w) \/ WriteUndoes(w)

CloseSteps(c) == CloseQueues(c) \/ CloseFindsNone(c) \/ CloseCompletes(c)

\* Steps of the pump that wait for nobody but itself.
PumpLocal ==
    \/ PumpTakesWrite \/ PumpSendFails \/ PumpTakesClose
    \/ PumpSeesEnd \/ PumpMarksClosed \/ PumpDrains \/ PumpDrained
    \/ PumpUnregisters \/ PumpAnnounces \/ PumpEnds

Next ==
    \/ Opener
    \/ PumpLocal \/ PumpHandsOver \/ PumpClosesChannel
    \/ ChannelEnds
    \/ \E w \in Writers : WriteReserves(w) \/ WriteNotFound(w) \/ WriteSteps(w)
    \/ \E c \in Closers : CloseLooksUp(c) \/ CloseSteps(c)

(***************************************************************************)
(* Fairness: tasks that can run are polled, calls that began go on.        *)
(* Nothing is assumed of the server in Spec: it may stop reading, which    *)
(* leaves the pump in channel.data() or another await of its command       *)
(* branch.  ReadingSpec adds a server that keeps opening its window.       *)
(***************************************************************************)
Fairness ==
    /\ WF_vars(Opener)
    /\ WF_vars(PumpLocal)
    /\ \A w \in Writers : WF_vars(WriteSteps(w))
    /\ \A c \in Closers : WF_vars(CloseFindsNone(c) \/ CloseCompletes(c)) /\ SF_vars(CloseQueues(c))

Spec == Init /\ [][Next]_vars /\ Fairness
ReadingSpec == Spec /\ WF_vars(PumpHandsOver \/ PumpClosesChannel)

----------------------------------------------------------------------------
(* Properties *)

Callers == Writers \union Closers

\* Every variable has its type; pendingBytes never underflows.
TypeOK ==
    /\ opener \in OpenerPC /\ registered \in BOOLEAN /\ channelUp \in BOOLEAN
    /\ pump \in PumpPC /\ sending \in Writers \union {None}
    /\ waiters \in SUBSET Closers
    /\ queue \in Seq(Callers) /\ Len(queue) <= QueueLen
    /\ open \in BOOLEAN /\ pendingBytes \in Nat
    /\ writer \in [Writers -> WriterPC]
    /\ closer \in [Closers -> CloserPC]
    /\ cb \in [{"opened", "failed", "closed"} -> Nat]

In(states) == {w \in Writers : writer[w] \in states}

\* pendingBytes is exactly what the writers reserved and neither undid nor saw
\* handed to the channel: no interleaving of writes, refusals and the pump loses
\* or doubles a reservation (drained bytes stay counted for ever).
PendingExact ==
    pendingBytes = Bytes(In({"added", "over", "sendable", "undo", "queued", "lost"}))

\* However many writers race between fetch_add and the check, the bytes that were
\* accepted and not yet handed over never exceed the limit.
AcceptedCap == Bytes(In({"sendable", "queued"})) <= MaxPending

\* The accounting behind MAX_PENDING_WRITE_BYTES (shell.rs) and backpressure():
\* exact, and no more accepted than the limit.
Accounting == PendingExact /\ AcceptedCap

\* Shell::close resolves once the pump has torn down: a close that was sent, found
\* no receiver, or raced with the drain returns only after on_closed, which is
\* delivered once.  From then on rnssh_shell_is_open is false, even if the pump
\* ended before the opening task put the handle into the registry.
CloseWaits ==
    /\ cb["closed"] <= 1
    /\ \A c \in Closers : closer[c] = "resolved" => cb["closed"] = 1
    /\ cb["closed"] = 1 => ~IsOpen

\* As long as the server reads, every accepted write is settled: handed over,
\* failed, or dropped at the close.
WritesSettle ==
    \A w \in Writers : (writer[w] = "queued") ~> (writer[w] \in {"handed", "failed", "lost"})

\* Every close completes, as long as the server reads: none is stuck behind a
\* full queue, lost in the drain, or left waiting for a pump that ended.
CloseCompletesEventually ==
    \A c \in Closers : (closer[c] # "idle") ~> (closer[c] = "done")

----------------------------------------------------------------------------
(* Statements of comments and docs that the code does not keep *)

\* lib.rs on rnssh_shell_close: on_closed fires before the completion.
ClosedBeforeCompletion ==
    \A c \in Closers : closer[c] = "done" => cb["closed"] = 1

\* lib.rs on rnssh_shell_close: always completes successfully.  Without a server
\* that reads, the pump stays in channel.data() and takes no Close command.
CloseAlwaysCompletes ==
    \A c \in Closers : (closer[c] # "idle") ~> (closer[c] = "done")
=============================================================================
