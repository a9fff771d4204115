--------------------------- MODULE ConnLifecycle ---------------------------
(***************************************************************************)
(* One connection id from rnssh_connect to release(user).                  *)
(*                                                                         *)
(* Four kinds of actor share the process-wide registry of rnssh-ffi:       *)
(*   - the connect task rnssh_connect spawns (task);                       *)
(*   - the russh session task, which owns the Handler and therefore a      *)
(*     clone of the ConnEvents bridge (session); it is detached, so        *)
(*     dropping or aborting the connect future does not stop it;           *)
(*   - the app's calls of rnssh_connection_cancel and                      *)
(*     rnssh_connection_disconnect, which may overlap (call);              *)
(*   - the app's answers to prompts.                                       *)
(* Each registry operation is a step of its own: DashMap makes one         *)
(* operation atomic, never two.  task.abort() takes effect only where the  *)
(* task awaits.                                                            *)
(***************************************************************************)
EXTENDS Integers, FiniteSets

CONSTANTS
    Calls,      \* app calls of cancel / disconnect on this id, one step machine each
    KbiRounds   \* rounds of keyboard-interactive prompts (16 in the code)

ASSUME KbiRoundsAssumption == KbiRounds \in Nat

VARIABLES
    handlers,   \* the prompts whose callback pointer is not NULL
    reg,        \* the registry maps that hold this id
    slots,      \* the PendingConn fields that hold a responder
    rx,         \* what the receiver of each prompt has got
    task,       \* program counter of the connect task
    local,      \* its result, still_wanted, cancel_raced, and prompts answered
    aborted,    \* task.abort() was called
    session,    \* program counter of the russh session task
    connected,  \* the AtomicBool shared by Handler and Connection
    byeSent,    \* an app-side handle.disconnect() reached the session
    call,       \* program counter of each app call
    cb          \* how often each callback was delivered

appVars  == <<call, aborted>>
taskVars == <<task, local>>
wireVars == <<session, connected, byeSent>>
regVars  == <<reg, slots, rx>>
vars == <<handlers, regVars, taskVars, wireVars, appVars, cb>>

Maps      == {"connecting", "pending", "cancelled", "connections"}
Prompts   == {"hostKey", "kbi"}
Callbacks == Prompts \union {"connected", "error", "disconnected"}

----------------------------------------------------------------------------
(* Program counters *)

\* Suspended inside Connection::connect: where a timeout or an abort bites.
Awaiting == {"dial", "handshake", "auth", "kbiWait"}
TaskPC == Awaiting \union
          {"idle", "kbiStored", "authed", "returned", "unlisted", "claimed",
           "decide", "byeSwap", "byeSend", "raceError", "announce", "done"}

SessionPC == {"none", "kex", "keyStored", "parked", "up",
              "ending", "reporting", "announcing", "gone"}

\* A cancel that removed the connecting entry owns the terminal callback.
CancelOwns == {"claimed", "unflagged", "reporting"}
\* A spawned task that took the connections entry, until it drops it.
Evicting   == {"cancelEvicted", "evicted", "byeSwap", "byeSend", "byeDrop"}
CallPC == CancelOwns \union Evicting \union
          {"idle", "flagged", "dropping", "missed", "noEntry", "done"}

----------------------------------------------------------------------------
(* Who keeps what alive *)

\* Some Arc<ConnEvents> is alive: in the registry, in the connect task, in the
\* Handler the session task owns, or in an app call that took it from a map.
EventsHeld ==
    \/ reg \intersect {"connecting", "connections"} # {}
    \/ task \notin {"idle", "done"}
    \/ session \notin {"none", "gone"}
    \/ \E c \in Calls : call[c] \in CancelOwns \union Evicting \union {"dropping"}

\* The last clone is dropped: UserPtr::drop has called release(user).
Released == task # "idle" /\ ~EventsHeld

\* Some russh Handle is alive: in the connect future, in its Ok result, in the
\* registry entry or in the task that took the entry.
HandleHeld ==
    \/ task \in {"handshake", "auth", "kbiStored", "kbiWait", "authed"}
    \/ local.result = "ok" /\ task \notin {"announce", "done"}
    \/ "connections" \in reg
    \/ \E c \in Calls : call[c] \in Evicting

----------------------------------------------------------------------------
Init ==
    /\ handlers \in SUBSET Prompts
    /\ reg = {} /\ slots = {}
    /\ rx = [p \in Prompts |-> "none"]
    /\ task = "idle"
    /\ local = [result |-> "none", wanted |-> FALSE, raced |-> FALSE, rounds |-> 0]
    /\ aborted = FALSE
    /\ session = "none" /\ connected = FALSE /\ byeSent = FALSE
    /\ call = [c \in Calls |-> "idle"]
    /\ cb = [k \in Callbacks |-> 0]

Deliver(name) == cb' = [cb EXCEPT ![name] = @ + 1]

\* oneshot::Sender::send, or its drop: the sender leaves the slot, and a
\* receiver that still waits gets the outcome.
Resolve(prompts, outcome) ==
    /\ slots' = slots \ prompts
    /\ rx' = [p \in Prompts |->
                IF p \in prompts \intersect slots /\ rx[p] = "waiting"
                THEN outcome ELSE rx[p]]

\* The sender is stored under the slot's lock before the app is called.
Store(p) ==
    /\ slots' = slots \union {p}
    /\ rx' = [rx EXCEPT ![p] = "waiting"]

----------------------------------------------------------------------------
(* rnssh_connect.  The app learns the id only when it returns, so that      *)
(* registering, spawning and storing the task handle are one step here.     *)

\* Mutant of Connect: the PendingConn is never listed.
ConnectUnlisted ==
    /\ task = "idle"
    /\ reg' = reg \union {"connecting"}
    /\ task' = "dial"
    /\ UNCHANGED <<handlers, slots, rx, local, wireVars, appVars, cb>>

Connect ==
    /\ task = "idle"
    /\ reg' = reg \union {"pending", "connecting"}
    /\ task' = "dial"
    /\ UNCHANGED <<handlers, slots, rx, local, wireVars, appVars, cb>>

----------------------------------------------------------------------------
(* The connect task, inside Connection::connect *)

\* The task is polled while suspended at pc.
Polled(pc) == task = pc /\ ~aborted

\* connect() returns, dropping its future with the receiver of an open prompt.
Return(r) ==
    /\ task' = "returned"
    /\ local' = [local EXCEPT !.result = r]
    /\ rx' = [rx EXCEPT !["kbi"] = "none"]

\* TCP connected and identification exchanged: russh spawns the session task.
DialOk ==
    /\ Polled("dial")
    /\ task' = "handshake"
    /\ session' = "kex"
    /\ UNCHANGED <<handlers, regVars, local, connected, byeSent, appVars, cb>>

\* client::connect returns once the first key exchange is over.
HandshakeOk ==
    /\ Polled("handshake")
    /\ session = "up"
    /\ task' = "auth"
    /\ UNCHANGED <<handlers, regVars, local, wireVars, appVars, cb>>

\* The server accepts.  The answer to the last prompt of the cap is not looked at.
AuthOk ==
    /\ Polled("auth")
    /\ session = "up"
    /\ local.rounds < KbiRounds
    /\ task' = "authed"
    /\ UNCHANGED <<handlers, regVars, local, wireVars, appVars, cb>>

\* Mutant of KbiStore: the rounds are not counted against the cap.
KbiStoreUncapped ==
    /\ Polled("auth")
    /\ session = "up"
    /\ "kbi" \in handlers
    /\ Store("kbi")
    /\ task' = "kbiStored"
    /\ UNCHANGED <<handlers, reg, local, wireVars, appVars, cb>>

\* ConnEvents::keyboard_interactive stores the sender ...
KbiStore ==
    /\ Polled("auth")
    /\ session = "up"
    /\ "kbi" \in handlers
    /\ local.rounds < KbiRounds
    /\ Store("kbi")
    /\ task' = "kbiStored"
    /\ UNCHANGED <<handlers, reg, local, wireVars, appVars, cb>>

\* ... then calls the app, and the task awaits the receiver.
KbiCall ==
    /\ task = "kbiStored"
    /\ Deliver("kbi")
    /\ task' = "kbiWait"
    /\ UNCHANGED <<handlers, regVars, local, wireVars, appVars>>

KbiAnswered ==
    /\ Polled("kbiWait")
    /\ rx["kbi"] = "answer"
    /\ rx' = [rx EXCEPT !["kbi"] = "none"]
    /\ local' = [local EXCEPT !.rounds = @ + 1]
    /\ task' = "auth"
    /\ UNCHANGED <<handlers, reg, slots, wireVars, appVars, cb>>

\* connect() fails: bad arguments, dial, rejected key, refused authentication,
\* rounds used up, refused prompt, a session that went away.
ConnectFails ==
    /\ \/ Polled("dial")
       \/ Polled("handshake") /\ session \in {"ending", "gone"}
       \/ Polled("auth")
       \/ Polled("kbiWait") /\ rx["kbi"] = "refuse"
    /\ Return("err")
    /\ UNCHANGED <<handlers, reg, slots, wireVars, appVars, cb>>

\* Mutant of ConnectTimeout: the deadline covers the dial only.
ConnectTimeoutDialOnly ==
    /\ Polled("dial")
    /\ Return("err")
    /\ UNCHANGED <<handlers, reg, slots, wireVars, appVars, cb>>

\* The deadline of Connection::connect.  The session task is not told.
ConnectTimeout ==
    /\ \E pc \in Awaiting : Polled(pc)
    /\ Return("err")
    /\ UNCHANGED <<handlers, reg, slots, wireVars, appVars, cb>>

\* connected.store(true) and Ok(Connection), with no await after the reply.
ConnectStores ==
    /\ task = "authed"
    /\ connected' = TRUE
    /\ Return("ok")
    /\ UNCHANGED <<handlers, reg, slots, session, byeSent, appVars, cb>>

\* An aborted task is dropped where it awaits, in handle.disconnect's await too.
TaskAborted ==
    /\ aborted
    /\ task \in Awaiting \union {"byeSend"}
    /\ task' = "done"
    /\ rx' = [rx EXCEPT !["kbi"] = "none"]
    /\ UNCHANGED <<handlers, reg, slots, local, wireVars, appVars, cb>>

----------------------------------------------------------------------------
(* The connect task, after Connection::connect returned *)

TaskUnlists ==
    /\ task = "returned"
    /\ reg' = reg \ {"pending"}
    /\ task' = "unlisted"
    /\ UNCHANGED <<handlers, slots, rx, local, wireVars, appVars, cb>>

\* Mutant of TaskClaims: the task takes itself for wanted.
TaskClaimsBlindly ==
    /\ task = "unlisted"
    /\ local' = [local EXCEPT !.wanted = TRUE]
    /\ reg' = reg \ {"connecting"}
    /\ task' = "claimed"
    /\ UNCHANGED <<handlers, slots, rx, wireVars, appVars, cb>>

TaskClaims ==
    /\ task = "unlisted"
    /\ local' = [local EXCEPT !.wanted = "connecting" \in reg]
    /\ reg' = reg \ {"connecting"}
    /\ task' = "claimed"
    /\ UNCHANGED <<handlers, slots, rx, wireVars, appVars, cb>>

TaskReadsCancel ==
    /\ task = "claimed"
    /\ local' = [local EXCEPT !.raced = "cancelled" \in reg]
    /\ reg' = reg \ {"cancelled"}
    /\ task' = "decide"
    /\ UNCHANGED <<handlers, slots, rx, wireVars, appVars, cb>>

\* A cancel took the callback or raced in: make sure nothing stays open.
TaskGivesUp ==
    /\ task = "decide"
    /\ ~local.wanted \/ local.raced
    /\ local.result = "ok"
    /\ task' = "byeSwap"
    /\ UNCHANGED <<handlers, regVars, local, wireVars, appVars, cb>>

TaskUnwanted ==
    /\ task = "decide"
    /\ ~local.wanted
    /\ local.result = "err"
    /\ task' = "done"
    /\ UNCHANGED <<handlers, regVars, local, wireVars, appVars, cb>>

\* Mutant of TaskInserts: an established connection is kept although cancelled.
TaskInsertsUnwanted ==
    /\ task = "decide"
    /\ local.result = "ok"
    /\ reg' = reg \union {"connections"}
    /\ task' = "announce"
    /\ UNCHANGED <<handlers, slots, rx, local, wireVars, appVars, cb>>

TaskInserts ==
    /\ task = "decide"
    /\ local.wanted /\ ~local.raced
    /\ local.result = "ok"
    /\ reg' = reg \union {"connections"}
    /\ task' = "announce"
    /\ UNCHANGED <<handlers, slots, rx, local, wireVars, appVars, cb>>

TaskAnnounces ==
    /\ task = "announce"
    /\ Deliver("connected")
    /\ task' = "done"
    /\ UNCHANGED <<handlers, regVars, local, wireVars, appVars>>

TaskFails ==
    /\ \/ task = "decide" /\ local.wanted /\ local.result = "err"
       \/ task = "raceError"
    /\ Deliver("error")
    /\ task' = "done"
    /\ UNCHANGED <<handlers, regVars, local, wireVars, appVars>>

\* Connection::disconnect: whoever swaps the flag from true says good-bye.
AfterBye == IF local.wanted THEN "raceError" ELSE "done"

TaskByeSwap ==
    /\ task = "byeSwap"
    /\ connected' = FALSE
    /\ task' = IF connected THEN "byeSend" ELSE AfterBye
    /\ UNCHANGED <<handlers, regVars, local, session, byeSent, appVars, cb>>

TaskByeSend ==
    /\ task = "byeSend"
    /\ byeSent' = TRUE
    /\ task' = AfterBye
    /\ UNCHANGED <<handlers, regVars, local, session, connected, appVars, cb>>

----------------------------------------------------------------------------
(* The russh session task and its Handler *)

SessionGoes(from, to) == session = from /\ session' = to

\* check_server_key: an RSA key below the policy is refused unseen, and without
\* an on_host_key callback the answer is no; both end the session.
KeyRefusedUnseen ==
    /\ SessionGoes("kex", "ending")
    /\ UNCHANGED <<handlers, regVars, taskVars, connected, byeSent, appVars, cb>>

\* verify_host_key stores the sender ...
KeyStore ==
    /\ "hostKey" \in handlers
    /\ SessionGoes("kex", "keyStored")
    /\ Store("hostKey")
    /\ UNCHANGED <<handlers, reg, taskVars, connected, byeSent, appVars, cb>>

\* ... then calls the app, and the session task parks on the receiver.
KeyCall ==
    /\ SessionGoes("keyStored", "parked")
    /\ Deliver("hostKey")
    /\ UNCHANGED <<handlers, regVars, taskVars, connected, byeSent, appVars>>

KeyDecided ==
    /\ session = "parked"
    /\ rx["hostKey"] \in {"answer", "refuse"}
    /\ session' = IF rx["hostKey"] = "answer" THEN "up" ELSE "ending"
    /\ rx' = [rx EXCEPT !["hostKey"] = "none"]
    /\ UNCHANGED <<handlers, reg, slots, taskVars, connected, byeSent, appVars, cb>>

\* The transport fails, or the server disconnects, or a keepalive goes unanswered.
TransportLost ==
    /\ \/ SessionGoes("kex", "ending")
       \/ SessionGoes("up", "ending")
    /\ UNCHANGED <<handlers, regVars, taskVars, connected, byeSent, appVars, cb>>

\* The session processes our disconnect, or sees that every Handle is gone.
SessionDismissed ==
    /\ byeSent \/ ~HandleHeld
    /\ SessionGoes("up", "ending")
    /\ UNCHANGED <<handlers, regVars, taskVars, connected, byeSent, appVars, cb>>

\* Handler::disconnected reports only if the flag was still true.
SessionSwap ==
    /\ session = "ending"
    /\ session' = IF connected THEN "reporting" ELSE "gone"
    /\ connected' = FALSE
    /\ UNCHANGED <<handlers, regVars, taskVars, byeSent, appVars, cb>>

\* ConnEvents::disconnected unregisters first, ...
SessionUnregisters ==
    /\ SessionGoes("reporting", "announcing")
    /\ reg' = reg \ {"connections", "pending"}
    /\ UNCHANGED <<handlers, slots, rx, taskVars, connected, byeSent, appVars, cb>>

\* ... then tells the app; the session task ends and drops the Handler.
SessionReports ==
    /\ SessionGoes("announcing", "gone")
    /\ Deliver("disconnected")
    /\ UNCHANGED <<handlers, regVars, taskVars, connected, byeSent, appVars>>

----------------------------------------------------------------------------
(* rnssh_connection_cancel *)

CallGoes(c, from, to) == call[c] = from /\ call' = [call EXCEPT ![c] = to]

CancelFlags(c) ==
    /\ task # "idle"
    /\ CallGoes(c, "idle", "flagged")
    /\ reg' = reg \union {"cancelled"}
    /\ UNCHANGED <<handlers, slots, rx, taskVars, wireVars, aborted, cb>>

CancelClaims(c) ==
    /\ CallGoes(c, "flagged", IF "connecting" \in reg THEN "claimed" ELSE "missed")
    /\ reg' = reg \ {"connecting"}
    /\ UNCHANGED <<handlers, slots, rx, taskVars, wireVars, aborted, cb>>

CancelUnflags(c) ==
    /\ CallGoes(c, "claimed", "unflagged")
    /\ reg' = reg \ {"cancelled"}
    /\ UNCHANGED <<handlers, slots, rx, taskVars, wireVars, aborted, cb>>

\* Take the PendingConn if it is still listed, drop its senders, abort the task.
CancelUnblocks(c) ==
    /\ CallGoes(c, "unflagged", "reporting")
    /\ reg' = reg \ {"pending"}
    /\ IF "pending" \in reg
       THEN Resolve(Prompts, "refuse") /\ aborted' = TRUE
       ELSE UNCHANGED <<slots, rx, aborted>>
    /\ UNCHANGED <<handlers, taskVars, wireVars, cb>>

CancelReports(c) ==
    /\ CallGoes(c, "reporting", "dropping")
    /\ Deliver("error")
    /\ UNCHANGED <<handlers, regVars, taskVars, wireVars, aborted>>

CancelDrops(c) ==
    /\ CallGoes(c, "dropping", "done")
    /\ UNCHANGED <<handlers, regVars, taskVars, wireVars, aborted, cb>>

\* No longer connecting: take the established entry, if there is one yet.
CancelEvicts(c) ==
    /\ CallGoes(c, "missed", IF "connections" \in reg THEN "cancelEvicted" ELSE "done")
    /\ reg' = reg \ {"connections"}
    /\ UNCHANGED <<handlers, slots, rx, taskVars, wireVars, aborted, cb>>

CancelSpawnsBye(c) ==
    /\ CallGoes(c, "cancelEvicted", "byeSwap")
    /\ reg' = reg \ {"cancelled"}
    /\ UNCHANGED <<handlers, slots, rx, taskVars, wireVars, aborted, cb>>

(* rnssh_connection_disconnect: a method of the object on_connected creates *)

DisconnectEvicts(c) ==
    /\ cb["connected"] > 0
    /\ CallGoes(c, "idle", IF "connections" \in reg THEN "evicted" ELSE "noEntry")
    /\ reg' = reg \ {"connections"}
    /\ UNCHANGED <<handlers, slots, rx, taskVars, wireVars, aborted, cb>>

DisconnectUnlists(c) ==
    /\ \/ CallGoes(c, "evicted", "byeSwap")
       \/ CallGoes(c, "noEntry", "done")
    /\ reg' = reg \ {"pending"}
    /\ UNCHANGED <<handlers, slots, rx, taskVars, wireVars, aborted, cb>>

(* The task either call spawns: Connection::disconnect, then drop the entry *)

ByeSwap(c) ==
    /\ CallGoes(c, "byeSwap", IF connected THEN "byeSend" ELSE "byeDrop")
    /\ connected' = FALSE
    /\ UNCHANGED <<handlers, regVars, taskVars, session, byeSent, aborted, cb>>

ByeSend(c) ==
    /\ CallGoes(c, "byeSend", "byeDrop")
    /\ byeSent' = TRUE
    /\ UNCHANGED <<handlers, regVars, taskVars, session, connected, aborted, cb>>

ByeDrop(c) ==
    /\ CallGoes(c, "byeDrop", "done")
    /\ UNCHANGED <<handlers, regVars, taskVars, wireVars, aborted, cb>>

----------------------------------------------------------------------------
(* rnssh_connection_respond_host_key and _respond_kbi: the app answers a    *)
(* prompt it was shown; an answer whose id is no longer listed is ignored.  *)

Respond(p) ==
    /\ cb[p] > 0
    /\ "pending" \in reg
    /\ p \in slots
    /\ \E outcome \in {"answer", "refuse"} : Resolve({p}, outcome)
    /\ UNCHANGED <<handlers, reg, taskVars, wireVars, appVars, cb>>

----------------------------------------------------------------------------
ConnectTask ==
    \/ DialOk \/ HandshakeOk \/ AuthOk \/ KbiStore \/ KbiCall \/ KbiAnswered
    \/ ConnectFails \/ ConnectTimeout \/ ConnectStores \/ TaskAborted
    \/ TaskUnlists \/ TaskClaims \/ TaskReadsCancel \/ TaskGivesUp \/ TaskUnwanted
    \/ TaskInserts \/ TaskAnnounces \/ TaskFails \/ TaskByeSwap \/ TaskByeSend

SessionTask ==
    \/ KeyRefusedUnseen \/ KeyStore \/ KeyCall \/ KeyDecided \/ TransportLost
    \/ SessionDismissed \/ SessionSwap \/ SessionUnregisters \/ SessionReports

\* The steps of a call that has begun.
CallSteps(c) ==
    \/ CancelClaims(c) \/ CancelUnflags(c) \/ CancelUnblocks(c) \/ CancelReports(c)
    \/ CancelDrops(c) \/ CancelEvicts(c) \/ CancelSpawnsBye(c)
    \/ DisconnectUnlists(c) \/ ByeSwap(c) \/ ByeSend(c) \/ ByeDrop(c)

AppCall(c) == CancelFlags(c) \/ DisconnectEvicts(c) \/ CallSteps(c)

Next ==
    \/ Connect
    \/ ConnectTask
    \/ SessionTask
    \/ \E c \in Calls : AppCall(c)
    \/ \E p \in Prompts : Respond(p)

(***************************************************************************)
(* Fairness: the tokio runtime polls what is ready, so each task's own     *)
(* steps happen; the timer of connect() fires (ConnectTimeout is a step of *)
(* ConnectTask that is enabled at every await); russh reads its channel of *)
(* messages.  Nothing is assumed of the server, the user or the app: the   *)
(* key exchange may stall, a prompt may stay unanswered.                   *)
(***************************************************************************)
SessionLocal ==
    \/ KeyCall \/ KeyDecided \/ SessionDismissed
    \/ SessionSwap \/ SessionUnregisters \/ SessionReports

Fairness ==
    /\ WF_vars(ConnectTask)
    /\ WF_vars(SessionLocal)
    /\ \A c \in Calls : WF_vars(CallSteps(c))

Spec == Init /\ [][Next]_vars /\ Fairness

\* An app that also answers every prompt as soon as it may.
AnsweringSpec == Spec /\ \A p \in Prompts : WF_vars(Respond(p))

----------------------------------------------------------------------------
(* Properties *)

\* Every variable has its type (the counters of callbacks are naturals).
TypeOK ==
    /\ handlers \in SUBSET Prompts
    /\ reg \in SUBSET Maps
    /\ slots \in SUBSET Prompts
    /\ rx \in [Prompts -> {"none", "waiting", "answer", "refuse"}]
    /\ task \in TaskPC
    /\ local \in [result : {"none", "ok", "err"}, wanted : BOOLEAN,
                  raced : BOOLEAN, rounds : 0..KbiRounds]
    /\ aborted \in BOOLEAN
    /\ session \in SessionPC
    /\ connected \in BOOLEAN
    /\ byeSent \in BOOLEAN
    /\ call \in [Calls -> CallPC]
    /\ cb \in [Callbacks -> Nat]

\* on_connected and on_error are the terminal callbacks of an attempt: however
\* cancels, timeouts, aborts and the connect task interleave, at most one of the
\* two is delivered, once (removing the connecting entry is the arbiter).
OneTerminal == cb["connected"] + cb["error"] <= 1

\* The app's good-bye and the report of a lost transport exclude each other:
\* on_disconnected is not called for an app-initiated disconnect, and is called
\* at most once (both swap the same flag).
NoReportForAppDisconnect ==
    /\ cb["disconnected"] <= 1
    /\ byeSent => cb["disconnected"] = 0

\* release(user) is the last callback and happens once: no callback is delivered
\* after the last clone of the bridge is dropped, and no clone appears again.
ReleaseIsFinal == [][Released => Released' /\ cb' = cb]_vars

C == INSTANCE ConnectionContract WITH bye <- byeSent, released <- Released

\* The whole protocol of registry, tasks and session keeps the promises made to
\* the binding: the three properties above, no release before the terminal
\* callback, nothing asked or reported before the host key was decided on.
Contract == C!Spec

\* While connect() runs and no cancel has claimed it, a prompt the session or
\* the task waits on can be answered: the id is listed and the slot holds the
\* sender, so that respond_host_key and respond_kbi reach the waiter.
PromptAnswerable ==
    \A p \in Prompts :
        /\ rx[p] = "waiting"
        /\ "connecting" \in reg
        /\ task \in Awaiting \union {"kbiStored"}
        => "pending" \in reg /\ p \in slots

\* Every attempt ends with on_connected or on_error, whatever the server and
\* the user do: the timer, the abort and the cancel cover every await.
AttemptTerminates == (task # "idle") ~> (cb["connected"] + cb["error"] > 0)

\* An attempt that failed leaves no transport behind: a session that came up is
\* dismissed, and the context is released, unless the key exchange or the
\* host key prompt is still holding the session task.
FailureReleases ==
    (cb["error"] > 0 /\ session \notin {"kex", "keyStored", "parked"}) ~> Released

\* After on_connected, the app's disconnect always leads to release(user), even
\* if the transport was lost before, during or after the registration.
DisconnectReleases ==
    (cb["connected"] > 0 /\ \E c \in Calls : call[c] \in {"evicted", "noEntry"})
        ~> Released

\* Neither a failed attempt nor a disconnected connection leaks its context.
Releases == FailureReleases /\ DisconnectReleases

----------------------------------------------------------------------------
(* Statements of comments and docs that the code does not keep *)

\* lib.rs: a cancel flags first so that a task finishing right now sees it, and
\* the attempt ends with on_error(CANCELLED) or is disconnected.  So a cancel
\* that returned is never followed by on_connected.
CancelHonoured ==
    [][cb'["connected"] > cb["connected"] =>
         \A c \in Calls : call[c] # "done"]_vars

\* lib.rs: on_disconnected is for a transport dropped after on_connected.
DisconnectedAfterConnected == cb["disconnected"] > 0 => cb["connected"] > 0

\* connection.rs: disconnected is called once when the transport goes away for
\* any reason after the connection was established, unless the app hung up.
LossReported ==
    (cb["connected"] > 0 /\ session = "gone")
        ~> (cb["disconnected"] > 0 \/ \E c \in Calls : call[c] # "idle")

\* lib.rs: on_error is terminal and release follows immediately.
NoPromptAfterError ==
    [][cb["error"] > 0 => \A p \in Prompts : cb'[p] = cb[p]]_vars

\* lib.rs: Rust calls release(user) exactly once.  With an app that answers
\* every prompt, a prompt shown while the attempt fails must not pin it.
ReleaseAfterPromptedError == (cb["error"] > 0 /\ cb["hostKey"] > 0) ~> Released
=============================================================================
