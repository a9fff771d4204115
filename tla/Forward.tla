------------------------------ MODULE Forward ------------------------------
(***************************************************************************)
(* One local port forward, from rnssh_forward_local / rnssh_forward_tcp to *)
(* release(user): the opening task of the FFI layer, the accept loop of    *)
(* the core, one task per tunnelled connection, and the app's calls of     *)
(* rnssh_forward_close.                                                    *)
(*                                                                         *)
(* A tokio Notify is a permit (notify_one with nobody waiting stores one). *)
(* notify_waiters adds nothing to the notify_one that follows it in both   *)
(* places of this code, so that the pair is one step that leaves a permit. *)
(***************************************************************************)
EXTENDS Integers, FiniteSets

CONSTANTS
    Peers,           \* local TCP clients, each connects at most once
    Closers,         \* app calls of rnssh_forward_close
    MaxConnections   \* options.max_connections

ASSUME PeersAssumption == IsFiniteSet(Peers)
ASSUME CapAssumption == MaxConnections \in Nat

VARIABLES
    ssh,         \* the upstream is an SSH connection (else plain TCP)
    upstreamUp,  \* the SSH handle is not closed
    opener,      \* program counter of the task rnssh_forward_* spawns
    registered,  \* the id is in registry.forwards
    open,        \* the AtomicBool shared by the loop and the handles
    loop,        \* program counter of accept_loop
    reason,      \* why the loop stopped: "none" stands for the app
    tunnel,      \* state of each peer's connection
    aborting,    \* abort_all has run
    active,      \* the counter of live tunnels
    shutdown,    \* permit of the Notify that stops the loop
    finished,    \* permit of the Notify that a closer awaits
    closer,      \* program counter of each close call
    cb           \* callbacks delivered: opened, failed, closed

openVars  == <<opener, registered>>
loopVars  == <<loop, reason>>
tunVars   == <<tunnel, aborting, active>>
noteVars  == <<shutdown, finished>>
vars == <<ssh, upstreamUp, openVars, open, loopVars, tunVars, noteVars, closer, cb>>

OpenerPC == {"start", "bound", "inserted", "done"}
LoopPC == {"none", "select", "counting", "stopping", "unlisten", "aborting",
           "unregister", "announce", "notify", "done"}
CloserPC == {"idle", "found", "won", "waiting", "woken", "late", "done"}
\* "counted": accept_loop made the Counted guard; "live": the tunnel's task owns it.
TunnelPC == {"new", "backlog", "counted", "live", "refused", "over"}

Guarded == {p \in Peers : tunnel[p] \in {"counted", "live"}}

Deliver(name) == cb' = [cb EXCEPT ![name] = @ + 1]

Init ==
    /\ ssh \in BOOLEAN
    /\ upstreamUp = TRUE
    /\ opener = "start" /\ registered = FALSE
    /\ open = TRUE
    /\ loop = "none" /\ reason = "none"
    /\ tunnel = [p \in Peers |-> "new"]
    /\ aborting = FALSE /\ active = 0
    /\ shutdown = FALSE /\ finished = FALSE
    /\ closer = [c \in Closers |-> "idle"]
    /\ cb = [k \in {"opened", "failed", "closed"} |-> 0]

----------------------------------------------------------------------------
(* The opening task *)

\* No such connection, a bind address that is not loopback, no remote host or
\* port, a port in use.
OpenFails ==
    /\ opener = "start"
    /\ Deliver("failed")
    /\ opener' = "done"
    /\ UNCHANGED <<ssh, upstreamUp, registered, open, loopVars, tunVars, noteVars, closer>>

\* start_with binds and spawns accept_loop before it returns the handle.
OpenBinds ==
    /\ opener = "start"
    /\ opener' = "bound"
    /\ loop' = "select"
    /\ UNCHANGED <<ssh, upstreamUp, registered, open, reason, tunVars,
                   noteVars, closer, cb>>

OpenInserts ==
    /\ opener = "bound"
    /\ registered' = TRUE
    /\ opener' = "inserted"
    /\ UNCHANGED <<ssh, upstreamUp, open, loopVars, tunVars, noteVars, closer, cb>>

OpenReports ==
    /\ opener = "inserted"
    /\ Deliver("opened")
    /\ opener' = "done"
    /\ UNCHANGED <<ssh, upstreamUp, registered, open, loopVars, tunVars, noteVars, closer>>

----------------------------------------------------------------------------
(* accept_loop: a biased select of the shutdown permit, the liveness tick    *)
(* and the listener                                                          *)

LoopGoes(from, to) == loop = from /\ loop' = to

LoopShutdown ==
    /\ shutdown
    /\ shutdown' = FALSE
    /\ LoopGoes("select", "stopping")
    /\ UNCHANGED <<ssh, upstreamUp, openVars, open, reason, tunVars,
                   finished, closer, cb>>

\* Mutant of LoopLiveness: the transport is looked at only between tunnels.
LoopLivenessIdle ==
    /\ ~shutdown
    /\ ssh /\ ~upstreamUp
    /\ Guarded = {}
    /\ reason' = "upstream"
    /\ LoopGoes("select", "stopping")
    /\ UNCHANGED <<ssh, upstreamUp, openVars, open, tunVars, noteVars, closer, cb>>

\* The tick, once a second and at once the first time, finds the transport gone.
LoopLiveness ==
    /\ ~shutdown
    /\ ssh /\ ~upstreamUp
    /\ reason' = "upstream"
    /\ LoopGoes("select", "stopping")
    /\ UNCHANGED <<ssh, upstreamUp, openVars, open, tunVars, noteVars, closer, cb>>

\* Mutant of LoopAcceptError: the loop breaks without a reason.
LoopAcceptErrorSilent ==
    /\ ~shutdown
    /\ LoopGoes("select", "stopping")
    /\ UNCHANGED <<ssh, upstreamUp, openVars, open, reason, tunVars, noteVars, closer, cb>>

LoopAcceptError ==
    /\ ~shutdown
    /\ reason' = "listener"
    /\ LoopGoes("select", "stopping")
    /\ UNCHANGED <<ssh, upstreamUp, openVars, open, tunVars, noteVars, closer, cb>>

\* At the cap the socket is dropped and the loop goes on.
LoopRefuses(p) ==
    /\ ~shutdown
    /\ loop = "select"
    /\ tunnel[p] = "backlog"
    /\ active >= MaxConnections
    /\ tunnel' = [tunnel EXCEPT ![p] = "refused"]
    /\ UNCHANGED <<ssh, upstreamUp, openVars, open, loopVars, aborting, active,
                   noteVars, closer, cb>>

\* Mutant of LoopAccepts: one tunnel more than the cap.
LoopAcceptsOneMore(p) ==
    /\ ~shutdown
    /\ LoopGoes("select", "counting")
    /\ tunnel[p] = "backlog"
    /\ active <= MaxConnections
    /\ tunnel' = [tunnel EXCEPT ![p] = "counted"]
    /\ active' = active + 1
    /\ UNCHANGED <<ssh, upstreamUp, openVars, open, reason, aborting, noteVars, closer, cb>>

\* Below the cap Counted::new adds to the count just read, which no other task
\* raises ...
LoopAccepts(p) ==
    /\ ~shutdown
    /\ LoopGoes("select", "counting")
    /\ tunnel[p] = "backlog"
    /\ active < MaxConnections
    /\ tunnel' = [tunnel EXCEPT ![p] = "counted"]
    /\ active' = active + 1
    /\ UNCHANGED <<ssh, upstreamUp, openVars, open, reason, aborting, noteVars, closer, cb>>

\* ... and the tunnel's task takes the guard over.
LoopSpawns(p) ==
    /\ LoopGoes("counting", "select")
    /\ tunnel[p] = "counted"
    /\ tunnel' = [tunnel EXCEPT ![p] = "live"]
    /\ UNCHANGED <<ssh, upstreamUp, openVars, open, reason, aborting, active,
                   noteVars, closer, cb>>

\* Mutant of LoopStops: only a close call clears the flag.
LoopStopsOpen ==
    /\ LoopGoes("stopping", "unlisten")
    /\ UNCHANGED <<ssh, upstreamUp, openVars, open, reason, tunVars, noteVars, closer, cb>>

LoopStops ==
    /\ LoopGoes("stopping", "unlisten")
    /\ open' = FALSE
    /\ UNCHANGED <<ssh, upstreamUp, openVars, reason, tunVars, noteVars, closer, cb>>

\* drop(listener): the sockets nobody accepted are reset.
LoopUnlistens ==
    /\ LoopGoes("unlisten", "aborting")
    /\ tunnel' = [p \in Peers |-> IF tunnel[p] = "backlog" THEN "refused" ELSE tunnel[p]]
    /\ UNCHANGED <<ssh, upstreamUp, openVars, open, reason, aborting, active,
                   noteVars, closer, cb>>

\* Mutant of LoopAborts: the tunnels are left running.
LoopAbortsNone ==
    /\ LoopGoes("aborting", "unregister")
    /\ UNCHANGED <<ssh, upstreamUp, openVars, open, reason, tunVars, noteVars, closer, cb>>

\* Mutant of LoopAborts: the counter is reset although the guards still live.
LoopAbortsResets ==
    /\ LoopGoes("aborting", "unregister")
    /\ aborting' = TRUE
    /\ active' = 0
    /\ UNCHANGED <<ssh, upstreamUp, openVars, open, reason, tunnel, noteVars, closer, cb>>

\* abort_all asks every tunnel to stop; it does not wait for them.
LoopAborts ==
    /\ LoopGoes("aborting", "unregister")
    /\ aborting' = TRUE
    /\ UNCHANGED <<ssh, upstreamUp, openVars, open, reason, tunnel, active,
                   noteVars, closer, cb>>

\* ForwardSink::on_closed: unregister, then call the app.
LoopUnregisters ==
    /\ LoopGoes("unregister", "announce")
    /\ registered' = FALSE
    /\ UNCHANGED <<ssh, upstreamUp, opener, open, reason, tunVars, noteVars,
                   closer, cb>>

LoopAnnounces ==
    /\ LoopGoes("announce", "notify")
    /\ Deliver("closed")
    /\ UNCHANGED <<ssh, upstreamUp, openVars, open, reason, tunVars, noteVars,
                   closer>>

LoopNotifies ==
    /\ LoopGoes("notify", "done")
    /\ finished' = TRUE
    /\ UNCHANGED <<ssh, upstreamUp, openVars, open, reason, tunVars, shutdown,
                   closer, cb>>

----------------------------------------------------------------------------
(* Local clients, the upstream, and the tunnels *)

PeerConnects(p) ==
    /\ tunnel[p] = "new"
    /\ loop \in {"select", "counting", "stopping", "unlisten"}
    /\ tunnel' = [tunnel EXCEPT ![p] = "backlog"]
    /\ UNCHANGED <<ssh, upstreamUp, openVars, open, loopVars, aborting, active,
                   noteVars, closer, cb>>

UpstreamDies ==
    /\ ssh /\ upstreamUp
    /\ upstreamUp' = FALSE
    /\ UNCHANGED <<ssh, openVars, open, loopVars, tunVars, noteVars, closer, cb>>

\* The tunnel ends: upstream refused, copied to the end, failed, or dropped at
\* an await because it was aborted.  Either way its guard is dropped.
TunnelEnds(p) ==
    /\ tunnel[p] = "live"
    /\ tunnel' = [tunnel EXCEPT ![p] = "over"]
    /\ active' = active - 1
    /\ UNCHANGED <<ssh, upstreamUp, openVars, open, loopVars, aborting, noteVars, closer, cb>>

----------------------------------------------------------------------------
(* rnssh_forward_close.  The app has the handle from on_opened.              *)

CloserGoes(c, from, to) == closer[c] = from /\ closer' = [closer EXCEPT ![c] = to]

CloseLooksUp(c) ==
    /\ cb["opened"] > 0
    /\ CloserGoes(c, "idle", IF registered THEN "found" ELSE "late")
    /\ UNCHANGED <<ssh, upstreamUp, openVars, open, loopVars, tunVars, noteVars, cb>>

\* Mutant of CloseSwaps: every call takes itself for the first.
CloseSwapsBlind(c) ==
    /\ CloserGoes(c, "found", "won")
    /\ open' = FALSE
    /\ UNCHANGED <<ssh, upstreamUp, openVars, loopVars, tunVars, noteVars, cb>>

\* LocalForward::close: only the call that swaps the flag from true waits.
CloseSwaps(c) ==
    /\ CloserGoes(c, "found", IF open THEN "won" ELSE "late")
    /\ open' = FALSE
    /\ UNCHANGED <<ssh, upstreamUp, openVars, loopVars, tunVars, noteVars, cb>>

\* Mutant of CloseNotifies: notify_waiters alone, which leaves no permit.
CloseNotifiesNoPermit(c) ==
    /\ CloserGoes(c, "won", "waiting")
    /\ shutdown' = (shutdown \/ loop = "select")
    /\ UNCHANGED <<ssh, upstreamUp, openVars, open, loopVars, tunVars, finished, cb>>

CloseNotifies(c) ==
    /\ CloserGoes(c, "won", "waiting")
    /\ shutdown' = TRUE
    /\ UNCHANGED <<ssh, upstreamUp, openVars, open, loopVars, tunVars, finished, cb>>

CloseWakes(c) ==
    /\ finished
    /\ CloserGoes(c, "waiting", "woken")
    /\ finished' = FALSE
    /\ UNCHANGED <<ssh, upstreamUp, openVars, open, loopVars, tunVars, shutdown, cb>>

CloseCompletes(c) ==
    /\ CloserGoes(c, "woken", "done") \/ CloserGoes(c, "late", "done")
    /\ UNCHANGED <<ssh, upstreamUp, openVars, open, loopVars, tunVars, noteVars, cb>>

\* rnssh_forward_is_open
IsOpen == registered /\ open

----------------------------------------------------------------------------
Opener == OpenFails \/ OpenBinds \/ OpenInserts \/ OpenReports

LoopTeardown ==
    \/ LoopStops \/ LoopUnlistens \/ LoopAborts \/ LoopUnregisters
    \/ LoopAnnounces \/ LoopNotifies

AcceptLoop ==
    \/ LoopShutdown \/ LoopLiveness \/ LoopAcceptError \/ LoopTeardown
    \/ \E p \in Peers : LoopRefuses(p) \/ LoopAccepts(p) \/ LoopSpawns(p)

CloseSteps(c) == CloseSwaps(c) \/ CloseNotifies(c) \/ CloseWakes(c) \/ CloseCompletes(c)

Next ==
    \/ Opener
    \/ AcceptLoop
    \/ \E p \in Peers : PeerConnects(p) \/ TunnelEnds(p)
    \/ UpstreamDies
    \/ \E c \in Closers : CloseLooksUp(c) \/ CloseSteps(c)

(***************************************************************************)
(* Fairness: tasks that can run are polled.  The loop's biased select polls*)
(* shutdown first and the tick second, so both are served however many     *)
(* clients connect; accept errors are not assumed.  A tunnel may pipe for  *)
(* ever, but an aborted one is dropped.                                    *)
(***************************************************************************)
Fairness ==
    /\ WF_vars(Opener)
    /\ WF_vars(LoopShutdown)
    /\ WF_vars(LoopLiveness)
    /\ WF_vars(\E p \in Peers : LoopSpawns(p))
    /\ WF_vars(LoopTeardown)
    /\ \A p \in Peers : WF_vars(aborting /\ TunnelEnds(p))
    /\ \A c \in Closers : WF_vars(CloseSteps(c))

Spec == Init /\ [][Next]_vars /\ Fairness

----------------------------------------------------------------------------
(* Properties *)

\* Every variable has its type.
TypeOK ==
    /\ ssh \in BOOLEAN /\ upstreamUp \in BOOLEAN
    /\ opener \in OpenerPC /\ registered \in BOOLEAN
    /\ open \in BOOLEAN
    /\ loop \in LoopPC
    /\ reason \in {"none", "upstream", "listener"}
    /\ tunnel \in [Peers -> TunnelPC]
    /\ aborting \in BOOLEAN /\ active \in Nat
    /\ shutdown \in BOOLEAN /\ finished \in BOOLEAN
    /\ closer \in [Closers -> CloserPC]
    /\ cb \in [{"opened", "failed", "closed"} -> Nat]

\* The counter is exactly the number of guards alive, through refusals, normal
\* ends and aborts, and never exceeds the cap the loop checks before counting.
CountExact ==
    /\ active = Cardinality(Guarded)
    /\ active <= MaxConnections

\* on_closed is delivered at most once, and gives no reason (an app-initiated
\* close) only if some close call won the flag.
ReasonTruthful ==
    /\ cb["closed"] <= 1
    /\ cb["closed"] = 1 /\ reason = "none" =>
         \E c \in Closers : closer[c] \in {"waiting", "woken", "done"}

\* Of all overlapping close calls one at most stops the forward, and it is woken
\* only after on_closed was delivered.
WinnerWaits ==
    /\ \A c, d \in Closers :
         closer[c] \in {"won", "waiting", "woken"} /\ closer[d] \in {"won", "waiting", "woken"}
           => c = d
    /\ \A c \in Closers : closer[c] = "woken" => cb["closed"] = 1

\* A forward that is closed looks closed: once on_closed was delivered, and once
\* any close call has completed, rnssh_forward_is_open is false for good, even
\* when the loop ended, and removed the id, before the opening task put the
\* handle into the registry, where it then stays.
ClosedLooksClosed ==
    cb["closed"] = 1 \/ (\E c \in Closers : closer[c] = "done") => ~IsOpen

\* No tunnel starts once on_closed was delivered.
NoTunnelAfterClosed == [][cb["closed"] = 1 => Guarded' \subseteq Guarded]_vars

\* Every close call completes, whatever clients and upstream do: no wake-up is
\* lost between the loop's select, the flag and the two Notifys.
CloseCompletesEventually ==
    \A c \in Closers : (closer[c] # "idle") ~> (closer[c] = "done")

\* A stopped forward drains: after on_closed the counter reaches zero and stays.
TunnelsDrain == (cb["closed"] = 1) ~> [](active = 0)

\* A forward over a lost SSH connection closes by itself.
LostUpstreamCloses == (loop = "select" /\ ssh /\ ~upstreamUp) ~> (cb["closed"] = 1)

----------------------------------------------------------------------------
(* Statements of comments and docs that the code does not keep *)

\* lib.rs on rnssh_forward_close: "on_closed fires before" the completion.
ClosedBeforeCompletion ==
    \A c \in Closers : closer[c] = "done" => cb["closed"] = 1

\* forward.rs on ForwardEvents: on_closed fires after the last tunnelled
\* connection finished.
ClosedAfterTunnels == cb["closed"] = 1 => active = 0

\* lib.rs on RnsshForwardCallbacks: on_closed fires after a successful open.
OpenedBeforeClosed == cb["closed"] = 1 => cb["opened"] = 1
=============================================================================
