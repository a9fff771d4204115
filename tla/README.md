# A verification project for react-native-ssh

TLA+ modules, TLC configurations and machine-checked proofs for the core logic of
react-native-ssh: an SSH client for React Native whose engine is Rust (russh on tokio),
reached from JavaScript through a C ABI and C++ Nitro objects.

    tlc -workers 2 -config ConnLifecycle.cfg MCConnLifecycle.tla
    tlapm ConnLifecycleProofs.tla

`PROJECT.json` holds the machine-readable side: every run, the line each definition
translates, the hazards, the mutants (one plausible bug per property, defined beside the
definition it replaces, that makes the property fail) and the theorems.

## 1. Inventory

| Component | Files | State | Operations | Modelled in |
|---|---|---|---|---|
| Registry and connection lifecycle | `rust/rnssh-ffi/src/lib.rs` 36-782 | maps `connecting`, `pending`, `cancelled`, `connections` keyed by id; the two responder slots of a `PendingConn`; the `Arc<ConnEvents>` whose last drop calls `release` | `rnssh_connect` and its task, `_cancel`, `_disconnect`, `_respond_host_key`, `_respond_kbi`, the `ConnectionEvents` bridge | `ConnLifecycle`, `ConnectionContract` |
| Connection core | `rust/rnssh-core/src/connection.rs` 287-490, 586-603 | `connected` flag, the russh session task and its `Handler`, the slots for the host key and for a weak one | `connect`, `connect_inner`, `check_server_key`, `disconnected`, `disconnect` | `ConnLifecycle`, `ConnectInner` |
| Connect deadline | `connection.rs` 242-285, 388-421 | `UserWait` (`completed_ms`, `pending`, `pending_since`), the deadline | `begin`, `end`, `total`, the select loop | `ConnectDeadline` |
| Authentication | `connection.rs` 605-876 | the reply in hand, the round | `authenticate`, `second_factor`, `finish`, the two `keyboard_interactive` loops | `Auth` |
| Algorithm preferences | `connection.rs` 29-123 | none | `preferred_algorithms_with_host_keys` | `ConnectInner` (host keys) |
| exec | `connection.rs` 515-574, `lib.rs` 768-811, `cpp/HybridSshConnection.cpp` 66-123 | output of two streams, its size, the exit code | `exec`, `execText` | `Exec` |
| Keys, host keys | `keys.rs`, `hostkey.rs`, `lib.rs` 1117-1182 | none | generate, inspect, the policy on RSA keys | `Keys` (as functions) |
| Error codes | `error.rs` | none | `From<russh::Error>` | `Errors` |
| Shell input and life | `rust/rnssh-core/src/shell.rs`, `lib.rs` 520-560, 800-945 | command queue, `pending_bytes`, `open`, `close_waiters`, map `shells` | open, write, resize, eof, close, is_open, `pump`, `ShellSink` | `ShellPump` |
| Shell output | `shell.rs` 264-357, 407-440 | early messages, `Coalescer` (batch, kind, window) | `await_reply`, `push`, `tick`, `flush` | `ShellOutput`, `OutputStream` |
| Port forwarding | `rust/rnssh-core/src/forward.rs`, `lib.rs` 960-1114 | `open`, `active`, two `Notify`s, the task set, map `forwards` | open, `accept_loop`, `tunnel`, `close`, is_open, `ForwardSink` | `Forward` |
| C++ bridge | `cpp/*.cpp`, `cpp/RnsshBridge.hpp` | heap contexts, promises | connect, exec, UTF-8 repair; shells and forwards | `AbortableConnect`, `Exec`, `Utf8`; the last two not |
| JavaScript API | `src/index.ts`, `src/errors.ts` | abort listener of `connect()` | `connect()`; wrappers of one call each | `AbortableConnect`; wrappers not |
| Runtime | `runtime.rs` | a shared tokio runtime | none of interest | no |
| Generated bindings, example, test server, scripts | | | | no |

**How they interact.** JavaScript calls C++ objects, which call `rnssh_*` functions with an
id, a `user` pointer and a table of C callbacks. Every such function touches the
process-wide registry and spawns a task on the shared tokio runtime. The core reports
through traits (`ConnectionEvents`, `ShellEvents`, `ForwardEvents`) that `lib.rs` implements
by calling the C callbacks; `release(user)` fires when the last clone of that bridge is
dropped. The registry is a set of concurrent maps: one operation on one map is atomic, no
two are. Commands travel to a shell's pump over a bounded channel and answers come back over
oneshots; a forward is stopped and awaited over two `tokio::sync::Notify`s.

**What is hard, and what makes each part correct.**

* *Lifecycle*: the connect task, the detached session task and overlapping cancels and
  disconnects all read and write the same maps. Correct means: one terminal callback,
  prompts that can be answered, a lost transport reported once, nothing after `release`,
  nothing left behind by a failed attempt.
* *Deadline*: the counter of the user's time is written by another thread than the one that
  reads it. Correct means: a hard ceiling, only the user's time excluded, nobody rushed.
* *Authentication*: a chain of methods driven by a server that may answer anything. Correct
  means: report what the server decided, spend the password only where documented, end.
* *Connect attempt as a whole*: a key refused by policy, a key refused by the user and a
  failed transport meet in one `Result`. Correct means: a pinned key is presented if the
  server still has it, a weak key is never shown, and only the user's no is called so.
* *exec*: output, status, refusal, close and loss come in any order. Correct means: all of
  the output or an error, and a promise that settles; text that is valid UTF-8.
* *connect() of JavaScript*: callbacks come from other threads, some before the call that
  starts the attempt has returned; an abort may come at any time. Correct means: the abort
  reaches this attempt and nothing later, nobody reads freed memory, promises settle.
* *Shell*: writers reserve bytes before they know whether they may; a close may meet a full
  queue, a draining pump or none. Correct means: exact accounting, closes that wait for the
  teardown and complete; output in order, complete, never stuck in a buffer.
* *Forward*: clients, ticks, accept errors and closes meet in one select. Correct means: an
  exact tunnel count under the cap, no lost wake-up, a truthful reason, drained tunnels.

`PROJECT.json` lists the hazards at their lines, each with the properties that cover it.

## 2. The modules

| Module | Role |
|---|---|
| `ConnectionContract` | what one connection id promises the binding: the order of its callbacks and `release` |
| `ConnLifecycle` | one connection id, from `rnssh_connect` to `release`; each registry operation is a step; implements `ConnectionContract` |
| `AbortableConnect` | `connect()` of JavaScript and the C++ below it, built on `ConnectionContract` |
| `ConnectDeadline` | `UserWait` and the loop of `Connection::connect`, with a clock |
| `Auth` | `authenticate()` against an arbitrary server |
| `ConnectInner` | the whole attempt: checks, dial, algorithms, host key, then the steps of `Auth`, which it extends |
| `Keys`, `Errors`, `Utf8` | pure parts: keys and passphrases, error codes, `sanitizeUtf8` with a definition of UTF-8 to compare with |
| `Exec` | one `exec()` or `execText()`, from the lookup to the promise |
| `ShellPump` | opening, commands, queue, pump and teardown of one shell |
| `ShellOutput` | the output path of one shell: setup stash, `Coalescer`, final flush |
| `OutputStream` | what a shell promises about its output; `ShellOutput` implements it |
| `Forward` | one local forward of either flavour (over SSH or plain TCP) |
| `MC...` | constants for TLC, and the pure functions compared with their references |
| `...Proofs` | theorems about the module of that name; `ConnectProofs` about `Auth`, `ConnectInner` and `ConnectDeadline`, the parts of one `Connection::connect` |
| `DataLemmas` | induction over numbers and finite sets, folds over sets and sequences, sums: what the proofs need of data |

How state and actions correspond to the code:

* A program counter per task or call (`task`, `session`, `call`, `loop`, `pump`, `writer`,
  `closer`, `opener`) names the points between two operations that other threads can see:
  map operations, atomics, channel and `Notify` operations, callbacks into the app, awaits.
  Code between two such points is one action.
* Booleans and counters of the code keep their names (`connected`, `open`, `active`,
  `pendingBytes`, `registered` for "the id is in the map").
* `cb` counts the callbacks delivered, which is what the properties speak of.
* `task.abort()` and the deadline drop a future only where it awaits. The session task is
  russh's own and survives both.
* Data is abstracted to what the properties tell apart: a write is its size, a chunk of
  output its stream and size, a challenge the kinds of its prompts, an error its kind.
* A `DashMap` read guard held across a call blocks removal from the same map shard:
  `ShellPump!PumpUnregisters` waits for writes that hold one.

* In `AbortableConnect` the JavaScript thread runs one task at a time and none while it is
  inside `native().connect`; a call of a JavaScript function from a tokio thread becomes a
  task at the end of a queue. This is Nitro's part, modelled as the bridge uses it, and
  marked external. A settled promise is a task too, unless it was settled before it
  was handed to JavaScript.
* A prompt of `AbortableConnect` takes the way of the code: the call itself may throw
  (`OnPrompt`, the `catch`), the outer promise may be rejected or carry no inner one
  (`OuterSettles`), the inner one may be rejected (`InnerSettles`) or resolve with what the
  wrapper of `connect()` made of the app's ending (`Wrapped`). Each listener that answers does
  so by `Responds`; that they answer once, and say yes only for the app's true, is checked and
  not assumed. That Nitro may fail at each of these points is external.
* In `ShellOutput` a pump that has taken a command (`TakesCommand`) is inside an await and polls
  neither the channel nor the deadline of the window until `CommandDone`.
* In `Exec` russh's queue of channel messages is a sequence of which a prefix was heard: what
  the session received before it ended is still read.

`ConnLifecycle` leaves to `ConnectDeadline` when the timeout strikes and to `ConnectInner`
and `Auth` what happens on the wire: it lets the timeout strike at every await, and the
handshake and the authentication end in any way. `AbortableConnect` sees of all this only the
contract. russh, tokio's timers, the clock and the server are external: modelled by what the code
uses of them.

## 3. The runs

| Run | Instance | Shows |
|---|---|---|
| `ConnLifecycle` | 2 app calls (each cancel or disconnect), 2 prompt rounds | refinement of `ConnectionContract` (`Contract`); prompts can be answered (`PromptAnswerable`); every attempt ends (`AttemptTerminates`); failed or disconnected connections are released (`Releases`) |
| `AbortableConnect` | an abort at any time, 2 prompts of each kind | an abort reaches this attempt only (`CancelExact`), no freed context is read (`ContextAlive`), only the app's true lets a host key pass (`OnlyConsentConnects`), the promise settles and every prompt is answered (`ConnectSettles`), once (`TypeOK`) |
| `ConnectInner` | no, one or two preferred names of 5 kinds, every set of server keys, RSA of 1024 or 2048 bits, all methods, with and without handler, the 16 rounds of the code | `PinnedPresented`, `WeakIsPolicy`, `AcceptanceReported`, `PromptsWellAnswered`, `AttemptEnds`; with two assumptions TLC evaluates: that the algorithms offered are the policy's, reordered (`PolicyKept`), and the round trip of generated keys |
| `ConnectDeadline` | timeout 3, longest wait 4, timers up to 1 late, 2 prompts after the host key | `HardCeiling`, `NoOvercount`, `EarlyOnlyAtAnswer`, `ConnectEnds` |
| `Exec` | 3 messages, 4 chunks that split characters, a limit of 4 bytes | `ResultFaithful`, `TextRepaired`, `LossEnds`; with `Sanitize` compared with UTF-8 on every string of up to 4 border bytes |
| `ShellPump` | writes of 3 and 2 bytes under a cap of 4, one resize, 2 closes, a queue of 2 | `Accounting`, `CloseWaits`, `WritesSettle`, `CloseCompletesEventually` |
| `ShellOutput` | 4 chunks, 2 streams, sizes 1, 2 and 5, interactive below 2, limit 4, any number of commands | refinement of `OutputStream` (`StreamKept`), the shape of what is held (`Inv`), `HeldIsDelivered` |
| `Forward` | 3 clients, a cap of 2, 2 closes | `CountExact`, `ReasonTruthful`, `WinnerWaits`, `ClosedLooksClosed`, `CloseCompletesEventually`, `TunnelsDrain`, `LostUpstreamCloses` |
| `ConnCancelLost`, `ConnUnreportedLoss`, `DeadlineRace`, `ExecLostLooksDone` | the smallest that shows it | a statement of a comment the code does not keep, see section 6 |

**Why the bounds are enough.** Two calls are what it takes for two cancels, or a cancel and
a disconnect, to race each other and the task; a third call can only repeat what one of them
did (the theorems remove this bound). Two rounds exercise both a round that leads to another
and the last one. Two writes that do not fit together under the cap, with a queue that two
commands fill, reach refusal by size, by a full queue and by a dead pump; a zero-size command
distinguishes `Resize`/`Eof` from `Data`. Four chunks fill a window, overflow it, change the
stream and start a second window; a size of 5 is larger than the limit by itself. Three clients are one more than the cap. In
`ConnectDeadline` the longest wait exceeds the timeout, so that both can run out first; a
timer up to one unit late makes a prompt possible that begins when the timeout is already
up. `Late` and `MaxPrompts` (16 in the code, after the host key) are the only bounds there
that the code does not have as a number; `MaxChunks` bounds `ShellOutput`.

Two preferred names are what it takes to overlap, to repeat and to disagree with the server;
the names are one per kind of key, an RSA key by two of its names, and one that is unknown.
Three messages of `Exec` are a split character with a status, two streams and a close, or a
signal after a status; four bytes are passed by three chunks of two. The chunks put together
make a valid character, a surrogate and cut sequences; the 16 border bytes are both sides of
every limit of the table of well-formed UTF-8. Two prompts in `AbortableConnect` let one be
open while another is answered; the contract allows more callbacks than the code makes, so that
what holds there holds below.

Deadlock checking is off but in `AbortableConnect`, whose end is a stutter of its own: each
other model is one attempt, one shell or one forward,
which ends, and whose end is a state without a successor. Liveness properties say what must
be reached instead.

**Fairness and why the code justifies it.** Tokio polls a task that is ready, so each task's
own steps are weakly fair. In detail:

* `ConnLifecycle`: the connect task (its timer is a step that is enabled at every await, so
  that a silent server or user cannot stop it), the session's own steps, and calls that have
  begun. Nothing is assumed of the server, the user or the app. `AnsweringSpec` adds a user
  who answers, only for two of the violations, where it makes the claim stronger.
* `ConnectDeadline`: the loop's steps and `begin`/`end`; time passes (strong fairness of
  `Tick`, which the busy loop described in section 6 disables between two of its rounds).
* `ConnectInner` and `Auth`: what is awaited arrives; a silence is the deadline's business.
* `Exec`: the task is polled, and the 30 seconds for the channel pass. Nothing is assumed of
  the server: a command may run for ever. `LossEnds` speaks of a connection that ended.
* `AbortableConnect`: the JavaScript thread goes on with its tasks, and a handler of the app
  ends, well or badly: a connect whose handler never answers is ended by Rust's deadline, not by
  this layer. Nothing is assumed of Rust: `ConnectSettles` starts from a callback it has made.
* `ShellPump`: task steps; a queue slot that becomes free again and again is obtained
  (strong fairness of `CloseQueues`: tokio's bounded channel serves its waiters in order);
  `ReadingSpec` adds a server that keeps reading, so that the awaits of a write and of the
  close inside the select branch return.
* `ShellOutput`: the end of the loop; and the window's tick, strongly: the select is biased and
  polls the deadline first, so it is served when the pump comes back to it again and again,
  however many commands come between. Nothing is assumed of the server: the refinement is
  checked with one that stops reading too. `ReadingSpec` adds that a command returns, because
  the server reads or the channel ends; only `HeldIsDelivered` needs it. Without it the property
  fails (section 6).
* `Forward`: the biased select polls `shutdown` first and the tick second, so both are
  served however many clients connect; aborted tunnels are dropped.

## 4. What is proved

For every value of the constants (any number of calls, clients, writers, rounds and messages;
any timeout, limit, size of a write or a chunk):

| Module | Theorems | Assumptions |
|---|---|---|
| `ConnLifecycleProofs` | `Implements`, `TypeCorrect`, `TerminalOnce`, `ReportXorBye`, `PromptsAnswerable`, `ReleaseFinal` | the cap on rounds is a natural number |
| `ConnectProofs` on `Auth` | `TypeCorrect`, `Reported`, `WellAnswered` | a natural cap |
| `ConnectProofs` on `ConnectInner` | `InnerTypeCorrect`, `InnerReported`, `InnerWellAnswered`, `PolicyIsNotTheUser`, `PolicyStays`, `PinnedIsPresented` | natural cap on rounds; names are records of a base and a flag |
| `ConnectProofs` on `ConnectDeadline` | `DeadlineTypeCorrect`, `CeilingHolds`, `NothingCountedTwice`, `EarlyOnlyThen` | all times are natural numbers |
| `ForwardProofs` | `TypeCorrect`, `CounterExact`, `OneWinnerWaits`, `ReasonIsTrue`, `LooksClosed`, `NothingAfterClosed` | finitely many clients, a natural cap |
| `ShellPumpProofs` | `TypeCorrect`, `AccountsKept`, `ClosesWait`, `NobodyIsLeft` | finitely many writers, none of them a closer; natural sizes and limit; a queue of at least one |
| `ShellOutputProofs` | `CoalescerSound`, `Implements` | chunks are not empty; natural limits |
| `ExecProofs` | `Faithful`, `TextIsRepaired`, `SanitizeRepairs` | chunks are sequences of bytes, statuses and the limit natural numbers |
| `AbortableConnectProofs` | `TypeCorrect`, `AbortExact`, `ContextOutlives`, `ConsentConnects` | at least one prompt |

Every model has one inductive invariant (`IInv`, `DeadlineInv`; theorem `Invariance`), because
none of the properties is inductive:

* `ConnLifecycle`: at most one terminal callback says nothing of who may deliver the next.
  `Arbiter` names the right to do so: it lies in the `connecting` entry, or with the one
  actor that removed it, and while it lies anywhere no terminal callback was delivered.
  `FlagRight` does the same for the `connected` flag and the two parties that swap it, and
  pins down that the flag is stored late. `PromptRight` ties a waiting receiver to its slot.
  `Owed` says that somebody has that right until the callback was made, and `KeyFirst`
  that nothing but a failure goes past an undecided host key.
* `Implements`: the mapping is the identity on `cb`, with `byeSent` for `bye` and the absence
  of every holder of the bridge for `released`. `NextAllowed` shows that each step delivers at
  most one callback, one the contract allows: the two rights above give the terminal callbacks
  and `on_disconnected`, `KeyFirst` the order. `Owed` gives that `release` comes after the
  terminal callback, and `ReleasedStays` that it is the last thing that happens.
* `ConnectDeadline`: `Accounted` equates the user's real time with what `UserWait` has
  counted plus the wait in progress; `Lagging` bounds what a split read of `total()` can
  miss; `Bounded` says a wait never *begins* later than the deadline without it plus the
  lateness of a timer, from which the ceiling follows.
* `Forward`: the counter equals the number of guards (cardinality lemmas of the library);
  `OneWinner`: while the flag is set nobody has won; `Reasoned`: a shutdown permit has a
  close call as its witness; `Shut`: past the loop's store the flag stays down.
* `Auth`: until the end, "the server accepted" and "the reply in hand is a success" are the
  same; each way into the prompts carries what it checked.
* `ConnectInner`: a step of it is a step or a stutter of `Auth` (`StepOfAuth`), so that `Auth`'s
  invariant carries over as it is; `Refusals` relates the slot of weak keys, the decision and
  the error with the phase in which each may be set.

* `ConnectInner`'s lists: `preferred_algorithms_with_host_keys` is two nested loops, folds over
  sequences. `AddNewAdds` says what one name adds, `PolicyStays` that the result holds
  each algorithm of the policy once and the named ones first (`Leads`, `PinnedBy`), for any
  list of names; `FirstCommon` and `PresentedIsPinned` follow it through the negotiation.
  `Negotiation` then only has to say which list and which keys an attempt negotiates with.
* `ShellPump`: the counter of pending bytes equals a *sum* over the writers that hold a
  reservation (`PendingExact`), and the sum over those let past the check is within the cap
  (`AdmittedCap`): a writer between `fetch_add` and the check counts in the first and not in
  the second. `Placed` ties each writer and closer to its one place in the queue, `Kept` says
  that the queue of a pump that is done is empty, `Told` who can know of the pump and what its
  progress says of the callbacks.
* `ShellOutput` implements `OutputStream` with the identity on what was received and
  delivered. `Whole` says that received is delivered, then what is held; that only one of the
  two places holds anything; and which phases may hold. `Windows` says that a held buffer has a
  window that will flush it. `NextMaps` then maps every step to one of the promise or a stutter.
* `Exec`: what a run of messages carries is a fold over them, `OutputNext` unrolls it message by
  message, `OutputGrows` bounds the part by the whole. `Collected` says that the two buffers,
  their size and the exit code are what the messages *taken* carried; `Phases`, that nothing
  follows a close and no refusal was taken while the loop runs; `Answered`, what each answer
  says of the messages. With all of them taken, the properties of the result follow.
* `Sanitize`, on which `TextRepaired` rests, is proved apart from the task: for *every* sequence
  of bytes its result repairs it (`SanitizeRepairs`). `CopiedIsWellFormed` shows that the masks,
  shifts and ranges of the code accept exactly the sequences of the Unicode table, one length at
  a time; `ValidStep` and `AsciiStep` unroll the two recursive definitions it is compared with;
  `ValidJoined`, `AsciiSame` and `ValidCopies` say how they meet what is written in front. Then
  the claim goes through the data from its end.
* `AbortableConnect`: `Prompted` counts each prompt as waiting in the JavaScript queue, held by
  the app, or answered; `Ordered` keeps `onStarted` ahead of the settled promise; `Unheard` says
  what cannot have happened while `rnssh_connect` has not returned; `Passed` says where an abort
  is: ahead, with the listener, or passed on; `Consented` that consent goes from the app to Rust
  to the promise.

**Induction over data.** The library's induction theorems take an operator, which the provers
used cannot instantiate. `DataLemmas` states them for a *set* instead (`SetInduction`,
`FiniteInduction`, from the well-foundedness of `<`), and proves with them that folds exist
(`LeftFoldExists`, `FoldExists`) and that sums do not depend on the order of their elements
(`SumTakesAny`). The folds of the community modules are then unfolded to these. `DownInduction`
and `DownRecursion` do the same from the end of an interval, which is how `Utf8` defines its
scans (`Ascii` is a scan of its own, not a `SelectSeq`, for this reason).

Every safety property a run checks is a theorem. Only model-checked: all liveness
(`AttemptTerminates`, `Releases`, `CloseCompletesEventually`, `TunnelsDrain`,
`LostUpstreamCloses`, `WritesSettle`, `HeldIsDelivered`, `ConnectEnds`, `AttemptEnds`,
`LossEnds`, `ConnectSettles`), since temporal reasoning under fairness is outside the reach of
the prover used; and that the *violations* of section 6 happen, which are TLC's to show.

## 5. What is not modelled, and why

* The bytes of a tunnel and the text of errors and logs: no property is about them.
* Checks of a single argument, such as a bind address, beyond their outcome; `id == 0` from
  `rnssh_connect`, which the bridge provokes with no argument it passes.
* Cryptography and hostname lookup; the lists of key exchanges, ciphers and MACs, which are
  constants; key formats other than the generated one; RSA names such as `rsa-sha2-384`, which
  the code takes for RSA by their prefix.
* The C++ contexts of shells and forwards, and the JavaScript classes around them: planned.
* The process-wide id counter (ids are unique, and two ids share no entry of a map, only
  `DashMap` shards).
* What happens when a C callback itself calls back into `rnssh_*` on the same thread: the
  models let such a call begin at any later point.
* Generated bindings, the example app, scripts, and the test server, which is test
  infrastructure that no part of the library runs.

## 6. Where code and comments disagree

Found while modelling. The first four are runs that show the behaviour. The others are
definitions at the end of their modules that TLC refutes when they take the place of the
property in the configuration named, or, where no definition is named, are visible in the
code itself.

| Statement | What the code does | Definition, run |
|---|---|---|
| `lib.rs` 711-718: a cancel is seen by "a task finishing right now" | the task reads the cancelled set (642) and inserts the connection (658) in two steps; a cancel in between is lost and `on_connected` follows | `CancelHonoured`, run `ConnCancelLost` |
| `connection.rs` 229: `disconnected` is called when the transport goes away after it was established | a loss between the server's acceptance and `connected.store(true)` (479) is reported by nobody | `LossReported`, run `ConnUnreportedLoss` |
| `connection.rs` 22: nobody is rushed, user time is excluded | `total()` reads two atomics; a decision in between is counted in neither, and the attempt times out on the spot | `NobodyRushed`, run `DeadlineRace` |
| `connection.rs` 238, `index.ts` 136: no exit code means that the server closed the channel | a lost connection ends the loop in the same way: `exec()` succeeds with partial output and -1 | `NoStatusMeansServerClosed`, run `ExecLostLooksDone` |
| `lib.rs` 12: `release` is called exactly once | a host key prompt stored after a cancel dropped the senders (722) can be answered by nobody and pins the context | `ReleaseAfterPromptedError`, as a PROPERTY of `ConnCancelLost.cfg` with `AnsweringSpec` |
| `lib.rs` 167: `on_disconnected` is for a loss after `on_connected` | the session task can report a loss before the connect task announces | `DisconnectedAfterConnected`, as an INVARIANT of `ConnUnreportedLoss.cfg` |
| `lib.rs` 163: `on_error` is terminal | the session task may still ask about the host key | `NoPromptAfterError`, as a PROPERTY of `ConnCancelLost.cfg` |
| `lib.rs` 248: forward's `on_closed` fires after a successful open | the accept loop is spawned first and may stop first | `OpenedBeforeClosed`, `Forward.cfg` |
| `lib.rs` 1103: forward's `on_closed` fires before a close completes | only the first of two closes waits | `Forward!ClosedBeforeCompletion`, `Forward.cfg` |
| `forward.rs` 42: `on_closed` fires after the last tunnel finished | `abort_all` does not wait | `ClosedAfterTunnels`, `Forward.cfg` |
| `lib.rs` 927: `on_closed` fires before a close of a shell completes | a close that finds the entry gone completes although `on_closed` is still ahead | `ShellPump!ClosedBeforeCompletion`, `ShellPump.cfg` |
| `lib.rs` 927: a shell's close always completes | a server that stops reading holds the pump inside a select branch | `CloseAlwaysCompletes`, as a PROPERTY of `ShellPump.cfg` with `Spec` |
| `shell.rs` 25, `ARCHITECTURE.md` 193: chunks below 4096 bytes are never held back | one that comes behind a held batch joins it or takes its place, which keeps the order | `InteractiveNeverHeld`, as an INVARIANT of `ShellOutput.cfg` |
| `error.rs` 18: `HostKeyRejected` means that `verifyHostKey` said no | a wrong signature of the server has the same code (106) | `WeakIsPolicy` states it |
| `HybridSshClient.cpp` 81: `rnssh_connect` returns 0 only for NULL | also for an unknown `auth_method` (`lib.rs` 593), which the bridge never passes | |

An attempt that fails before `onStarted` has run leaves a listener on the signal: `cleanup` is
set too late for the `finally` block. A later abort then cancels an id that no longer exists,
which does nothing; `CancelExact` states that a *connected* attempt leaves none.

Three more behaviours are no disagreement but worth knowing. Output the pump holds back stays
held for as long as it awaits a write, a resize, an eof or a close: with a server that stops
reading, that may be for ever, although the output is already there (`HeldIsDelivered` is
violated when `ShellOutput.cfg` takes `Spec` for its SPECIFICATION). A prompt that begins when the
connect timeout is already up makes the loop of `connect()` go round without sleeping until
the prompt is answered (`ConnectDeadline!GoesRound`); the ceiling still holds. And a success
the server sends in reply to the sixteenth round of answers is reported as a failure
(`AcceptanceReported` states this as the only exception).

## 7. Plan

Done, in this order: `ConnLifecycle`, `Forward`, `ShellPump`, `ShellOutput` over
`OutputStream`, `ConnectDeadline` and `Auth`; then `ConnectionContract` with its refinement,
`AbortableConnect` on it, `Exec` with `Utf8` and `Errors`, `ConnectInner` with `Keys`.

Proofs followed in the same order; every safety property a run checks is a theorem.

Next, models: the C++ contexts of shells and forwards over contracts like
`ConnectionContract`, and a connection with its shells and forwards, to say what a lost
transport does to all of them.
