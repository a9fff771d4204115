-------------------------- MODULE AbortableConnect --------------------------
(***************************************************************************)
(* connect() of the JavaScript API with an AbortSignal, and the C++ glue   *)
(* below it, over what rnssh_connect promises (ConnectionContract).        *)
(*                                                                         *)
(* Two actors.  The JavaScript thread runs connect(), then one task at a   *)
(* time; while it is inside native().connect it runs nothing else.  Tokio  *)
(* threads call the callbacks of the contract at any moment after the task *)
(* was spawned, also before rnssh_connect has returned.  Nitro (external)  *)
(* turns a call of a JavaScript function, from any thread, into a task,    *)
(* and a settled native promise into a task too, unless it was settled     *)
(* before it was handed to JavaScript: then `await` goes on without one.   *)
(* A handler of the app that is asked something is called through two      *)
(* promises: the outer one settles when the JavaScript function has        *)
(* returned, and yields the inner one, which is the function's own.        *)
(***************************************************************************)
EXTENDS Naturals, SequencesExt

CONSTANT MaxPrompts    \* bound: prompts of each kind in one attempt
ASSUME MaxPromptsAssumption == MaxPrompts \in Nat \ {0}

VARIABLES
    cb, bye, released,   \* the contract's: ctx is freed when released
    withSignal,          \* options.signal was given
    withKbi,             \* options.onKeyboardInteractive was given
    aborted,             \* signal.aborted
    pc,                  \* where connect() is
    listener,            \* `cancel` listens to the signal
    cleanup,             \* the finally block will remove it
    queue,               \* tasks posted to the JavaScript thread
    promise,             \* the native promise
    asked,               \* inner promises of each kind that are pending
    answers,             \* rnssh_connection_respond_* calls of each kind
    agreed,              \* the app's verifyHostKey has said true
    accepted,            \* rnssh_connection_respond_host_key was told true
    cancels,             \* calls of native().cancelConnect
    dangled              \* a freed ConnectionContext was read

native == <<cb, bye, released>>
vars == <<cb, bye, released, withSignal, withKbi, aborted, pc, listener, cleanup,
          queue, promise, asked, answers, agreed, accepted, cancels, dangled>>
given == <<withSignal, withKbi>>
abort == <<aborted, listener, cleanup, cancels>>
prompts == <<asked, answers, agreed, accepted>>

K == INSTANCE ConnectionContract

Queued(t) == t \in Range(queue)
Posts(t) == queue' = Append(queue, t)

Init ==
    /\ K!Init
    /\ withSignal \in BOOLEAN
    /\ withKbi \in BOOLEAN
    /\ pc = "idle"
    /\ aborted = FALSE
    /\ listener = FALSE
    /\ cleanup = FALSE
    /\ queue = <<>>
    /\ promise = "pending"
    /\ asked = [k \in K!Prompts |-> 0]
    /\ answers = [k \in K!Prompts |-> 0]
    /\ agreed = FALSE
    /\ accepted = FALSE
    /\ cancels = 0
    /\ dangled = FALSE

-----------------------------------------------------------------------------
(* The JavaScript thread, inside connect() *)

\* A KBI connect without a handler, or an aborted signal, throws here.
Throws ==
    /\ pc = "idle"
    /\ aborted \/ ~withKbi
    /\ pc' = "failed"
    /\ UNCHANGED <<native, given, abort, queue, promise, prompts, dangled>>

\* The C++ checks of the options fail: nothing native starts, onStarted is not
\* called.
Refuses ==
    /\ pc = "idle"
    /\ ~aborted
    /\ promise' = "rejected"
    /\ pc' = "failed"
    /\ UNCHANGED <<native, given, abort, queue, prompts, dangled>>

\* rnssh_connect has spawned its task; it owns ctx from here.
EntersNative ==
    /\ pc = "idle"
    /\ ~aborted
    /\ pc' = "native"
    /\ UNCHANGED <<native, given, abort, queue, promise, prompts, dangled>>

\* A promise settled before it reached JavaScript is seen at once.
Awaited ==
    CASE promise = "resolved" -> "connected"
      [] promise = "rejected" -> "failed"
      [] OTHER -> "awaiting"

\* Mutant of LeavesNative: onStarted is called through ctx.
LeavesNativeThroughContext ==
    /\ pc = "native"
    /\ IF withSignal THEN Posts("started") ELSE UNCHANGED queue
    /\ dangled' = (dangled \/ (withSignal /\ released))
    /\ pc' = Awaited
    /\ UNCHANGED <<native, given, abort, promise, prompts>>

\* rnssh_connect returns the id; onStarted is posted, through the bridge's own copy of
\* the handlers: ctx may already be gone.  connect() awaits.
LeavesNative ==
    /\ pc = "native"
    /\ IF withSignal THEN Posts("started") ELSE UNCHANGED queue
    /\ pc' = Awaited
    /\ UNCHANGED <<native, given, abort, promise, prompts, dangled>>

-----------------------------------------------------------------------------
(* The JavaScript thread, between two runs of connect()'s own code *)

Runs(t) ==
    /\ pc # "native"
    /\ queue # <<>>
    /\ Head(queue) = t
    /\ queue' = Tail(queue)
    /\ UNCHANGED <<native, given, promise, dangled>>

\* Mutant: the listener is added without a look at the signal.
StartedUnchecked ==
    /\ listener' = TRUE
    /\ cleanup' = TRUE
    /\ UNCHANGED cancels

\* handlers.onStarted: an abort since the check of connect() is acted on at
\* once, a later one by the listener.
Started ==
    \/ /\ aborted
       /\ cancels' = cancels + 1
       /\ UNCHANGED <<listener, cleanup>>
    \/ /\ ~aborted
       /\ listener' = TRUE
       /\ cleanup' = TRUE
       /\ UNCHANGED cancels

RunsStarted ==
    /\ Runs("started")
    /\ Started
    /\ UNCHANGED <<pc, aborted, prompts>>

Finally ==
    /\ listener' = (listener /\ ~cleanup)
    /\ cleanup' = FALSE

\* The settled promise resumes the await; the finally block runs.
RunsSettled ==
    /\ Runs("settled")
    /\ pc' = Awaited
    /\ Finally
    /\ UNCHANGED <<aborted, cancels, prompts>>

\* Rust is told the reply.  Of a host key, everything but true is a refusal; of a
\* challenge, everything but answers cancels it.
Responds(k, reply) ==
    /\ answers' = [answers EXCEPT ![k] = @ + 1]
    /\ accepted' = (accepted \/ (k = "hostKey" /\ reply = "true"))

\* Mutant of OuterSettles: no return after the answer for a missing inner promise.
OuterFallsThrough(k, outcome) ==
    /\ asked' = IF outcome = "rejected" THEN asked ELSE [asked EXCEPT ![k] = @ + 1]
    /\ \/ outcome = "inner" /\ UNCHANGED <<answers, accepted>>
       \/ outcome \in {"null", "rejected"} /\ Responds(k, "none")

\* The listeners of the outer promise: one listens on to the inner promise, if there is
\* one.  They hold the id and not the context, which may be gone.
OuterSettles(k, outcome) ==
    \/ /\ outcome = "inner"
       /\ asked' = [asked EXCEPT ![k] = @ + 1]
       /\ UNCHANGED <<answers, accepted>>
    \/ /\ outcome \in {"null", "rejected"}
       /\ Responds(k, "none")
       /\ UNCHANGED asked

\* The app's handler is called, unless Nitro fails to call it.
RunsPrompt(k) ==
    /\ Runs(k)
    /\ \E outcome \in {"inner", "null", "rejected"} : OuterSettles(k, outcome)
    /\ UNCHANGED <<pc, abort, agreed>>

\* onDisconnected of the app.
RunsDisconnected ==
    /\ Runs("disconnected")
    /\ UNCHANGED <<pc, abort, prompts>>

-----------------------------------------------------------------------------
(* The app *)

\* signal.abort(): listeners added with `once` run and are gone.
Abort ==
    /\ pc # "native"
    /\ withSignal
    /\ ~aborted
    /\ aborted' = TRUE
    /\ listener' = FALSE
    /\ cancels' = IF listener THEN cancels + 1 ELSE cancels
    /\ UNCHANGED <<native, given, pc, cleanup, queue, promise, prompts, dangled>>

\* How a handler of the app can end; "value" is any other than true.
Endings == {"true", "value", "nothing", "throw"}

\* Mutant of Wrapped: no comparison with true.
WrappedTruthy(k, ending) ==
    CASE k = "hostKey" -> IF ending \in {"true", "value"} THEN "true" ELSE "none"
      [] k = "kbi" -> IF ending = "throw" THEN "nothing" ELSE ending

\* What the inner promise resolves with: connect() wraps the two handlers, so that a
\* throw becomes a false or no value, and only true is true.
Wrapped(k, ending) ==
    CASE k = "hostKey" -> IF ending = "true" THEN "true" ELSE "none"
      [] k = "kbi" -> IF ending = "throw" THEN "nothing" ELSE ending

\* Mutant of InnerSettles: nobody listens to a rejection.
InnerUnheard(k, outcome) ==
    /\ asked' = [asked EXCEPT ![k] = @ - 1]
    /\ IF outcome = "rejected" THEN UNCHANGED <<answers, accepted>> ELSE Responds(k, outcome)

\* The listeners of the inner promise.
InnerSettles(k, outcome) ==
    /\ asked' = [asked EXCEPT ![k] = @ - 1]
    /\ Responds(k, outcome)

\* A handler ends.  The promise is rejected when Nitro cannot convert its value.
AppAnswers(k) ==
    /\ pc # "native"
    /\ asked[k] > 0
    /\ \E ending \in Endings :
          /\ \E outcome \in {Wrapped(k, ending), "rejected"} : InnerSettles(k, outcome)
          /\ agreed' = (agreed \/ (k = "hostKey" /\ ending = "true"))
    /\ UNCHANGED <<native, given, abort, pc, queue, promise, dangled>>

\* conn.disconnect()
AppDisconnects ==
    /\ pc = "connected"
    /\ ~bye
    /\ K!HangsUp
    /\ UNCHANGED <<released, given, abort, pc, queue, promise, prompts, dangled>>

-----------------------------------------------------------------------------
(* Tokio threads: the callbacks of ConnectionContext, one contract step each. *)
(* Each of them reads ctx, and the step may free it when it is done.          *)

Began == pc \in {"native", "awaiting", "connected"} \/ K!Terminals > 0

Callback(k) ==
    /\ Began
    /\ K!Delivers(k)
    /\ released' \in BOOLEAN
    /\ K!Releasing
    /\ dangled' = (dangled \/ released)
    /\ UNCHANGED <<given, abort, pc, agreed>>

\* onHostKey and onKeyboardInteractive: without a handler there is no
\* function pointer, and nobody asks.  The call of the handler posts it as a task; if
\* it throws here and now, the catch answers.
OnPrompt(k) ==
    /\ cb[k] < MaxPrompts
    /\ k = "kbi" => withKbi
    /\ Callback(k)
    /\ \/ Posts(k) /\ UNCHANGED <<answers, accepted>>
       \/ Responds(k, "none") /\ UNCHANGED queue
    /\ UNCHANGED <<promise, asked>>

\* JavaScript learns of it by a task only when it holds the promise already.
Settles(result) ==
    /\ promise = "pending"
    /\ promise' = result
    /\ IF pc = "native" THEN UNCHANGED queue ELSE Posts("settled")

\* Rust gets this far only over a host key that respond_host_key accepted.
OnConnected ==
    /\ accepted
    /\ Callback("connected")
    /\ Settles("resolved")
    /\ UNCHANGED prompts

OnError == Callback("error") /\ Settles("rejected") /\ UNCHANGED prompts

OnDisconnected ==
    /\ Callback("disconnected")
    /\ Posts("disconnected")
    /\ UNCHANGED <<promise, prompts>>

\* The last clone of the bridge goes.
Release ==
    /\ released' = TRUE
    /\ UNCHANGED <<cb, bye, given, abort, pc, queue, promise, prompts, dangled>>
    /\ K!Releasing

-----------------------------------------------------------------------------
JavaScript ==
    \/ LeavesNative
    \/ RunsStarted
    \/ RunsSettled
    \/ \E k \in K!Prompts : RunsPrompt(k)
    \/ RunsDisconnected

Over == pc \in {"connected", "failed"} /\ UNCHANGED vars

Next ==
    \/ Throws
    \/ Refuses
    \/ EntersNative
    \/ JavaScript
    \/ Abort
    \/ \E k \in K!Prompts : AppAnswers(k)
    \/ AppDisconnects
    \/ \E k \in K!Prompts : OnPrompt(k)
    \/ OnConnected
    \/ OnError
    \/ OnDisconnected
    \/ Release
    \/ Over

\* The JavaScript thread goes on with its tasks; a handler of the app ends.
Fairness ==
    /\ WF_vars(JavaScript)
    /\ \A k \in K!Prompts : WF_vars(AppAnswers(k))

Spec == Init /\ [][Next]_vars /\ Fairness

-----------------------------------------------------------------------------
(* Properties *)

Tasks == {"started", "settled", "disconnected"} \union K!Prompts

\* Types; and no prompt is answered, on behalf of the app, more often than it
\* was asked: whichever of the catch and the four listeners of a prompt speaks, the
\* others do not.  A second answer would be taken for the next prompt's.
TypeOK ==
    /\ pc \in {"idle", "native", "awaiting", "connected", "failed"}
    /\ queue \in Seq(Tasks)
    /\ promise \in {"pending", "resolved", "rejected"}
    /\ cancels \in 0..1
    /\ agreed \in BOOLEAN /\ accepted \in BOOLEAN
    /\ \A k \in K!Prompts : asked[k] + answers[k] <= cb[k]
    /\ aborted => withSignal

\* An abort reaches exactly the attempt it is for.  While connect() waits, an
\* abort has been passed on to rnssh_connection_cancel as soon as onStarted has
\* run, whichever came first.  Once connect() has resolved, nothing is left that
\* would cancel on an abort of the same signal: not the listener, and not an
\* onStarted still to run, although another thread settles the promise.
CancelExact ==
    /\ pc = "awaiting" /\ aborted /\ ~Queued("started") => cancels = 1
    /\ pc = "connected" => ~listener /\ ~Queued("started")

\* The ConnectionContext is never read after release() has freed it: not by the
\* JavaScript thread that has just handed it to Rust and calls onStarted when Rust may
\* have failed already, and not by the listener of a prompt the app answers after the
\* attempt is over.
ContextAlive == ~dangled

\* A connection is handed to the app only over a host key its verifyHostKey has said
\* true to: neither another value, a throw, a promise that is missing or rejected, nor
\* a call that fails turns into consent between the app and Rust.
OnlyConsentConnects == promise = "resolved" => agreed

\* connect() settles once Rust has reported how the attempt ended, also when it
\* reported before rnssh_connect returned; and every prompt is answered, whether the
\* call of the app's handler fails, its outer or its inner promise is rejected, or the
\* app ends it with or without a value.
ConnectSettles ==
    /\ K!Terminals = 1 ~> pc \in {"connected", "failed"}
    /\ \A k \in K!Prompts, n \in 1..MaxPrompts : cb[k] = n ~> answers[k] >= n
=============================================================================
