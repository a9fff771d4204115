-------------------------- MODULE ConnectDeadline --------------------------
(***************************************************************************)
(* The deadline of Connection::connect and the time given to the user.     *)
(*                                                                         *)
(* UserWait counts how long the attempt has been parked on a decision.     *)
(* The host key is asked for by the session task, on another thread, so    *)
(* that its begin and end interleave with the reads of total(); prompts of *)
(* keyboard-interactive are asked for by the connect future itself, which  *)
(* the loop polls, so that theirs do not.                                  *)
(*                                                                         *)
(* Time is a count of milliseconds from the start of the attempt.  Code    *)
(* takes no time; only waiting does.                                       *)
(***************************************************************************)
EXTENDS Integers

CONSTANTS
    Timeout,     \* options.connect_timeout
    MaxWait,     \* MAX_USER_DECISION_WAIT
    Late,        \* how late the runtime may poll a timer that is due
    MaxPrompts   \* bound on the keyboard-interactive prompts of a run

ASSUME TimesAssumption == Timeout \in Nat /\ MaxWait \in Nat /\ Late \in Nat
ASSUME PromptsAssumption == MaxPrompts \in Nat

VARIABLES
    now,        \* the clock
    completed,  \* UserWait.completed_ms
    pending,    \* UserWait.pending
    since,      \* UserWait.pending_since, Never for None
    loop,       \* program counter of the loop in connect()
    deadline,   \* the instant it sleeps until
    total,      \* UserWait::total, as far as it was read
    hostKey,    \* the session task in check_server_key
    answered,   \* when the user decided on the host key
    prompts,    \* keyboard-interactive prompts shown so far
    prompting,  \* one of them is open
    userTime    \* how long the user really was asked

waitVars == <<completed, pending, since>>
loopVars == <<loop, deadline, total>>
keyVars  == <<hostKey, answered>>
kbiVars  == <<prompts, prompting>>
deadlineVars == <<now, waitVars, loopVars, keyVars, kbiVars, userTime>>

Never == -1
LoopPC == {"arm", "armTotal", "sleeping", "woken", "wokenTotal", "check",
           "returned", "timeout"}
HostKeyPC == {"unseen", "begun", "asking", "ending", "decided"}
Ended == loop \in {"returned", "timeout"}

AtMost(n, limit) == IF n <= limit THEN n ELSE limit

DeadlineInit ==
    /\ now = 0
    /\ completed = 0 /\ pending = FALSE /\ since = Never
    /\ loop = "arm" /\ deadline = 0 /\ total = 0
    /\ hostKey = "unseen" /\ answered = Never
    /\ prompts = 0 /\ prompting = FALSE
    /\ userTime = 0

----------------------------------------------------------------------------
(* UserWait *)

\* Mutant of AddWaited: the wait is measured backwards.
AddWaitedBackwards ==
    /\ completed' = completed + (IF since = Never THEN 0 ELSE since - now)
    /\ since' = Never

\* end(): the flag was cleared before; now the time since begin() is added.
AddWaited ==
    /\ completed' = completed + (IF since = Never THEN 0 ELSE now - since)
    /\ since' = Never

----------------------------------------------------------------------------
(* The loop of connect() *)

LoopGoes(from, to) == loop = from /\ loop' = to

\* total() reads what completed waits add up to ...
ReadsCompleted ==
    /\ LoopGoes("arm", "armTotal") \/ LoopGoes("woken", "wokenTotal")
    /\ total' = completed
    /\ UNCHANGED <<now, waitVars, deadline, keyVars, kbiVars, userTime>>

\* ... then adds the wait in progress, if the flag says there is one.
WithPending == total + (IF pending /\ since # Never THEN now - since ELSE 0)

\* Mutant of Arms: the user's time is not capped.
ArmsUncapped ==
    /\ LoopGoes("armTotal", "sleeping")
    /\ total' = WithPending
    /\ deadline' = Timeout + WithPending
    /\ UNCHANGED <<now, waitVars, keyVars, kbiVars, userTime>>

Arms ==
    /\ LoopGoes("armTotal", "sleeping")
    /\ total' = WithPending
    /\ deadline' = Timeout + AtMost(WithPending, MaxWait)
    /\ UNCHANGED <<now, waitVars, keyVars, kbiVars, userTime>>

TimerFires ==
    /\ now >= deadline
    /\ LoopGoes("sleeping", "woken")
    /\ UNCHANGED <<now, waitVars, deadline, total, keyVars, kbiVars, userTime>>

ReadsPending ==
    /\ LoopGoes("wokenTotal", "check")
    /\ total' = WithPending
    /\ UNCHANGED <<now, waitVars, deadline, keyVars, kbiVars, userTime>>

\* Mutant of StillWaiting: an open prompt always waits on.
StillWaitingForever == pending \/ now < Timeout + AtMost(total, MaxWait)

\* Mutant of StillWaiting: a deadline that moved while it slept is not looked at.
StillWaitingOnlyPending == pending /\ total < MaxWait

\* Still parked on the user, or the deadline moved while it slept.
StillWaiting ==
    \/ pending /\ total < MaxWait
    \/ now < Timeout + AtMost(total, MaxWait)

Continues ==
    /\ StillWaiting
    /\ LoopGoes("check", "arm")
    /\ UNCHANGED <<now, waitVars, deadline, total, keyVars, kbiVars, userTime>>

TimesOut ==
    /\ ~StillWaiting
    /\ LoopGoes("check", "timeout")
    /\ UNCHANGED <<now, waitVars, deadline, total, keyVars, kbiVars, userTime>>

\* connect_inner is done: connected, or any error of its own.
FutureReturns ==
    /\ ~prompting /\ hostKey \in {"unseen", "decided"}
    /\ LoopGoes("sleeping", "returned")
    /\ UNCHANGED <<now, waitVars, deadline, total, keyVars, kbiVars, userTime>>

----------------------------------------------------------------------------
(* check_server_key on the session task *)

HostKeyGoes(from, to) == hostKey = from /\ hostKey' = to

\* The session task may also get here after the attempt ended, when nobody reads
\* UserWait any more.
HostKeyBegins ==
    /\ ~Ended
    /\ HostKeyGoes("unseen", "begun")
    /\ since' = now
    /\ UNCHANGED <<now, completed, pending, loopVars, answered, kbiVars, userTime>>

HostKeyAsks ==
    /\ HostKeyGoes("begun", "asking")
    /\ pending' = TRUE
    /\ UNCHANGED <<now, completed, since, loopVars, answered, kbiVars, userTime>>

\* Mutant of HostKeyAnswered: the wait is counted before the flag is cleared.
HostKeyAnsweredCounting ==
    /\ HostKeyGoes("asking", "ending")
    /\ completed' = completed + now - since
    /\ answered' = now
    /\ UNCHANGED <<now, since, pending, loopVars, kbiVars, userTime>>

\* The user decides (or the sender is dropped), and end() clears the flag ...
HostKeyAnswered ==
    /\ HostKeyGoes("asking", "ending")
    /\ pending' = FALSE
    /\ answered' = now
    /\ UNCHANGED <<now, completed, since, loopVars, kbiVars, userTime>>

\* ... before it counts the wait.
HostKeyCounts ==
    /\ HostKeyGoes("ending", "decided")
    /\ AddWaited
    /\ UNCHANGED <<now, pending, loopVars, answered, kbiVars, userTime>>

----------------------------------------------------------------------------
(* keyboard_interactive_via_events, polled by the loop's select *)

KbiBegins ==
    /\ loop = "sleeping"
    /\ hostKey = "decided"
    /\ ~prompting /\ prompts < MaxPrompts
    /\ since' = now /\ pending' = TRUE
    /\ prompting' = TRUE /\ prompts' = prompts + 1
    /\ UNCHANGED <<now, completed, loopVars, keyVars, userTime>>

KbiEnds ==
    /\ loop = "sleeping"
    /\ prompting
    /\ AddWaited /\ pending' = FALSE
    /\ prompting' = FALSE
    /\ UNCHANGED <<now, loopVars, keyVars, prompts, userTime>>

----------------------------------------------------------------------------
\* A prompt that began when the timeout was already up keeps the loop going round
\* without sleeping until it is answered or MaxWait is reached.
GoesRound == pending /\ completed + now - since < MaxWait

\* A millisecond passes while everybody waits: the loop for its timer, which may
\* be polled late, and the session task, if it is there, for the user.
Tick ==
    /\ loop = "sleeping"
    /\ now < deadline + Late \/ GoesRound
    /\ hostKey \notin {"begun", "ending"}
    /\ now' = now + 1
    /\ userTime' = userTime + (IF hostKey = "asking" \/ prompting THEN 1 ELSE 0)
    /\ UNCHANGED <<waitVars, loopVars, keyVars, kbiVars>>

----------------------------------------------------------------------------
LoopSteps ==
    \/ ReadsCompleted \/ Arms \/ TimerFires \/ ReadsPending \/ Continues \/ TimesOut

UserWaitSteps ==
    \/ HostKeyBegins \/ HostKeyAsks \/ HostKeyAnswered \/ HostKeyCounts
    \/ KbiBegins \/ KbiEnds

DeadlineNext == LoopSteps \/ FutureReturns \/ UserWaitSteps \/ Tick

(***************************************************************************)
(* Fairness: the loop's task is polled and time passes, also while a       *)
(* prompt that began after the deadline makes the loop go round without    *)
(* sleeping.  begin() and end() run to their end.  The user may never      *)
(* answer, the server never go on.                                         *)
(***************************************************************************)
Fairness ==
    /\ WF_deadlineVars(LoopSteps) /\ SF_deadlineVars(Tick)
    /\ WF_deadlineVars(HostKeyAsks) /\ WF_deadlineVars(HostKeyCounts)

DeadlineSpec == DeadlineInit /\ [][DeadlineNext]_deadlineVars /\ Fairness

----------------------------------------------------------------------------
(* Properties *)

\* Every variable has its type.
DeadlineTypeOK ==
    /\ now \in Nat /\ completed \in Nat /\ pending \in BOOLEAN
    /\ since \in Nat \union {Never}
    /\ loop \in LoopPC /\ deadline \in Nat /\ total \in Nat
    /\ hostKey \in HostKeyPC /\ answered \in Nat \union {Never}
    /\ prompts \in 0..MaxPrompts /\ prompting \in BOOLEAN
    /\ userTime \in Nat

\* The ceiling of connection.rs holds whatever the user and the server do: no
\* attempt is still open after its timeout plus the longest wait for the user.
HardCeiling == now <= Timeout + MaxWait + Late

\* Only time the user really was asked moves the deadline: reads that interleave
\* with begin() and end() never count a wait twice or go on counting.
NoOvercount == loop = "sleeping" => deadline <= Timeout + AtMost(userTime, MaxWait)

\* An attempt times out early, with part of the user's time not excluded, only if
\* the host key was decided at that very instant.
EarlyOnlyAtAnswer ==
    loop = "timeout" /\ now < Timeout + AtMost(userTime, MaxWait) => answered = now

\* connect() ends, even if the user never answers and the server falls silent.
ConnectEnds == <>Ended

----------------------------------------------------------------------------
(* A statement of a comment that the code does not keep *)

\* connection.rs: user wait time is excluded from the timeout, so that nobody is
\* rushed into trusting a fingerprint.
NobodyRushed == loop = "timeout" => now >= Timeout + AtMost(userTime, MaxWait)
=============================================================================
