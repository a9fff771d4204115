---------------------------- MODULE ShellOutput ----------------------------
(***************************************************************************)
(* The output side of one shell: what arrives while the server has not     *)
(* accepted the shell yet (early), then the pump's Coalescer, which holds  *)
(* bulk output back for a window and merges it.  The pump is one task:      *)
(* while it carries out a command it polls neither timer nor channel.      *)
(*                                                                         *)
(* A chunk is what one channel message carries: its stream and its size.   *)
(* Time is abstract: the window's deadline may pass at any moment.         *)
(***************************************************************************)
EXTENDS Integers, Sequences, SequencesExt

CONSTANTS
    Kinds,         \* streams: stdout and stderr
    Sizes,         \* sizes of channel messages
    Interactive,   \* INTERACTIVE_CHUNK_BYTES
    MaxCoalesced,  \* MAX_COALESCED_BYTES
    MaxChunks      \* bound on the messages of a run

ASSUME SizesAssumption == Sizes \subseteq Nat \ {0}
ASSUME LimitsAssumption == Interactive \in Nat /\ MaxCoalesced \in Nat /\ MaxChunks \in Nat

Chunk == [kind : Kinds, size : Sizes]

VARIABLES
    windowed,   \* options.coalesce is not zero
    phase,      \* where Shell::start and the pump are
    received,   \* every chunk taken from the channel
    early,      \* chunks await_reply stashed during the setup
    batch,      \* chunks the Coalescer holds back
    window,     \* window_until is Some
    delivered,  \* every chunk handed to on_data
    buffer      \* the chunks the last buffer handed to on_data merges

outVars == <<delivered, buffer>>
vars == <<windowed, phase, received, early, batch, window, outVars>>

\* "pumping" is the pump at its select!, "writing" one of its branches at an await.
Phases == {"setup", "failed", "accepted", "pumping", "writing", "flushing", "closing",
           "closed"}

TotalSize(chunks) == FoldSeq(LAMBDA c, n : c.size + n, 0, chunks)

Init ==
    /\ windowed \in BOOLEAN
    /\ phase = "setup"
    /\ received = <<>> /\ early = <<>> /\ batch = <<>>
    /\ window = FALSE
    /\ delivered = <<>> /\ buffer = <<>>

OnData(chunks) ==
    /\ delivered' = delivered \o chunks
    /\ buffer' = chunks

----------------------------------------------------------------------------
(* Shell::start: await_reply stashes output, then it is delivered at once,   *)
(* message by message, before the pump starts                                *)

StashEarly(c) ==
    /\ phase = "setup"
    /\ Len(received) < MaxChunks
    /\ received' = Append(received, c)
    /\ early' = Append(early, c)
    /\ UNCHANGED <<windowed, phase, batch, window, outVars>>

\* A request was refused, the channel ended, or the deadline passed.
SetupFails ==
    /\ phase = "setup"
    /\ phase' = "failed"
    /\ UNCHANGED <<windowed, received, early, batch, window, outVars>>

DeliverEarly ==
    /\ phase \in {"setup", "accepted"}
    /\ early # <<>>
    /\ phase' = "accepted"
    /\ OnData(<<Head(early)>>)
    /\ early' = Tail(early)
    /\ UNCHANGED <<windowed, received, batch, window>>

StartPump ==
    /\ phase \in {"setup", "accepted"}
    /\ early = <<>>
    /\ phase' = "pumping"
    /\ UNCHANGED <<windowed, received, early, batch, window, outVars>>

----------------------------------------------------------------------------
(* Coalescer::push, called for each Data or ExtendedData message             *)

Receive(c) ==
    /\ phase = "pumping"
    /\ Len(received) < MaxChunks
    /\ received' = Append(received, c)

\* No window configured, or interactive with nothing queued ahead of it.
PushPasses(c) ==
    /\ Receive(c)
    /\ \/ ~windowed
       \/ c.size < Interactive /\ batch = <<>>
    /\ OnData(<<c>>)
    /\ UNCHANGED <<windowed, phase, early, batch, window>>

\* First bulk chunk after a quiet period: deliver it and open the window.
PushOpensWindow(c) ==
    /\ Receive(c)
    /\ windowed
    /\ c.size >= Interactive \/ batch # <<>>
    /\ ~window
    /\ OnData(<<c>>)
    /\ window' = TRUE
    /\ UNCHANGED <<windowed, phase, early, batch>>

\* Another stream, or the merged buffer would grow too large.
Unmergeable(c) ==
    /\ batch # <<>>
    /\ \/ batch[1].kind # c.kind
       \/ TotalSize(batch) + c.size > MaxCoalesced

PushMerges(c) ==
    /\ Receive(c)
    /\ windowed
    /\ c.size >= Interactive \/ batch # <<>>
    /\ window
    /\ ~Unmergeable(c)
    /\ batch' = Append(batch, c)
    /\ UNCHANGED <<windowed, phase, early, window, outVars>>

\* Mutant of PushFlushes: the window is closed with the batch it held.
PushFlushesWindow(c) ==
    /\ Receive(c)
    /\ windowed
    /\ window
    /\ Unmergeable(c)
    /\ OnData(batch)
    /\ batch' = <<c>>
    /\ window' = FALSE
    /\ UNCHANGED <<windowed, phase, early>>

PushFlushes(c) ==
    /\ Receive(c)
    /\ windowed
    /\ window
    /\ Unmergeable(c)
    /\ OnData(batch)
    /\ batch' = <<c>>
    /\ UNCHANGED <<windowed, phase, early, window>>

----------------------------------------------------------------------------
\* Mutant of TickFlushes: a batch of one message waits for a second.
TickFlushesPairs ==
    /\ phase = "pumping" /\ window
    /\ Len(batch) > 1
    /\ OnData(batch)
    /\ batch' = <<>>
    /\ UNCHANGED <<windowed, phase, received, early, window>>

\* The deadline passes: Coalescer::tick.
TickFlushes ==
    /\ phase = "pumping" /\ window
    /\ batch # <<>>
    /\ OnData(batch)
    /\ batch' = <<>>
    /\ UNCHANGED <<windowed, phase, received, early, window>>

TickQuiet ==
    /\ phase = "pumping" /\ window
    /\ batch = <<>>
    /\ window' = FALSE
    /\ UNCHANGED <<windowed, phase, received, early, batch, outVars>>

\* A command of the app: the pump awaits channel.data, window_change, eof or close
\* inside the branch, for as long as the server does not read.
TakesCommand ==
    /\ phase = "pumping"
    /\ phase' = "writing"
    /\ UNCHANGED <<windowed, received, early, batch, window, outVars>>

\* The await returns and the loop goes round.
CommandDone ==
    /\ phase = "writing"
    /\ phase' = "pumping"
    /\ UNCHANGED <<windowed, received, early, batch, window, outVars>>

\* The loop breaks: the channel ended or every handle is gone; a Close was carried
\* out or a write failed.
PumpBreaks ==
    /\ phase \in {"pumping", "writing"}
    /\ phase' = "flushing"
    /\ UNCHANGED <<windowed, received, early, batch, window, outVars>>

\* Mutant of FinalFlush: what is held back is dropped with the pump.
FinalDrop ==
    /\ phase = "flushing"
    /\ phase' = "closing"
    /\ batch' = <<>>
    /\ UNCHANGED <<windowed, received, early, window, outVars>>

\* co.flush before on_closed.
FinalFlush ==
    /\ phase = "flushing"
    /\ phase' = "closing"
    /\ IF batch = <<>> THEN UNCHANGED outVars ELSE OnData(batch)
    /\ batch' = <<>>
    /\ UNCHANGED <<windowed, received, early, window>>

OnClosed ==
    /\ phase = "closing"
    /\ phase' = "closed"
    /\ UNCHANGED <<windowed, received, early, batch, window, outVars>>

----------------------------------------------------------------------------
Push(c) == PushPasses(c) \/ PushOpensWindow(c) \/ PushMerges(c) \/ PushFlushes(c)

Next ==
    \/ \E c \in Chunk : StashEarly(c) \/ Push(c)
    \/ SetupFails \/ DeliverEarly \/ StartPump
    \/ TickFlushes \/ TickQuiet
    \/ TakesCommand \/ CommandDone
    \/ PumpBreaks \/ FinalFlush \/ OnClosed

(***************************************************************************)
(* Fairness: the deadline of an open window passes, and whenever the pump  *)
(* is back at its select! the deadline is polled before any command, so    *)
(* commands cannot keep it off (strong fairness).  A loop that broke runs  *)
(* to its end.  Nothing is assumed of the server in Spec: it may send      *)
(* nothing, and it may stop reading, which leaves the pump inside a        *)
(* command.  ReadingSpec adds a server that keeps reading, or a channel    *)
(* that ends: either way the command returns.                              *)
(***************************************************************************)
Fairness == SF_vars(TickFlushes \/ TickQuiet) /\ WF_vars(FinalFlush \/ OnClosed)
CommandReturns == phase = "writing" /\ (CommandDone \/ PumpBreaks)

Spec == Init /\ [][Next]_vars /\ Fairness
ReadingSpec == Spec /\ WF_vars(CommandReturns)

----------------------------------------------------------------------------
(* Properties *)

\* Every variable has its type.
TypeOK ==
    /\ windowed \in BOOLEAN /\ phase \in Phases
    /\ received \in Seq(Chunk) /\ early \in Seq(Chunk) /\ batch \in Seq(Chunk)
    /\ window \in BOOLEAN
    /\ delivered \in Seq(Chunk) /\ buffer \in Seq(Chunk)

\* A chunk is held back only while a window is open, so that a deadline is
\* pending that will flush it, also when the pump returns from a command.
HeldOnlyInWindow == phase \in {"pumping", "writing"} /\ batch # <<>> => window

\* A merged buffer carries one stream, and stays within the limit unless it is a
\* single message.
BufferShape ==
    \A b \in {batch, buffer} :
        /\ \A i \in 1..Len(b) : b[i].kind = b[1].kind
        /\ Len(b) > 1 => TotalSize(b) <= MaxCoalesced

\* What the Coalescer relies on between two calls.
Inv == TypeOK /\ HeldOnlyInWindow /\ BufferShape

\* The promise of module OutputStream: nothing lost, doubled or reordered, and
\* on_closed last.
Stream == INSTANCE OutputStream WITH closed <- phase = "closed"
StreamKept == Stream!Spec

\* As long as the server reads what the app sends, nothing is held back for ever:
\* what the pump received is delivered, even if no further output comes and however
\* many commands keep the pump from its select!.
HeldIsDelivered == \A n \in 1..MaxChunks :
    (phase \in {"pumping", "writing"} /\ Len(received) >= n) ~> (Len(delivered) >= n)

----------------------------------------------------------------------------
(* A statement of a comment that the code does not keep *)

\* shell.rs on INTERACTIVE_CHUNK_BYTES: smaller chunks are never held back.  One that
\* comes behind a held batch is, so as not to overtake it.
InteractiveNeverHeld == \A i \in 1..Len(batch) : batch[i].size >= Interactive
=============================================================================
