-------------------------- MODULE ShellPumpProofs --------------------------
(***************************************************************************)
(* Proofs about ShellPump, for any writers, closers and sizes, any limit   *)
(* and any length of the queue.                                            *)
(***************************************************************************)
EXTENDS ShellPump, DataLemmas, SequenceTheorems

Reserved == {"added", "over", "sendable", "undo", "queued", "lost"}
Admitted == {"added", "sendable", "queued"}

Queued(x) == \E i \in 1..Len(queue) : queue[i] = x

\* A caller waits in the queue at most once, and says so; a writer whose command the
\* pump carries out is no longer there.
Placed ==
    /\ \A i, j \in 1..Len(queue) : queue[i] = queue[j] => i = j
    /\ \A w \in Writers : Queued(w) => writer[w] = "queued"
    /\ \A c \in Closers : Queued(c) => closer[c] = "queued"
    /\ pump = "sending" =>
          sending \in Writers /\ writer[sending] = "queued" /\ ~Queued(sending)

\* Nothing that was queued is forgotten: it waits in the queue, is carried out, or,
\* for a close, waits for the end of the pump.
Kept ==
    /\ \A w \in Writers : writer[w] = "queued" => Queued(w) \/ (pump = "sending" /\ sending = w)
    /\ \A c \in Closers : closer[c] = "queued" => Queued(c) \/ c \in waiters
    /\ \A c \in waiters : closer[c] = "queued"
    /\ pump = "done" => queue = <<>> /\ waiters = {}

\* What was let past the check, whether or not it is in the queue already.
AdmittedCap == Bytes(In(Admitted)) <= MaxPending

\* Who knows of the pump, and what its progress says of the callbacks.
Told ==
    /\ cb["closed"] = IF pump \in {"notify", "done"} THEN 1 ELSE 0
    /\ pump \in {"draining", "unregister", "announce", "notify", "done"} => ~open
    /\ opener = "start" => pump = "none" /\ cb["opened"] = 0
    /\ cb["opened"] > 0 => pump # "none"
    /\ opener \in {"accepted", "inserted"} => pump # "none"
    /\ \A c \in Closers : closer[c] # "idle" => cb["opened"] > 0
    /\ \A c \in Closers : closer[c] = "resolved" => pump = "done"

IInv == TypeOK /\ PendingExact /\ AdmittedCap /\ Placed /\ Kept /\ Told

----------------------------------------------------------------------------
(* Bytes *)

\* Bytes(ws) is a sum over a finite set, so that the lemmas on sums apply to it.
LEMMA BytesIsSum == \A ws : Bytes(ws) = Sum(Size, ws)
BY DEF Bytes, Sum

\* The bytes of any writers are a natural number.
LEMMA BytesNat == \A ws \in SUBSET Writers : IsFiniteSet(ws) /\ Bytes(ws) \in Nat
<1> SUFFICES ASSUME NEW ws \in SUBSET Writers PROVE IsFiniteSet(ws) /\ Bytes(ws) \in Nat
  OBVIOUS
<1>1. IsFiniteSet(ws)
  BY CallersAssumption, FS_Subset
<1>2. \A w \in ws : Size[w] \in Nat
  BY SizeAssumption
<1> QED
  BY <1>1, <1>2, SumNat, BytesIsSum

\* One more writer adds its bytes.
LEMMA BytesAdd ==
  ASSUME NEW ws \in SUBSET Writers, NEW w \in Writers, w \notin ws
  PROVE  Bytes(ws \union {w}) = Size[w] + Bytes(ws)
<1>1. \A y \in ws \union {w} : Size[y] \in Nat
  BY SizeAssumption
<1> QED
  BY <1>1, BytesNat, SumAdd, BytesIsSum

\* Fewer writers have no more bytes.
LEMMA BytesMonotonic ==
  ASSUME NEW ws \in SUBSET Writers, NEW vs \in SUBSET ws
  PROVE  Bytes(vs) <= Bytes(ws)
<1>1. \A y \in ws : Size[y] \in Nat
  BY SizeAssumption
<1> QED
  BY <1>1, BytesNat, SumMonotonic, BytesIsSum

\* A writer that moves on takes its bytes along.
LEMMA Moves ==
  ASSUME TypeOK, NEW w \in Writers, NEW to, NEW S, writer' = [writer EXCEPT ![w] = to]
  PROVE  /\ writer[w] \notin S /\ to \in S => Bytes(In(S))' = Bytes(In(S)) + Size[w]
         /\ writer[w] \in S /\ to \notin S => Bytes(In(S))' = Bytes(In(S)) - Size[w]
         /\ (writer[w] \in S <=> to \in S) => Bytes(In(S))' = Bytes(In(S))
<1> DEFINE rest == In(S) \ {w}
<1>1. In(S)' = IF to \in S THEN rest \union {w} ELSE rest
  BY DEF In, TypeOK
<1>2. In(S) = IF writer[w] \in S THEN rest \union {w} ELSE rest
  BY DEF In
<1>3. rest \in SUBSET Writers /\ w \notin rest
  BY DEF In
<1> HIDE DEF rest
<1>4. Bytes(rest \union {w}) = Size[w] + Bytes(rest) /\ Bytes(rest) \in Nat
  BY <1>3, BytesAdd, BytesNat
<1>5. Size[w] \in Nat
  BY SizeAssumption
<1>6. Bytes(In(S))' = Bytes(In(S)')
  OBVIOUS
<1> QED
  BY <1>1, <1>2, <1>4, <1>5, <1>6

\* Writers that stand still leave the sums as they are.
LEMMA Still ==
  ASSUME UNCHANGED writer, NEW S
  PROVE  Bytes(In(S))' = Bytes(In(S))
BY DEF In

----------------------------------------------------------------------------
(* The queue *)

\* A caller that is not in the queue is appended to it: nobody else moves.
LEMMA QueueGrows ==
  ASSUME TypeOK, Placed, NEW x \in Callers, ~Queued(x), queue' = Append(queue, x)
  PROVE  /\ queue' \in Seq(Callers) /\ Len(queue') = Len(queue) + 1
         /\ \A y : Queued(y)' <=> Queued(y) \/ y = x
         /\ \A i, j \in 1..Len(queue') : queue'[i] = queue'[j] => i = j
<1>1. /\ queue' \in Seq(Callers) /\ Len(queue') = Len(queue) + 1
      /\ \A i \in 1..Len(queue) : queue'[i] = queue[i]
      /\ queue'[Len(queue) + 1] = x /\ Len(queue) \in Nat
  BY AppendProperties, LenProperties DEF TypeOK
<1>2. \A i \in 1..Len(queue') : i \in 1..Len(queue) \/ i = Len(queue) + 1
  BY <1>1
<1>3. 1..Len(queue) \subseteq 1..Len(queue') /\ Len(queue) + 1 \in 1..Len(queue')
  BY <1>1
<1>4. \A y : Queued(y)' <=> Queued(y) \/ y = x
  BY <1>1, <1>2, <1>3 DEF Queued
<1>5. \A i \in 1..Len(queue) : queue[i] # x
  BY DEF Queued
<1>6. \A i, j \in 1..Len(queue') : queue'[i] = queue'[j] => i = j
  BY <1>1, <1>2, <1>5 DEF Placed
<1> QED
  BY <1>1, <1>4, <1>6

\* The head leaves the queue: nobody else does.
LEMMA QueueShrinks ==
  ASSUME TypeOK, Placed, queue # <<>>, queue' = Tail(queue)
  PROVE  /\ queue' \in Seq(Callers) /\ Len(queue') <= Len(queue)
         /\ Head(queue) \in Callers /\ Queued(Head(queue))
         /\ \A y : Queued(y)' <=> Queued(y) /\ y # Head(queue)
         /\ \A i, j \in 1..Len(queue') : queue'[i] = queue'[j] => i = j
<1>1. /\ queue' \in Seq(Callers) /\ Len(queue') = Len(queue) - 1
      /\ \A i \in 1..Len(queue') : queue'[i] = queue[i + 1]
      /\ Head(queue) \in Callers /\ Head(queue) = queue[1]
      /\ Len(queue) \in Nat \ {0}
  BY HeadTailProperties, EmptySeq DEF TypeOK
<1>2. \A i \in 1..Len(queue') : i + 1 \in 1..Len(queue) /\ i + 1 # 1
  BY <1>1
<1>3. \A i \in 1..Len(queue) : i = 1 \/ (i - 1 \in 1..Len(queue') /\ (i - 1) + 1 = i)
  BY <1>1
<1>4. 1 \in 1..Len(queue)
  BY <1>1
<1>5. \A i, j \in 1..Len(queue') : i + 1 = j + 1 => i = j
  OBVIOUS
<1>6. \A i, j \in 1..Len(queue') : queue'[i] = queue'[j] => i = j
  BY <1>1, <1>2, <1>5 DEF Placed
<1>7. ASSUME NEW y PROVE Queued(y)' <=> Queued(y) /\ y # Head(queue)
  <2>1. ASSUME NEW i \in 1..Len(queue'), queue'[i] = y PROVE Queued(y) /\ y # Head(queue)
    BY <2>1, <1>1, <1>2, <1>4 DEF Queued, Placed
  <2>2. ASSUME NEW i \in 1..Len(queue), queue[i] = y, y # Head(queue) PROVE Queued(y)'
    BY <2>2, <1>1, <1>3 DEF Queued
  <2> QED
    BY <2>1, <2>2 DEF Queued
<1>8. Queued(Head(queue))
  BY <1>1, <1>4 DEF Queued
<1> QED
  BY <1>1, <1>6, <1>7, <1>8

----------------------------------------------------------------------------
(* The initial state *)

\* The initial state satisfies the invariant.
LEMMA InitIInv == Init => IInv
<1> SUFFICES ASSUME Init PROVE IInv
  OBVIOUS
<1>1. TypeOK
  <2>1. <<>> \in Seq(Callers) /\ Len(<<>>) = 0
    BY EmptySeq
  <2>2. queue \in Seq(Callers) /\ Len(queue) <= QueueLen
    BY <2>1, LimitsAssumption DEF Init
  <2>3. cb \in [{"opened", "failed", "closed"} -> Nat]
    BY DEF Init
  <2> QED
    BY <2>2, <2>3 DEF Init, TypeOK, OpenerPC, PumpPC, WriterPC, CloserPC
<1>2. In(Reserved) = {} /\ In(Admitted) = {}
  BY DEF Init, In, Reserved, Admitted
<1>3. Bytes({}) = 0
  BY SumEmpty, BytesIsSum
<1>4. PendingExact /\ AdmittedCap
  <2>1. pendingBytes = Bytes(In(Reserved)) /\ Bytes(In(Admitted)) <= MaxPending
    BY <1>2, <1>3, LimitsAssumption DEF Init
  <2> QED
    BY <2>1 DEF PendingExact, AdmittedCap, Reserved
<1>5. Placed /\ Kept /\ Told
  BY DEF Init, Placed, Kept, Told, Queued
<1> QED
  BY <1>1, <1>4, <1>5 DEF IInv

----------------------------------------------------------------------------
(* The accounting *)

\* The steps that leave every writer and the counter as they are.
LEMMA NextAccounts ==
  ASSUME TypeOK, Placed, [Next]_vars
  PROVE  \/ UNCHANGED <<writer, pendingBytes>>
         \/ \E w \in Writers : WriteReserves(w) \/ WriteNotFound(w) \/ WriteSteps(w)
         \/ PumpHandsOver \/ PumpSendFails \/ PumpDrains \/ PumpEnds
BY DEF Next, vars, pumpVars, Opener, OpenFails, OpenAccepted, OpenInserts, OpenReports,
   PumpLocal, PumpTakesWrite, PumpTakesClose, PumpClosesChannel, PumpSeesEnd,
   PumpMarksClosed, PumpDrained, PumpUnregisters, PumpAnnounces, ChannelEnds,
   CloseLooksUp, CloseSteps, CloseQueues, CloseFindsNone, CloseCompletes

\* A writer enters the reserved ones with its bytes and leaves them with its bytes.
LEMMA NextExact == TypeOK /\ PendingExact /\ Placed /\ [Next]_vars => PendingExact'
<1> SUFFICES ASSUME TypeOK, PendingExact, Placed, [Next]_vars
             PROVE  pendingBytes' = Bytes(In(Reserved))'
  BY DEF PendingExact, Reserved
<1>0. /\ pendingBytes = Bytes(In(Reserved)) /\ pendingBytes \in Nat
      /\ \A w \in Writers : Size[w] \in Nat
  BY SizeAssumption DEF PendingExact, Reserved, TypeOK
<1>1. CASE UNCHANGED <<writer, pendingBytes>>
  BY <1>0, <1>1, Still
<1>2. ASSUME NEW w \in Writers, WriteReserves(w) PROVE pendingBytes' = Bytes(In(Reserved))'
  <2>1. PICK to \in {"over", "added"} : writer[w] = "idle" /\ writer' = [writer EXCEPT ![w] = to]
    BY <1>2 DEF WriteReserves, WriterGoes
  <2>2. writer[w] \notin Reserved /\ to \in Reserved
    BY <2>1 DEF Reserved
  <2>3. Bytes(In(Reserved))' = Bytes(In(Reserved)) + Size[w]
    BY <2>1, <2>2, Moves
  <2> QED
    BY <1>0, <1>2, <2>3 DEF WriteReserves
<1>3. ASSUME NEW w \in Writers, WriteNotFound(w) PROVE pendingBytes' = Bytes(In(Reserved))'
  <2>1. writer[w] = "idle" /\ writer' = [writer EXCEPT ![w] = "refused"]
    BY <1>3 DEF WriteNotFound, WriterGoes
  <2>2. writer[w] \notin Reserved /\ "refused" \notin Reserved
    BY <2>1 DEF Reserved
  <2>3. Bytes(In(Reserved))' = Bytes(In(Reserved))
    BY <2>1, <2>2, Moves
  <2> QED
    BY <1>0, <1>3, <2>3 DEF WriteNotFound
<1>4. ASSUME NEW w \in Writers, WriteChecksOpen(w) \/ WriteQueues(w) \/ WriteBounces(w)
      PROVE  pendingBytes' = Bytes(In(Reserved))'
  <2>1. PICK to \in {"sendable", "undo", "queued"} :
          writer[w] \in {"added", "sendable"} /\ writer' = [writer EXCEPT ![w] = to]
    BY <1>4 DEF WriteChecksOpen, WriteQueues, WriteBounces, WriterGoes
  <2>2. writer[w] \in Reserved /\ to \in Reserved
    BY <2>1 DEF Reserved
  <2>3. Bytes(In(Reserved))' = Bytes(In(Reserved))
    BY <2>1, <2>2, Moves
  <2> QED
    BY <1>0, <1>4, <2>3 DEF WriteChecksOpen, WriteQueues, WriteBounces
<1>5. ASSUME NEW w \in Writers, WriteUndoes(w) PROVE pendingBytes' = Bytes(In(Reserved))'
  <2>1. writer[w] \in {"over", "undo"} /\ writer' = [writer EXCEPT ![w] = "refused"]
    BY <1>5 DEF WriteUndoes, WriterGoes
  <2>2. writer[w] \in Reserved /\ "refused" \notin Reserved
    BY <2>1 DEF Reserved
  <2>3. Bytes(In(Reserved))' = Bytes(In(Reserved)) - Size[w]
    BY <2>1, <2>2, Moves
  <2> QED
    BY <1>0, <1>5, <2>3 DEF WriteUndoes
<1>6. CASE PumpHandsOver \/ PumpSendFails
  <2>1. PICK to \in {"handed", "failed"} : writer' = [writer EXCEPT ![sending] = to]
    BY <1>6 DEF PumpHandsOver, PumpSendFails
  <2>2. sending \in Writers /\ writer[sending] = "queued"
    BY <1>6 DEF PumpHandsOver, PumpSendFails, PumpGoes, Placed
  <2>3. writer[sending] \in Reserved /\ to \notin Reserved
    BY <2>1, <2>2 DEF Reserved
  <2>4. Bytes(In(Reserved))' = Bytes(In(Reserved)) - Size[sending]
    BY <2>1, <2>2, <2>3, Moves
  <2> QED
    BY <1>0, <1>6, <2>2, <2>4 DEF PumpHandsOver, PumpSendFails
<1>7. CASE PumpDrains
  <2>1. CASE Head(queue) \in Closers
    BY <1>0, <1>7, <2>1, Still DEF PumpDrains
  <2>2. CASE Head(queue) \notin Closers
    <3>1. Head(queue) \in Writers /\ writer[Head(queue)] = "queued"
      BY <1>7, <2>2, QueueShrinks DEF PumpDrains, Callers, Placed
    <3>2. writer[Head(queue)] \in Reserved /\ "lost" \in Reserved
      BY <3>1 DEF Reserved
    <3>3. writer' = [writer EXCEPT ![Head(queue)] = "lost"] /\ UNCHANGED pendingBytes
      BY <1>7, <2>2 DEF PumpDrains
    <3>4. Bytes(In(Reserved))' = Bytes(In(Reserved))
      BY <3>1, <3>2, <3>3, Moves
    <3> QED
      BY <1>0, <3>3, <3>4
  <2> QED
    BY <2>1, <2>2
<1>8. CASE PumpEnds
  <2>1. In(Reserved)' = In(Reserved)
    BY <1>8 DEF PumpEnds, In, Reserved, Placed, Queued, TypeOK
  <2> QED
    BY <1>0, <1>8, <2>1 DEF PumpEnds
<1> QED
  BY <1>1, <1>2, <1>3, <1>4, <1>5, <1>6, <1>7, <1>8, NextAccounts DEF WriteSteps

\* A write is let past the check only if it fits with all that is reserved.
LEMMA NextAdmitted ==
  TypeOK /\ PendingExact /\ AdmittedCap /\ Placed /\ [Next]_vars => AdmittedCap'
<1> SUFFICES ASSUME TypeOK, PendingExact, AdmittedCap, Placed, [Next]_vars
             PROVE  Bytes(In(Admitted))' <= MaxPending
  BY DEF AdmittedCap
<1>0. /\ Bytes(In(Admitted)) <= MaxPending /\ Bytes(In(Admitted)) \in Nat /\ MaxPending \in Nat
      /\ \A w \in Writers : Size[w] \in Nat
  <2>1. In(Admitted) \in SUBSET Writers
    BY DEF In
  <2> QED
    BY <2>1, BytesNat, SizeAssumption, LimitsAssumption DEF AdmittedCap
<1>1. CASE UNCHANGED <<writer, pendingBytes>>
  BY <1>0, <1>1, Still
<1>2. ASSUME NEW w \in Writers, WriteReserves(w) PROVE Bytes(In(Admitted))' <= MaxPending
  <2>1. CASE Size[w] > 0 /\ pendingBytes + Size[w] > MaxPending
    <3>1. writer[w] = "idle" /\ writer' = [writer EXCEPT ![w] = "over"]
      BY <1>2, <2>1 DEF WriteReserves, WriterGoes
    <3>2. writer[w] \notin Admitted /\ "over" \notin Admitted
      BY <3>1 DEF Admitted
    <3>3. Bytes(In(Admitted))' = Bytes(In(Admitted))
      BY <3>1, <3>2, Moves
    <3> QED
      BY <1>0, <3>3
  <2>2. CASE ~(Size[w] > 0 /\ pendingBytes + Size[w] > MaxPending)
    <3>1. writer[w] = "idle" /\ writer' = [writer EXCEPT ![w] = "added"]
      BY <1>2, <2>2 DEF WriteReserves, WriterGoes
    <3>2. writer[w] \notin Admitted /\ "added" \in Admitted
      BY <3>1 DEF Admitted
    <3>3. Bytes(In(Admitted))' = Bytes(In(Admitted)) + Size[w]
      BY <3>1, <3>2, Moves
    <3>4. In(Admitted) \in SUBSET In(Reserved) /\ In(Reserved) \in SUBSET Writers
      BY DEF In, Admitted, Reserved
    <3>5. Bytes(In(Admitted)) <= Bytes(In(Reserved))
      BY <3>4, BytesMonotonic
    <3>6. Bytes(In(Admitted)) <= pendingBytes /\ pendingBytes \in Nat
      BY <3>5 DEF PendingExact, Reserved, TypeOK
    <3> QED
      BY <1>0, <2>2, <3>3, <3>6
  <2> QED
    BY <2>1, <2>2
<1>3. ASSUME NEW w \in Writers, WriteNotFound(w) \/ WriteUndoes(w)
      PROVE  Bytes(In(Admitted))' <= MaxPending
  <2>1. writer' = [writer EXCEPT ![w] = "refused"]
    BY <1>3 DEF WriteNotFound, WriteUndoes, WriterGoes
  <2>2. "refused" \notin Admitted
    BY DEF Admitted
  <2>3. \/ Bytes(In(Admitted))' = Bytes(In(Admitted))
        \/ Bytes(In(Admitted))' = Bytes(In(Admitted)) - Size[w]
    BY <2>1, <2>2, Moves
  <2> QED
    BY <1>0, <2>3
<1>4. ASSUME NEW w \in Writers, WriteChecksOpen(w) \/ WriteQueues(w) \/ WriteBounces(w)
      PROVE  Bytes(In(Admitted))' <= MaxPending
  <2>1. PICK to \in {"sendable", "undo", "queued"} :
          writer[w] \in {"added", "sendable"} /\ writer' = [writer EXCEPT ![w] = to]
    BY <1>4 DEF WriteChecksOpen, WriteQueues, WriteBounces, WriterGoes
  <2>2. writer[w] \in Admitted
    BY <2>1 DEF Admitted
  <2>3. \/ Bytes(In(Admitted))' = Bytes(In(Admitted))
        \/ Bytes(In(Admitted))' = Bytes(In(Admitted)) - Size[w]
    BY <2>1, <2>2, Moves
  <2> QED
    BY <1>0, <2>3
<1>5. CASE PumpHandsOver \/ PumpSendFails
  <2>1. PICK to \in {"handed", "failed"} : writer' = [writer EXCEPT ![sending] = to]
    BY <1>5 DEF PumpHandsOver, PumpSendFails
  <2>2. sending \in Writers /\ writer[sending] = "queued"
    BY <1>5 DEF PumpHandsOver, PumpSendFails, PumpGoes, Placed
  <2>3. writer[sending] \in Admitted /\ to \notin Admitted
    BY <2>1, <2>2 DEF Admitted
  <2>4. Bytes(In(Admitted))' = Bytes(In(Admitted)) - Size[sending]
    BY <2>1, <2>2, <2>3, Moves
  <2> QED
    BY <1>0, <2>2, <2>4
<1>6. CASE PumpDrains \/ PumpEnds
  <2>1. In(Admitted)' \in SUBSET In(Admitted) /\ In(Admitted) \in SUBSET Writers
    BY <1>6, QueueShrinks DEF PumpDrains, PumpEnds, In, Admitted, Placed, Queued, TypeOK
  <2>2. Bytes(In(Admitted)') <= Bytes(In(Admitted)) /\ Bytes(In(Admitted)') \in Nat
    BY <2>1, BytesMonotonic, BytesNat
  <2> QED
    BY <1>0, <2>2
<1> QED
  BY <1>1, <1>2, <1>3, <1>4, <1>5, <1>6, NextAccounts DEF WriteSteps

----------------------------------------------------------------------------
(* The queue and those who wait *)

\* Steps that move neither the queue nor anybody into or out of it.
LEMMA QuietSteps ==
  ASSUME TypeOK, Placed, Kept,
         UNCHANGED <<queue, waiters>>,
         \/ UNCHANGED <<pump, sending>>
         \/ pump # "sending" /\ pump' \notin {"sending", "done"},
         \A w \in Writers : writer[w] = "queued" <=> writer'[w] = "queued",
         \A c \in Closers : closer[c] = "queued" <=> closer'[c] = "queued"
  PROVE  Placed' /\ Kept'
BY DEF Placed, Kept, Queued, TypeOK

\* No step drops a caller from the queue but into the hands of the pump, the waiters,
\* or the state that says that it was lost or answered.
LEMMA NextQueue == TypeOK /\ Placed /\ Kept /\ Told /\ [Next]_vars => Placed' /\ Kept'
<1> SUFFICES ASSUME TypeOK, Placed, Kept, Told, [Next]_vars PROVE Placed' /\ Kept'
  OBVIOUS
<1> USE DEF PumpGoes, pumpVars
<1>1. CASE Opener \/ ChannelEnds \/ UNCHANGED vars
  <2>1. /\ UNCHANGED <<queue, waiters, writer, closer, sending>>
        /\ \/ pump' = pump
           \/ pump = "none" /\ pump' = "select"
    BY <1>1 DEF Opener, OpenFails, OpenAccepted, OpenInserts, OpenReports, ChannelEnds, vars, Told
  <2> QED
    BY <2>1, QuietSteps
<1>2. ASSUME NEW w \in Writers,
             \/ WriteReserves(w) \/ WriteNotFound(w) \/ WriteChecksOpen(w)
             \/ WriteBounces(w) \/ WriteUndoes(w)
      PROVE  Placed' /\ Kept'
  <2>1. UNCHANGED <<queue, waiters, closer, pump, sending>> /\ writer[w] # "queued"
    BY <1>2 DEF WriteReserves, WriteNotFound, WriteChecksOpen, WriteBounces, WriteUndoes,
       WriterGoes
  <2>2. PICK to : writer' = [writer EXCEPT ![w] = to] /\ to # "queued"
    BY <1>2 DEF WriteReserves, WriteNotFound, WriteChecksOpen, WriteBounces, WriteUndoes,
       WriterGoes
  <2>3. \A v \in Writers : writer[v] = "queued" <=> writer'[v] = "queued"
    BY <2>1, <2>2 DEF TypeOK
  <2> QED
    BY <2>1, <2>3, QuietSteps
<1>3. ASSUME NEW w \in Writers, WriteQueues(w) PROVE Placed' /\ Kept'
  <2>1. writer[w] = "sendable" /\ writer' = [writer EXCEPT ![w] = "queued"] /\ pump # "done"
    BY <1>3 DEF WriteQueues, WriterGoes, Receiving
  <2>2. UNCHANGED <<pump, sending, closer, waiters>> /\ queue' = Append(queue, w)
    BY <1>3 DEF WriteQueues
  <2>3. ~Queued(w)
    BY <2>1 DEF Placed
  <2>4. /\ \A y : Queued(y)' <=> Queued(y) \/ y = w
        /\ \A i, j \in 1..Len(queue') : queue'[i] = queue'[j] => i = j
    BY <2>2, <2>3, QueueGrows DEF Callers
  <2>5. w \notin Closers
    BY CallersAssumption
  <2>6. Placed'
    BY <2>1, <2>2, <2>4, <2>5 DEF Placed, TypeOK
  <2>7. Kept'
    BY <2>1, <2>2, <2>4, <2>5 DEF Kept, TypeOK
  <2> QED
    BY <2>6, <2>7
<1>4. ASSUME NEW c \in Closers, CloseLooksUp(c) \/ CloseFindsNone(c) \/ CloseCompletes(c)
      PROVE  Placed' /\ Kept'
  <2>1. UNCHANGED <<queue, waiters, writer, pump, sending>> /\ closer[c] # "queued"
    BY <1>4 DEF CloseLooksUp, CloseFindsNone, CloseCompletes, CloserGoes
  <2>2. PICK to : closer' = [closer EXCEPT ![c] = to] /\ to # "queued"
    BY <1>4 DEF CloseLooksUp, CloseFindsNone, CloseCompletes, CloserGoes
  <2>3. \A d \in Closers : closer[d] = "queued" <=> closer'[d] = "queued"
    BY <2>1, <2>2 DEF TypeOK
  <2> QED
    BY <2>1, <2>3, QuietSteps
<1>5. ASSUME NEW c \in Closers, CloseQueues(c) PROVE Placed' /\ Kept'
  <2>1. closer[c] = "found" /\ closer' = [closer EXCEPT ![c] = "queued"] /\ pump # "done"
    BY <1>5 DEF CloseQueues, CloserGoes, Receiving
  <2>2. UNCHANGED <<pump, sending, writer, waiters>> /\ queue' = Append(queue, c)
    BY <1>5 DEF CloseQueues
  <2>3. ~Queued(c)
    BY <2>1 DEF Placed
  <2>4. /\ \A y : Queued(y)' <=> Queued(y) \/ y = c
        /\ \A i, j \in 1..Len(queue') : queue'[i] = queue'[j] => i = j
    BY <2>2, <2>3, QueueGrows DEF Callers
  <2>5. c \notin Writers
    BY CallersAssumption
  <2>6. Placed'
    BY <2>1, <2>2, <2>4, <2>5 DEF Placed, TypeOK
  <2>7. Kept'
    BY <2>1, <2>2, <2>4, <2>5 DEF Kept, TypeOK
  <2> QED
    BY <2>6, <2>7
<1>6. CASE PumpTakesWrite
  <2>1. /\ pump = "select" /\ pump' = "sending" /\ sending' = Head(queue) /\ Head(queue) \in Writers
        /\ UNCHANGED <<waiters, writer, closer>>
    BY <1>6 DEF PumpTakesWrite
  <2>2. /\ Queued(Head(queue)) /\ \A y : Queued(y)' <=> Queued(y) /\ y # Head(queue)
        /\ \A i, j \in 1..Len(queue') : queue'[i] = queue'[j] => i = j
    BY <1>6, QueueShrinks DEF PumpTakesWrite
  <2>3. Head(queue) \notin Closers
    BY <2>1, CallersAssumption
  <2>4. Placed'
    BY <2>1, <2>2 DEF Placed
  <2>5. Kept'
    BY <2>1, <2>2, <2>3 DEF Kept
  <2> QED
    BY <2>4, <2>5
<1>7. CASE PumpHandsOver \/ PumpSendFails
  <2>1. PICK to : writer' = [writer EXCEPT ![sending] = to] /\ to # "queued"
    BY <1>7 DEF PumpHandsOver, PumpSendFails
  <2>2. /\ pump = "sending" /\ pump' \in {"select", "stopping"}
        /\ UNCHANGED <<queue, closer, waiters>>
    BY <1>7 DEF PumpHandsOver, PumpSendFails
  <2>3. \A y : Queued(y)' <=> Queued(y)
    BY <2>2 DEF Queued
  <2>4. sending \in Writers /\ ~Queued(sending)
    BY <2>2 DEF Placed
  <2>5. Placed'
    BY <2>1, <2>2, <2>3, <2>4 DEF Placed, TypeOK
  <2>6. Kept'
    BY <2>1, <2>2, <2>3, <2>4 DEF Kept, TypeOK
  <2> QED
    BY <2>5, <2>6
<1>8. CASE PumpTakesClose
  <2>1. /\ pump = "select" /\ pump' = "closing" /\ Head(queue) \in Closers
        /\ waiters' = waiters \union {Head(queue)} /\ UNCHANGED <<writer, closer>>
    BY <1>8 DEF PumpTakesClose
  <2>2. /\ Queued(Head(queue)) /\ \A y : Queued(y)' <=> Queued(y) /\ y # Head(queue)
        /\ \A i, j \in 1..Len(queue') : queue'[i] = queue'[j] => i = j
    BY <1>8, QueueShrinks DEF PumpTakesClose
  <2>3. Head(queue) \notin Writers /\ closer[Head(queue)] = "queued"
    BY <2>1, <2>2, CallersAssumption DEF Placed
  <2>4. Placed'
    BY <2>1, <2>2 DEF Placed
  <2>5. Kept'
    BY <2>1, <2>2, <2>3 DEF Kept
  <2> QED
    BY <2>4, <2>5
<1>9. CASE \/ PumpClosesChannel \/ PumpSeesEnd \/ PumpMarksClosed \/ PumpDrained
           \/ PumpUnregisters \/ PumpAnnounces
  <2>1. /\ UNCHANGED <<queue, waiters, writer, closer, sending>>
        /\ pump # "sending" /\ pump' \notin {"sending", "done"}
    BY <1>9 DEF PumpClosesChannel, PumpSeesEnd, PumpMarksClosed, PumpDrained,
       PumpUnregisters, PumpAnnounces
  <2> QED
    BY <2>1, QuietSteps
<1>10. CASE PumpDrains
  <2>1. pump = "draining" /\ UNCHANGED <<pump, sending, closer>>
    BY <1>10 DEF PumpDrains
  <2>2. /\ Queued(Head(queue)) /\ \A y : Queued(y)' <=> Queued(y) /\ y # Head(queue)
        /\ \A i, j \in 1..Len(queue') : queue'[i] = queue'[j] => i = j
        /\ Head(queue) \in Callers
    BY <1>10, QueueShrinks DEF PumpDrains
  <2>3. CASE Head(queue) \in Closers
    <3>1. waiters' = waiters \union {Head(queue)} /\ UNCHANGED writer
      BY <1>10, <2>3 DEF PumpDrains
    <3>2. closer[Head(queue)] = "queued" /\ Head(queue) \notin Writers
      BY <2>2, <2>3, CallersAssumption DEF Placed
    <3> QED
      BY <2>1, <2>2, <2>3, <3>1, <3>2 DEF Placed, Kept
  <2>4. CASE Head(queue) \in Writers
    <3>1. Head(queue) \notin Closers
      BY <2>4, CallersAssumption
    <3>2. writer' = [writer EXCEPT ![Head(queue)] = "lost"] /\ UNCHANGED waiters
      BY <1>10, <3>1 DEF PumpDrains
    <3> QED
      BY <2>1, <2>2, <2>4, <3>1, <3>2 DEF Placed, Kept, TypeOK
  <2> QED
    BY <2>2, <2>3, <2>4 DEF Callers
<1>11. CASE PumpEnds
  <2>1. pump = "notify" /\ pump' = "done" /\ queue' = <<>> /\ waiters' = {}
    BY <1>11 DEF PumpEnds
  <2>2. /\ \A c \in Closers :
            closer'[c] = IF c \in waiters \/ Queued(c) THEN "resolved" ELSE closer[c]
        /\ \A w \in Writers : writer'[w] = IF Queued(w) THEN "lost" ELSE writer[w]
    BY <1>11 DEF PumpEnds, Queued
  <2>3. \A y : ~Queued(y)'
    BY <2>1 DEF Queued
  <2>4. Placed'
    BY <2>1, <2>3 DEF Placed
  <2>5. Kept'
    BY <2>1, <2>2, <2>3 DEF Kept
  <2> QED
    BY <2>4, <2>5
<1> QED
  BY <1>1, <1>2, <1>3, <1>4, <1>5, <1>6, <1>7, <1>8, <1>9, <1>10, <1>11
  DEF Next, PumpLocal, WriteSteps, CloseSteps

----------------------------------------------------------------------------
(* What the progress of the pump says *)

\* Only the pump announces, once; a close resolves after it or finds no entry.
LEMMA NextTold == TypeOK /\ Placed /\ Kept /\ Told /\ [Next]_vars => Told'
<1> SUFFICES ASSUME TypeOK, Placed, Kept, Told, [Next]_vars PROVE Told'
  OBVIOUS
<1> USE DEF Told, TypeOK, Deliver, PumpGoes, CloserGoes, WriterGoes, Receiving, pumpVars
<1>1. CASE OpenFails BY <1>1 DEF OpenFails
<1>2. CASE OpenAccepted BY <1>2 DEF OpenAccepted
<1>3. CASE OpenInserts BY <1>3 DEF OpenInserts
<1>4. CASE OpenReports BY <1>4 DEF OpenReports
<1>5. CASE PumpTakesWrite BY <1>5 DEF PumpTakesWrite
<1>6. CASE PumpHandsOver BY <1>6 DEF PumpHandsOver
<1>7. CASE PumpSendFails BY <1>7 DEF PumpSendFails
<1>8. CASE PumpTakesClose BY <1>8 DEF PumpTakesClose
<1>9. CASE PumpClosesChannel BY <1>9 DEF PumpClosesChannel
<1>10. CASE PumpSeesEnd BY <1>10 DEF PumpSeesEnd
<1>11. CASE PumpMarksClosed BY <1>11 DEF PumpMarksClosed
<1>12. CASE PumpDrains BY <1>12 DEF PumpDrains
<1>13. CASE PumpDrained BY <1>13 DEF PumpDrained
<1>14. CASE PumpUnregisters BY <1>14 DEF PumpUnregisters
<1>15. CASE PumpAnnounces BY <1>15 DEF PumpAnnounces
<1>16. CASE PumpEnds
  <2>1. \A c \in Closers : c \in waiters \/ Queued(c) => closer[c] = "queued"
    BY DEF Placed, Kept
  <2>2. \A c \in Closers : closer'[c] = IF c \in waiters \/ Queued(c) THEN "resolved" ELSE closer[c]
    BY <1>16 DEF PumpEnds, Queued
  <2>3. pump = "notify" /\ pump' = "done" /\ UNCHANGED <<opener, open, cb>>
    BY <1>16 DEF PumpEnds
  <2> QED
    BY <2>1, <2>2, <2>3
<1>17. CASE ChannelEnds BY <1>17 DEF ChannelEnds
<1>18. ASSUME NEW w \in Writers, WriteReserves(w) PROVE Told' BY <1>18 DEF WriteReserves
<1>19. ASSUME NEW w \in Writers, WriteNotFound(w) PROVE Told' BY <1>19 DEF WriteNotFound
<1>20. ASSUME NEW w \in Writers, WriteChecksOpen(w) PROVE Told' BY <1>20 DEF WriteChecksOpen
<1>21. ASSUME NEW w \in Writers, WriteQueues(w) PROVE Told' BY <1>21 DEF WriteQueues
<1>22. ASSUME NEW w \in Writers, WriteBounces(w) PROVE Told' BY <1>22 DEF WriteBounces
<1>23. ASSUME NEW w \in Writers, WriteUndoes(w) PROVE Told' BY <1>23 DEF WriteUndoes
<1>24. ASSUME NEW c \in Closers, CloseLooksUp(c) PROVE Told' BY <1>24 DEF CloseLooksUp
<1>25. ASSUME NEW c \in Closers, CloseQueues(c) PROVE Told' BY <1>25 DEF CloseQueues
<1>26. ASSUME NEW c \in Closers, CloseFindsNone(c) PROVE Told' BY <1>26 DEF CloseFindsNone
<1>27. ASSUME NEW c \in Closers, CloseCompletes(c) PROVE Told' BY <1>27 DEF CloseCompletes
<1>28. CASE UNCHANGED vars BY <1>28 DEF vars
<1> HIDE DEF Told, TypeOK, Deliver, PumpGoes, CloserGoes, WriterGoes, Receiving, pumpVars
<1> QED
  BY <1>1, <1>2, <1>3, <1>4, <1>5, <1>6, <1>7, <1>8, <1>9, <1>10, <1>11, <1>12, <1>13,
     <1>14, <1>15, <1>16, <1>17, <1>18, <1>19, <1>20, <1>21, <1>22, <1>23, <1>24,
     <1>25, <1>26, <1>27, <1>28
  DEF Next, Opener, PumpLocal, WriteSteps, CloseSteps

----------------------------------------------------------------------------
(* Types *)

\* The counter is a sum of sizes, hence no step takes it below zero.
LEMMA NextTypeOK == TypeOK /\ Placed /\ PendingExact /\ [Next]_vars => TypeOK'
<1> SUFFICES ASSUME TypeOK, Placed, PendingExact, [Next]_vars PROVE TypeOK'
  OBVIOUS
<1> DEFINE Rest ==
      /\ opener \in OpenerPC /\ registered \in BOOLEAN /\ channelUp \in BOOLEAN
      /\ pump \in PumpPC /\ sending \in Writers \union {None}
      /\ waiters \in SUBSET Closers
      /\ open \in BOOLEAN
      /\ writer \in [Writers -> WriterPC]
      /\ closer \in [Closers -> CloserPC]
      /\ cb \in [{"opened", "failed", "closed"} -> Nat]
<1>a. pendingBytes' \in Nat
  <2>1. pendingBytes' = Bytes(In(Reserved)')
    BY NextExact DEF PendingExact, Reserved
  <2>2. In(Reserved)' \in SUBSET Writers
    BY DEF In
  <2> QED
    BY <2>1, <2>2, BytesNat
<1>b. queue' \in Seq(Callers) /\ Len(queue') <= QueueLen
  <2>1. CASE UNCHANGED queue
    BY <2>1 DEF TypeOK
  <2>2. ASSUME NEW x \in Callers, ~Queued(x), Len(queue) < QueueLen, queue' = Append(queue, x)
        PROVE  queue' \in Seq(Callers) /\ Len(queue') <= QueueLen
    BY <2>2, QueueGrows, LimitsAssumption, LenProperties DEF TypeOK
  <2>3. CASE queue # <<>> /\ queue' = Tail(queue)
    BY <2>3, HeadTailProperties, LenProperties, LimitsAssumption DEF TypeOK
  <2>4. CASE queue' = <<>>
    <3>1. <<>> \in Seq(Callers) /\ Len(<<>>) = 0
      BY EmptySeq
    <3> QED
      BY <2>4, <3>1, LimitsAssumption
  <2>5. ASSUME NEW w \in Writers, WriteQueues(w)
        PROVE  queue' \in Seq(Callers) /\ Len(queue') <= QueueLen
    <3>1. ~Queued(w) /\ w \in Callers
      BY <2>5 DEF WriteQueues, WriterGoes, Placed, Callers
    <3> QED
      BY <2>2, <2>5, <3>1 DEF WriteQueues
  <2>6. ASSUME NEW c \in Closers, CloseQueues(c)
        PROVE  queue' \in Seq(Callers) /\ Len(queue') <= QueueLen
    <3>1. ~Queued(c) /\ c \in Callers
      BY <2>6 DEF CloseQueues, CloserGoes, Placed, Callers
    <3> QED
      BY <2>2, <2>6, <3>1 DEF CloseQueues
  <2>7. \/ UNCHANGED queue
        \/ queue # <<>> /\ queue' = Tail(queue)
        \/ queue' = <<>>
        \/ \E w \in Writers : WriteQueues(w)
        \/ \E c \in Closers : CloseQueues(c)
    BY DEF Next, vars, pumpVars, Opener, PumpLocal, WriteSteps, CloseSteps,
       OpenFails, OpenAccepted, OpenInserts, OpenReports, PumpTakesWrite,
       PumpHandsOver, PumpSendFails, PumpTakesClose, PumpClosesChannel, PumpSeesEnd,
       PumpMarksClosed, PumpDrains, PumpDrained, PumpUnregisters, PumpAnnounces,
       PumpEnds, ChannelEnds, WriteReserves, WriteNotFound, WriteChecksOpen,
       WriteBounces, WriteUndoes, CloseLooksUp, CloseFindsNone, CloseCompletes
  <2> QED
    BY <2>1, <2>3, <2>4, <2>5, <2>6, <2>7
<1>c. Rest'
  <2>0. Rest
    BY DEF TypeOK
  <2> USE DEF OpenerPC, PumpPC, WriterPC, CloserPC,
      Deliver, PumpGoes, CloserGoes, WriterGoes, pumpVars
  <2>1. CASE OpenFails BY <2>0, <2>1 DEF OpenFails
  <2>2. CASE OpenAccepted BY <2>0, <2>2 DEF OpenAccepted
  <2>3. CASE OpenInserts BY <2>0, <2>3 DEF OpenInserts
  <2>4. CASE OpenReports BY <2>0, <2>4 DEF OpenReports
  <2>5. CASE PumpTakesWrite BY <2>0, <2>5 DEF PumpTakesWrite
  <2>6. CASE PumpHandsOver BY <2>0, <2>6 DEF PumpHandsOver
  <2>7. CASE PumpSendFails BY <2>0, <2>7 DEF PumpSendFails
  <2>8. CASE PumpTakesClose BY <2>0, <2>8 DEF PumpTakesClose
  <2>9. CASE PumpClosesChannel BY <2>0, <2>9 DEF PumpClosesChannel
  <2>10. CASE PumpSeesEnd BY <2>0, <2>10 DEF PumpSeesEnd
  <2>11. CASE PumpMarksClosed BY <2>0, <2>11 DEF PumpMarksClosed
  <2>12. CASE PumpDrains BY <2>0, <2>12 DEF PumpDrains
  <2>13. CASE PumpDrained BY <2>0, <2>13 DEF PumpDrained
  <2>14. CASE PumpUnregisters BY <2>0, <2>14 DEF PumpUnregisters
  <2>15. CASE PumpAnnounces BY <2>0, <2>15 DEF PumpAnnounces
  <2>16. CASE PumpEnds BY <2>0, <2>16 DEF PumpEnds
  <2>17. CASE ChannelEnds BY <2>0, <2>17 DEF ChannelEnds
  <2>18. ASSUME NEW w \in Writers, WriteReserves(w) PROVE Rest' BY <2>0, <2>18 DEF WriteReserves
  <2>19. ASSUME NEW w \in Writers, WriteNotFound(w) PROVE Rest' BY <2>0, <2>19 DEF WriteNotFound
  <2>20. ASSUME NEW w \in Writers, WriteChecksOpen(w) PROVE Rest' BY <2>0, <2>20 DEF WriteChecksOpen
  <2>21. ASSUME NEW w \in Writers, WriteQueues(w) PROVE Rest' BY <2>0, <2>21 DEF WriteQueues
  <2>22. ASSUME NEW w \in Writers, WriteBounces(w) PROVE Rest' BY <2>0, <2>22 DEF WriteBounces
  <2>23. ASSUME NEW w \in Writers, WriteUndoes(w) PROVE Rest' BY <2>0, <2>23 DEF WriteUndoes
  <2>24. ASSUME NEW c \in Closers, CloseLooksUp(c) PROVE Rest' BY <2>0, <2>24 DEF CloseLooksUp
  <2>25. ASSUME NEW c \in Closers, CloseQueues(c) PROVE Rest' BY <2>0, <2>25 DEF CloseQueues
  <2>26. ASSUME NEW c \in Closers, CloseFindsNone(c) PROVE Rest' BY <2>0, <2>26 DEF CloseFindsNone
  <2>27. ASSUME NEW c \in Closers, CloseCompletes(c) PROVE Rest' BY <2>0, <2>27 DEF CloseCompletes
  <2>28. CASE UNCHANGED vars BY <2>0, <2>28 DEF vars
  <2> HIDE DEF Rest, OpenerPC, PumpPC, WriterPC, CloserPC,
      Deliver, PumpGoes, CloserGoes, WriterGoes, pumpVars
  <2> QED
    BY <2>1, <2>2, <2>3, <2>4, <2>5, <2>6, <2>7, <2>8, <2>9, <2>10, <2>11, <2>12, <2>13,
       <2>14, <2>15, <2>16, <2>17, <2>18, <2>19, <2>20, <2>21, <2>22, <2>23, <2>24,
       <2>25, <2>26, <2>27, <2>28
    DEF Next, Opener, PumpLocal, WriteSteps, CloseSteps
<1> QED
  BY <1>a, <1>b, <1>c DEF TypeOK

----------------------------------------------------------------------------
(* The theorems *)

\* The invariant behind the theorems below holds in every run.
THEOREM Invariance == Spec => []IInv
<1>1. IInv /\ [Next]_vars => IInv'
  BY NextTypeOK, NextExact, NextAdmitted, NextQueue, NextTold DEF IInv
<1> QED
  BY InitIInv, <1>1, PTL DEF Spec

\* Every variable of a shell keeps its type; in particular the AtomicUsize of the
\* pending bytes never wraps below zero and the queue never outgrows its length.
THEOREM TypeCorrect == Spec => []TypeOK
<1>1. IInv => TypeOK
  BY DEF IInv
<1> QED
  BY Invariance, <1>1, PTL

\* The pending bytes are exactly the reservations that are neither undone nor handed
\* over, and however many writes race between fetch_add and the check, those accepted
\* and not yet handed over stay within MAX_PENDING_WRITE_BYTES.
THEOREM AccountsKept == Spec => []Accounting
<1>1. IInv => Accounting
  <2> SUFFICES ASSUME IInv PROVE AcceptedCap
    BY DEF IInv, Accounting
  <2>1. In(Admitted) \in SUBSET Writers /\ In({"sendable", "queued"}) \in SUBSET In(Admitted)
    BY DEF In, Admitted
  <2>2. /\ Bytes(In({"sendable", "queued"})) <= Bytes(In(Admitted))
        /\ Bytes(In({"sendable", "queued"})) \in Nat /\ Bytes(In(Admitted)) \in Nat
    BY <2>1, BytesMonotonic, BytesNat
  <2> QED
    BY <2>2, LimitsAssumption DEF IInv, AdmittedCap, AcceptedCap
<1> QED
  BY Invariance, <1>1, PTL

\* A close that resolves did so after on_closed, which is delivered at most once, and
\* from on_closed on the shell looks closed.
THEOREM ClosesWait == Spec => []CloseWaits
<1>1. IInv => CloseWaits
  BY DEF IInv, Told, CloseWaits, IsOpen
<1> QED
  BY Invariance, <1>1, PTL

\* Nobody is queued with a pump that has ended.
NobodyLeft ==
    pump = "done" =>
        /\ \A w \in Writers : writer[w] # "queued"
        /\ \A c \in Closers : closer[c] # "queued"

\* When the pump has ended, no write and no close that reached its queue is left
\* waiting for it: each was handed over, failed, lost or answered.
THEOREM NobodyIsLeft == Spec => []NobodyLeft
<1>1. IInv => NobodyLeft
  BY DEF IInv, Kept, NobodyLeft, Queued
<1> QED
  BY Invariance, <1>1, PTL
=============================================================================
