----------------------- MODULE AbortableConnectProofs -----------------------
(***************************************************************************)
(* Proofs about AbortableConnect, for any number of prompts.               *)
(***************************************************************************)
EXTENDS AbortableConnect, FiniteSetTheorems, FunctionTheorems, SequenceTheorems, TLAPS

\* connect() has not come back from the native call.
Before == pc \in {"idle", "native"}

\* Every variable has its type; an attempt is cancelled at most once.
Shape ==
    /\ cb \in [K!Callbacks -> Nat] /\ bye \in BOOLEAN /\ released \in BOOLEAN
    /\ withSignal \in BOOLEAN /\ withKbi \in BOOLEAN
    /\ aborted \in BOOLEAN /\ listener \in BOOLEAN /\ cleanup \in BOOLEAN
    /\ pc \in {"idle", "native", "awaiting", "connected", "failed"}
    /\ queue \in Seq(Tasks)
    /\ promise \in {"pending", "resolved", "rejected"}
    /\ asked \in [K!Prompts -> Nat] /\ answers \in [K!Prompts -> Nat]
    /\ agreed \in BOOLEAN /\ accepted \in BOOLEAN
    /\ cancels \in 0..1

\* Every prompt that was delivered waits in the queue, is with the app's handler or was
\* answered.
At(t) == {i \in 1..Len(queue) : queue[i] = t}
Prompted == \A k \in K!Prompts : asked[k] + answers[k] + Cardinality(At(k)) = cb[k]

\* onStarted is posted once, and the settled promise is never ahead of it.
Ordered ==
    /\ \A i, j \in At("started") : i = j
    /\ \A i \in At("started"), j \in At("settled") : i < j
    /\ At("settled") # {} => promise # "pending"

\* Inside rnssh_connect nothing of the JavaScript thread has run, and without its
\* consent to the host key the attempt cannot have succeeded.
Unheard ==
    /\ Before =>
          /\ At("started") = {} /\ At("settled") = {}
          /\ (\A k \in K!Prompts : asked[k] = 0) /\ ~accepted
          /\ promise # "resolved" /\ cancels = 0 /\ ~listener
    /\ pc = "idle" => queue = <<>> /\ K!Terminals = 0

\* Where an abort is at: ahead, with the listener, or passed on.
Passed ==
    /\ aborted => withSignal
    /\ ~aborted => cancels = 0
    /\ listener => cleanup /\ ~aborted
    /\ At("started") # {} => ~listener /\ cancels = 0
    /\ pc = "awaiting" /\ withSignal /\ At("started") = {} =>
          IF aborted THEN cancels = 1 ELSE listener
    /\ pc = "connected" => ~listener /\ At("started") = {}

\* Consent goes from the app to Rust to the promise.
Consented == (accepted => agreed) /\ (promise = "resolved" => accepted)

IInv == Shape /\ Prompted /\ Ordered /\ Unheard /\ Passed /\ Consented /\ ContextAlive

----------------------------------------------------------------------------
(* The queue *)

\* A task that is posted is the last.
LEMMA QueueGrows ==
  ASSUME queue \in Seq(Tasks), NEW t \in Tasks, queue' = Append(queue, t)
  PROVE  /\ queue' \in Seq(Tasks)
         /\ \A s \in Tasks : At(s)' = IF s = t THEN At(s) \union {Len(queue) + 1} ELSE At(s)
         /\ \A s \in Tasks : At(s) \subseteq 1..Len(queue)
         /\ Len(queue) \in Nat
<1>1. /\ queue' \in Seq(Tasks) /\ Len(queue') = Len(queue) + 1
      /\ \A i \in 1..Len(queue) : queue'[i] = queue[i]
      /\ queue'[Len(queue) + 1] = t /\ Len(queue) \in Nat
  BY AppendProperties, LenProperties
<1>2. \A i : i \in 1..Len(queue') <=> i \in 1..Len(queue) \/ i = Len(queue) + 1
  BY <1>1
<1> QED
  BY <1>1, <1>2 DEF At

\* The first task leaves, the others move up.
LEMMA QueueShrinks ==
  ASSUME queue \in Seq(Tasks), queue # <<>>, queue' = Tail(queue)
  PROVE  /\ queue' \in Seq(Tasks) /\ Head(queue) \in Tasks /\ 1 \in At(Head(queue))
         /\ \A s \in Tasks : At(s)' = {i - 1 : i \in At(s) \ {1}}
         /\ \A s \in Tasks : At(s) \subseteq 1..Len(queue)
         /\ \A s \in Tasks : s # Head(queue) => 1 \notin At(s)
         /\ Len(queue) \in Nat
<1>1. /\ queue' \in Seq(Tasks) /\ Len(queue') = Len(queue) - 1
      /\ \A i \in 1..Len(queue') : queue'[i] = queue[i + 1]
      /\ Head(queue) \in Tasks /\ Head(queue) = queue[1]
      /\ Len(queue) \in Nat \ {0}
  BY HeadTailProperties, EmptySeq
<1>2. \A i \in 1..Len(queue') : i + 1 \in (1..Len(queue)) \ {1} /\ (i + 1) - 1 = i
  BY <1>1
<1>3. \A i \in (1..Len(queue)) \ {1} : i - 1 \in 1..Len(queue') /\ (i - 1) + 1 = i
  BY <1>1
<1>4. ASSUME NEW s \in Tasks PROVE At(s)' = {i - 1 : i \in At(s) \ {1}}
  <2>1. ASSUME NEW i \in At(s)' PROVE i + 1 \in At(s) \ {1} /\ (i + 1) - 1 = i
    BY <1>1, <1>2 DEF At
  <2>2. ASSUME NEW i \in At(s) \ {1} PROVE i - 1 \in At(s)'
    BY <1>1, <1>3 DEF At
  <2> QED
    BY <2>1, <2>2
<1>5. 1 \in 1..Len(queue)
  BY <1>1
<1> QED
  BY <1>1, <1>4, <1>5 DEF At

\* Positions are finitely many.
LEMMA AtFinite ==
  ASSUME queue \in Seq(Tasks)
  PROVE  \A t : IsFiniteSet(At(t)) /\ Cardinality(At(t)) \in Nat
<1> SUFFICES ASSUME NEW t PROVE IsFiniteSet(At(t)) /\ Cardinality(At(t)) \in Nat
  OBVIOUS
<1>1. Len(queue) \in Nat
  BY LenProperties
<1>2. IsFiniteSet(1..Len(queue)) /\ At(t) \subseteq 1..Len(queue)
  BY <1>1, FS_Interval DEF At
<1>3. IsFiniteSet(At(t))
  BY <1>2, FS_Subset
<1> QED
  BY <1>3, FS_CardinalityType

\* One more posted is one more to count.
LEMMA PostedCounts ==
  ASSUME queue \in Seq(Tasks), NEW t \in Tasks, queue' = Append(queue, t)
  PROVE  /\ \A s \in Tasks : s # t => Cardinality(At(s))' = Cardinality(At(s))
         /\ Cardinality(At(t))' = Cardinality(At(t)) + 1
         /\ \A s \in Tasks : Cardinality(At(s)) \in Nat
<1>1. /\ \A s \in Tasks : At(s)' = IF s = t THEN At(s) \union {Len(queue) + 1} ELSE At(s)
      /\ \A s \in Tasks : At(s) \subseteq 1..Len(queue)
      /\ Len(queue) \in Nat
  BY QueueGrows
<1>2. \A s \in Tasks : IsFiniteSet(At(s)) /\ Cardinality(At(s)) \in Nat
  BY AtFinite
<1>3. Len(queue) + 1 \notin At(t)
  BY <1>1
<1>4. Cardinality(At(t) \union {Len(queue) + 1}) = Cardinality(At(t)) + 1
  BY <1>2, <1>3, FS_AddElement
<1> QED
  BY <1>1, <1>2, <1>4

\* One less waits when the first leaves.
LEMMA TakenCounts ==
  ASSUME queue \in Seq(Tasks), queue # <<>>, queue' = Tail(queue)
  PROVE  /\ \A s \in Tasks :
               Cardinality(At(s))' = Cardinality(At(s)) - (IF s = Head(queue) THEN 1 ELSE 0)
         /\ \A s \in Tasks : Cardinality(At(s)) \in Nat
<1>1. /\ Head(queue) \in Tasks /\ 1 \in At(Head(queue))
      /\ \A s \in Tasks : At(s)' = {i - 1 : i \in At(s) \ {1}}
      /\ \A s \in Tasks : At(s) \subseteq 1..Len(queue)
      /\ \A s \in Tasks : s # Head(queue) => 1 \notin At(s)
      /\ Len(queue) \in Nat
  BY QueueShrinks
<1>2. \A s \in Tasks : IsFiniteSet(At(s)) /\ Cardinality(At(s)) \in Nat
  BY AtFinite
<1>3. ASSUME NEW s \in Tasks PROVE Cardinality(At(s))' = Cardinality(At(s) \ {1})
  <2> DEFINE A == At(s) \ {1}
             B == {i - 1 : i \in A}
             down == [i \in A |-> i - 1]
  <2>1. IsFiniteSet(A) /\ A \subseteq Int
    BY <1>1, <1>2, FS_Subset
  <2> HIDE DEF A
  <2>2. down \in Bijection(A, B)
    BY <2>1, Fun_IsBij
  <2>3. ExistsBijection(A, B)
    BY <2>2, Fun_ExistsBij
  <2>4. Cardinality(B) = Cardinality(A)
    BY <2>1, <2>3, FS_Bijection
  <2> QED
    BY <1>1, <2>4 DEF A
<1>4. ASSUME NEW s \in Tasks, s # Head(queue) PROVE At(s) \ {1} = At(s)
  BY <1>1, <1>4
<1>5. ASSUME NEW s \in Tasks, s = Head(queue)
      PROVE  Cardinality(At(s) \ {1}) = Cardinality(At(s)) - 1
  BY <1>1, <1>2, <1>5, FS_RemoveElement
<1>6. ASSUME NEW s \in Tasks
      PROVE  Cardinality(At(s))' = Cardinality(At(s)) - (IF s = Head(queue) THEN 1 ELSE 0)
  <2> DEFINE n == Cardinality(At(s))
  <2>1. n \in Nat
    BY <1>2
  <2>2. s = Head(queue) => n' = n - 1
    BY <1>3, <1>5
  <2>3. s # Head(queue) => n' = n
    BY <1>3, <1>4
  <2> QED
    BY <2>1, <2>2, <2>3
<1> QED
  BY <1>2, <1>6

----------------------------------------------------------------------------
(* Types *)

\* The initial state satisfies the invariant.
LEMMA InitIInv == Init => IInv
<1> SUFFICES ASSUME Init PROVE IInv
  OBVIOUS
<1>1. queue \in Seq(Tasks) /\ \A t : At(t) = {}
  <2>1. <<>> \in Seq(Tasks) /\ Len(<<>>) = 0
    BY EmptySeq
  <2> QED
    BY <2>1 DEF Init, At
<1>2. Cardinality({}) = 0
  BY FS_EmptySet
<1>3. Shape
  <2>1. /\ cb \in [K!Callbacks -> Nat]
        /\ asked \in [K!Prompts -> Nat] /\ answers \in [K!Prompts -> Nat]
    BY DEF Init, K!Init
  <2>2. cancels \in 0..1
    BY DEF Init
  <2>3. agreed \in BOOLEAN /\ accepted \in BOOLEAN
        /\ withSignal \in BOOLEAN /\ withKbi \in BOOLEAN /\ bye \in BOOLEAN /\ released \in BOOLEAN
    BY DEF Init, K!Init
  <2>4. aborted \in BOOLEAN /\ listener \in BOOLEAN /\ cleanup \in BOOLEAN
    BY DEF Init
  <2>5. pc = "idle" /\ promise = "pending"
    BY DEF Init
  <2> QED
    BY <1>1, <2>1, <2>2, <2>3, <2>4, <2>5 DEF Shape
<1>4. Prompted
  <2>1. \A k \in K!Prompts : asked[k] = 0 /\ answers[k] = 0 /\ cb[k] = 0 /\ Cardinality(At(k)) = 0
    BY <1>1, <1>2 DEF Init, K!Init, K!Callbacks, K!Prompts
  <2> QED
    BY <2>1 DEF Prompted
<1>5. Ordered /\ Passed /\ Consented /\ ContextAlive
  BY <1>1 DEF Init, Ordered, Passed, Consented, ContextAlive
<1>6. Unheard
  BY <1>1 DEF Init, Unheard, Before, K!Init, K!Terminals, K!Callbacks, K!Prompts
<1> QED
  BY <1>3, <1>4, <1>5, <1>6 DEF IInv

\* A step posts a task, takes one, or leaves the queue alone.
LEMMA QueueSteps ==
  [Next]_vars => \/ UNCHANGED queue
                 \/ \E t \in Tasks : queue' = Append(queue, t)
                 \/ queue # <<>> /\ queue' = Tail(queue)
BY DEF Next, vars, Throws, Refuses, EntersNative, JavaScript, LeavesNative, RunsStarted,
   RunsSettled, RunsPrompt, RunsDisconnected, Runs, Abort, AppAnswers, AppDisconnects,
   OnPrompt, OnConnected, OnError, OnDisconnected, Release, Over, Posts, Settles, Tasks

\* Every step keeps the types; a cancel is called once at most.
LEMMA NextShape == Shape /\ Passed /\ Unheard /\ [Next]_vars => Shape'
<1> SUFFICES ASSUME Shape, Passed, Unheard, [Next]_vars PROVE Shape'
  OBVIOUS
<1> DEFINE Rest ==
      /\ cb \in [K!Callbacks -> Nat] /\ bye \in BOOLEAN /\ released \in BOOLEAN
      /\ withSignal \in BOOLEAN /\ withKbi \in BOOLEAN
      /\ aborted \in BOOLEAN /\ listener \in BOOLEAN /\ cleanup \in BOOLEAN
      /\ pc \in {"idle", "native", "awaiting", "connected", "failed"}
      /\ promise \in {"pending", "resolved", "rejected"}
      /\ asked \in [K!Prompts -> Nat] /\ answers \in [K!Prompts -> Nat]
      /\ agreed \in BOOLEAN /\ accepted \in BOOLEAN
      /\ cancels \in 0..1
<1>1. queue' \in Seq(Tasks)
  <2>1. queue \in Seq(Tasks)
    BY DEF Shape
  <2> QED
    BY <2>1, QueueSteps, AppendProperties, HeadTailProperties
<1>2. Rest'
  <2>0. Rest
    BY DEF Shape
  <2> USE DEF Awaited, native, given, abort, prompts, Callback, K!Delivers
  <2>1. CASE Throws BY <2>0, <2>1 DEF Throws
  <2>2. CASE Refuses BY <2>0, <2>2 DEF Refuses
  <2>3. CASE EntersNative BY <2>0, <2>3 DEF EntersNative
  <2>4. CASE LeavesNative BY <2>0, <2>4 DEF LeavesNative
  <2>5. CASE RunsStarted
    <3>1. queue # <<>> /\ Head(queue) = "started"
      BY <2>5 DEF RunsStarted, Runs
    <3>2. 1 \in At("started")
      BY <3>1, QueueShrinks DEF Shape, Tasks, At, Runs
    <3>3. cancels = 0
      BY <3>2 DEF Passed
    <3>4. cancels' \in 0..1
      BY <2>5, <3>3 DEF RunsStarted, Started
    <3>5. listener' \in BOOLEAN /\ cleanup' \in BOOLEAN
      BY <2>0, <2>5 DEF RunsStarted, Started
    <3>6. UNCHANGED <<native, given, promise, pc, aborted, prompts>>
      BY <2>5 DEF RunsStarted, Runs
    <3> QED
      BY <2>0, <3>4, <3>5, <3>6
  <2>6. CASE RunsSettled
    <3>1. pc' \in {"awaiting", "connected", "failed"}
      BY <2>6 DEF RunsSettled
    <3>2. listener' \in BOOLEAN /\ cleanup' \in BOOLEAN
      BY <2>6 DEF RunsSettled, Finally
    <3>3. UNCHANGED <<native, given, promise, aborted, cancels, prompts>>
      BY <2>6 DEF RunsSettled, Runs
    <3> QED
      BY <2>0, <3>1, <3>2, <3>3
  <2>7. ASSUME NEW k \in K!Prompts, RunsPrompt(k) PROVE Rest'
    <3>1. PICK o \in {"inner", "null", "rejected"} : OuterSettles(k, o)
      BY <2>7 DEF RunsPrompt
    <3>2. /\ asked' = [asked EXCEPT ![k] = @ + 1] \/ UNCHANGED asked
          /\ answers' = [answers EXCEPT ![k] = @ + 1] \/ UNCHANGED answers
      BY <3>1 DEF OuterSettles, Responds
    <3>3. accepted' \in BOOLEAN
      <4>1. CASE UNCHANGED accepted BY <2>0, <4>1
      <4>2. CASE Responds(k, "none") BY <4>2 DEF Responds
      <4> QED
        BY <3>1, <4>1, <4>2 DEF OuterSettles
    <3>4. UNCHANGED <<native, given, abort, pc, promise, agreed>>
      BY <2>7 DEF RunsPrompt, Runs
    <3> QED
      BY <2>0, <3>2, <3>3, <3>4
  <2>8. CASE RunsDisconnected BY <2>0, <2>8 DEF RunsDisconnected, Runs
  <2>9. CASE Abort
    <3>1. cancels = 0
      BY <2>9 DEF Abort, Passed
    <3>2. /\ aborted' = TRUE /\ listener' = FALSE /\ cancels' \in 0..1
          /\ UNCHANGED <<native, given, pc, cleanup, queue, promise, prompts, dangled>>
      BY <2>9, <3>1 DEF Abort
    <3> QED
      BY <2>0, <3>2
  <2>10. ASSUME NEW k \in K!Prompts, AppAnswers(k) PROVE Rest'
    <3>1. /\ asked[k] > 0 /\ asked' = [asked EXCEPT ![k] = @ - 1]
          /\ answers' = [answers EXCEPT ![k] = @ + 1]
          /\ agreed' \in BOOLEAN /\ accepted' \in BOOLEAN
          /\ UNCHANGED <<native, given, abort, pc, queue, promise, dangled>>
      BY <2>10 DEF AppAnswers, InnerSettles, Responds
    <3> QED
      BY <2>0, <3>1
  <2>11. CASE AppDisconnects BY <2>0, <2>11 DEF AppDisconnects, K!HangsUp
  <2>12. ASSUME NEW k \in K!Prompts, OnPrompt(k) PROVE Rest'
    <3>1. k \in K!Callbacks
      BY DEF K!Callbacks
    <3>2. /\ cb' = [cb EXCEPT ![k] = @ + 1] /\ released' \in BOOLEAN
          /\ UNCHANGED <<bye, given, abort, pc, asked, agreed, promise>>
          /\ answers' = [answers EXCEPT ![k] = @ + 1] \/ UNCHANGED answers
          /\ accepted' \in BOOLEAN
      BY <2>0, <2>12 DEF OnPrompt, Responds
    <3> QED
      BY <2>0, <3>1, <3>2
  <2>13. CASE OnConnected BY <2>0, <2>13 DEF OnConnected, Settles, K!Callbacks
  <2>14. CASE OnError BY <2>0, <2>14 DEF OnError, Settles, K!Callbacks
  <2>15. CASE OnDisconnected BY <2>0, <2>15 DEF OnDisconnected, K!Callbacks
  <2>16. CASE Release BY <2>0, <2>16 DEF Release
  <2>17. CASE UNCHANGED vars BY <2>0, <2>17 DEF vars
  <2> HIDE DEF Rest, Awaited, native, given, abort, prompts, Callback, K!Delivers
  <2> QED
    BY <2>1, <2>2, <2>3, <2>4, <2>5, <2>6, <2>7, <2>8, <2>9, <2>10, <2>11, <2>12, <2>13,
       <2>14, <2>15, <2>16, <2>17
    DEF Next, JavaScript, Over
<1> QED
  BY <1>1, <1>2 DEF Shape

----------------------------------------------------------------------------
(* Prompts *)

\* Only a prompt that is delivered, taken from the queue or answered moves the counts,
\* and it moves two of them.
LEMMA NextPrompted == Shape /\ Prompted /\ [Next]_vars => Prompted'
<1> SUFFICES ASSUME Shape, Prompted, [Next]_vars, NEW k \in K!Prompts
             PROVE  asked'[k] + answers'[k] + Cardinality(At(k))' = cb'[k]
  BY DEF Prompted
<1> DEFINE n == Cardinality(At(k))
<1>a. /\ k \in Tasks /\ k \in K!Callbacks
      /\ k \notin {"started", "settled", "disconnected", "connected", "error"}
  BY DEF Tasks, K!Callbacks, K!Prompts
<1>b. queue \in Seq(Tasks) /\ \A t \in K!Callbacks : cb[t] \in Nat /\ t \in DOMAIN cb
  BY DEF Shape
<1>c. /\ asked[k] \in Nat /\ answers[k] \in Nat /\ cb[k] \in Nat /\ n \in Nat
      /\ asked[k] + answers[k] + n = cb[k]
  BY <1>b, AtFinite DEF Shape, Prompted, K!Callbacks
<1>d. UNCHANGED queue => n' = n
  BY DEF At
<1>e. ASSUME NEW t \in Tasks, Posts(t) PROVE n' = n + (IF t = k THEN 1 ELSE 0)
  BY <1>a, <1>b, <1>c, <1>e, PostedCounts DEF Posts
<1>f. ASSUME NEW t \in Tasks, Runs(t) PROVE n' = n - (IF t = k THEN 1 ELSE 0)
  BY <1>a, <1>b, <1>f, TakenCounts DEF Runs
<1> DEFINE Goal == asked'[k] + answers'[k] + n' = cb'[k]
<1> SUFFICES Goal
  OBVIOUS
<1> HIDE DEF n
<1>1. CASE UNCHANGED <<cb, asked, answers, queue>>
  BY <1>1, <1>c, <1>d
<1>2. CASE LeavesNative
  BY <1>2, <1>a, <1>c, <1>d, <1>e DEF LeavesNative, native, prompts, Tasks
<1>3. CASE RunsStarted \/ RunsSettled \/ RunsDisconnected
  <2>1. UNCHANGED <<cb, asked, answers>>
    BY <1>3 DEF RunsStarted, RunsSettled, RunsDisconnected, Runs, native, prompts
  <2>2. n' = n
    BY <1>3, <1>a, <1>c, <1>f DEF RunsStarted, RunsSettled, RunsDisconnected, Tasks
  <2> QED
    BY <1>c, <2>1, <2>2
<1>4. ASSUME NEW p \in K!Prompts, RunsPrompt(p) PROVE Goal
  <2>1. /\ p \in Tasks /\ UNCHANGED cb
        /\ \/ UNCHANGED answers /\ asked' = [asked EXCEPT ![p] = @ + 1]
           \/ UNCHANGED asked /\ answers' = [answers EXCEPT ![p] = @ + 1]
    BY <1>4 DEF RunsPrompt, OuterSettles, Responds, Runs, native, Tasks
  <2>2. n' = n - (IF p = k THEN 1 ELSE 0)
    BY <1>4, <1>f, <2>1 DEF RunsPrompt
  <2>3. \/ answers'[k] = answers[k] /\ asked'[k] = asked[k] + (IF p = k THEN 1 ELSE 0)
        \/ asked'[k] = asked[k] /\ answers'[k] = answers[k] + (IF p = k THEN 1 ELSE 0)
    BY <1>c, <2>1 DEF Shape
  <2> QED
    BY <1>c, <2>1, <2>2, <2>3
<1>5. ASSUME NEW p \in K!Prompts, AppAnswers(p) PROVE Goal
  <2>1. /\ UNCHANGED <<cb, queue>> /\ asked' = [asked EXCEPT ![p] = @ - 1]
        /\ answers' = [answers EXCEPT ![p] = @ + 1]
    BY <1>5 DEF AppAnswers, InnerSettles, Responds, native
  <2>2. /\ asked'[k] = asked[k] - (IF p = k THEN 1 ELSE 0)
        /\ answers'[k] = answers[k] + (IF p = k THEN 1 ELSE 0)
    BY <1>c, <2>1 DEF Shape
  <2> QED
    BY <1>c, <1>d, <2>1, <2>2
<1>6. ASSUME NEW p \in K!Prompts, OnPrompt(p) PROVE Goal
  <2>1. /\ p \in Tasks /\ UNCHANGED asked /\ cb' = [cb EXCEPT ![p] = @ + 1]
        /\ \/ Posts(p) /\ UNCHANGED answers
           \/ UNCHANGED queue /\ answers' = [answers EXCEPT ![p] = @ + 1]
    BY <1>6 DEF OnPrompt, Responds, Callback, K!Delivers, Tasks
  <2>2. answers'[k] + n' = answers[k] + n + (IF p = k THEN 1 ELSE 0)
    <3>1. CASE Posts(p) /\ UNCHANGED answers
      BY <1>c, <1>e, <2>1, <3>1
    <3>2. CASE UNCHANGED queue /\ answers' = [answers EXCEPT ![p] = @ + 1]
      <4>1. answers'[k] = answers[k] + (IF p = k THEN 1 ELSE 0)
        BY <1>c, <3>2 DEF Shape
      <4> QED
        BY <1>c, <1>d, <3>2, <4>1
    <3> QED
      BY <2>1, <3>1, <3>2
  <2>3. cb'[k] = cb[k] + (IF p = k THEN 1 ELSE 0)
    BY <1>a, <1>b, <1>c, <2>1
  <2>4. answers'[k] \in Nat /\ n' \in Nat
    BY <1>c, <1>d, <1>e, <2>1 DEF Shape
  <2> QED
    BY <1>c, <2>1, <2>2, <2>3, <2>4
<1>7. CASE OnConnected \/ OnError \/ OnDisconnected
  <2>1. PICK t \in {"connected", "error", "disconnected"} : cb' = [cb EXCEPT ![t] = @ + 1]
    BY <1>7 DEF OnConnected, OnError, OnDisconnected, Callback, K!Delivers
  <2>2. UNCHANGED <<asked, answers>> /\ cb'[k] = cb[k]
    BY <1>7, <1>a, <1>b, <2>1 DEF OnConnected, OnError, OnDisconnected, Callback, prompts
  <2>3. n' = n
    BY <1>7, <1>a, <1>c, <1>d, <1>e DEF OnConnected, OnError, OnDisconnected, Settles, Tasks
  <2> QED
    BY <1>c, <2>2, <2>3
<1> QED
  BY <1>1, <1>2, <1>3, <1>4, <1>5, <1>6, <1>7
  DEF Next, JavaScript, Throws, Refuses, EntersNative, Abort, AppDisconnects, K!HangsUp,
      Release, Over, vars, native, prompts

----------------------------------------------------------------------------
(* The abort *)

\* A task that is posted joins its kind at the end; one that is taken was the first.
LEMMA Joins ==
  ASSUME Shape, NEW t \in Tasks, Posts(t)
  PROVE  \A s \in Tasks : At(s)' = IF s = t THEN At(s) \union {Len(queue) + 1} ELSE At(s)
BY QueueGrows DEF Shape, Posts

\* The first task of a kind leaves it; the others move up.
LEMMA Leaves ==
  ASSUME Shape, NEW t \in Tasks, Runs(t)
  PROVE  /\ 1 \in At(t) /\ \A s \in Tasks : At(s)' = {i - 1 : i \in At(s) \ {1}}
         /\ \A s \in Tasks : s # t => At(s) \ {1} = At(s)
BY QueueShrinks DEF Shape, Runs

\* Positions are positive numbers.
LEMMA Positions ==
  ASSUME Shape
  PROVE  /\ Len(queue) \in Nat
         /\ \A s : At(s) \subseteq Int /\ \A i \in At(s) : i >= 1 /\ i <= Len(queue)
BY LenProperties DEF Shape, At

\* onStarted is posted when connect() leaves the native call, for nothing else before it.
LEMMA NextOrdered == Shape /\ Ordered /\ Unheard /\ [Next]_vars => Ordered'
<1> SUFFICES ASSUME Shape, Ordered, Unheard, [Next]_vars PROVE Ordered'
  OBVIOUS
<1>a. "started" \in Tasks /\ "settled" \in Tasks /\ "disconnected" \in Tasks
      /\ \A k \in K!Prompts : k \in Tasks /\ k \notin {"started", "settled"}
  BY DEF Tasks, K!Prompts
<1>b. promise # "pending" => promise' # "pending"
  BY DEF Next, vars, Throws, Refuses, EntersNative, JavaScript, LeavesNative, RunsStarted,
   RunsSettled, RunsPrompt, RunsDisconnected, Runs, Abort, AppAnswers, AppDisconnects,
   OnPrompt, OnConnected, OnError, OnDisconnected, Release, Over, Settles
<1>c. ASSUME At("started")' = At("started"), At("settled")' = At("settled") PROVE Ordered'
  BY <1>b, <1>c DEF Ordered
<1>1. CASE UNCHANGED queue
  BY <1>c, <1>1 DEF At
<1>2. CASE LeavesNative /\ Posts("started")
  <2>1. At("started") = {} /\ At("settled") = {}
    BY <1>2 DEF LeavesNative, Unheard, Before
  <2>2. At("started")' = {Len(queue) + 1} /\ At("settled")' = {}
    BY <1>2, <1>a, <2>1, Joins
  <2> QED
    BY <2>2 DEF Ordered
<1>3. ASSUME NEW r \in {"resolved", "rejected"}, Settles(r), Posts("settled") PROVE Ordered'
  <2>1. promise' # "pending"
    BY <1>3 DEF Settles
  <2>2. At("started")' = At("started") /\ At("settled")' = At("settled") \union {Len(queue) + 1}
    BY <1>3, <1>a, Joins
  <2>3. \A i \in At("started") : i < Len(queue) + 1
    BY Positions
  <2> QED
    BY <2>1, <2>2, <2>3 DEF Ordered
<1>4. ASSUME NEW t \in Tasks \ {"started", "settled"}, Posts(t) PROVE Ordered'
  BY <1>4, <1>a, <1>c, Joins
<1>5. ASSUME NEW t \in Tasks, Runs(t) PROVE Ordered'
  <2>1. At("started")' = {i - 1 : i \in At("started") \ {1}}
        /\ At("settled")' = {i - 1 : i \in At("settled") \ {1}}
    BY <1>5, <1>a, Leaves
  <2>2. At("started") \subseteq Int /\ At("settled") \subseteq Int
    BY Positions
  <2>3. \A i, j \in At("started")' : i = j
    BY <2>1 DEF Ordered
  <2>4. \A i \in At("started")', j \in At("settled")' : i < j
    BY <2>1, <2>2 DEF Ordered
  <2> QED
    BY <1>b, <2>1, <2>3, <2>4 DEF Ordered
<1>6. \/ UNCHANGED queue
      \/ LeavesNative /\ Posts("started")
      \/ \E r \in {"resolved", "rejected"} : Settles(r) /\ Posts("settled")
      \/ \E t \in Tasks \ {"started", "settled"} : Posts(t)
      \/ \E t \in Tasks : Runs(t)
  BY <1>a DEF Next, vars, Throws, Refuses, EntersNative, JavaScript, LeavesNative, RunsStarted,
     RunsSettled, RunsPrompt, RunsDisconnected, Abort, AppAnswers, AppDisconnects,
     OnPrompt, OnConnected, OnError, OnDisconnected, Release, Over, Settles
<1> QED
  BY <1>1, <1>2, <1>3, <1>4, <1>5, <1>6

\* A refusal is no consent.
LEMMA RefusalIsNone ==
  ASSUME NEW k, Responds(k, "none")
  PROVE  accepted' <=> accepted
<1>1. "none" # "true"
  OBVIOUS
<1> QED
  BY <1>1, Zenon DEF Responds

\* Nothing that runs in the JavaScript thread runs before the native call returns.
LEMMA NextUnheard == Shape /\ Unheard /\ [Next]_vars => Unheard'
<1> SUFFICES ASSUME Shape, Unheard, [Next]_vars PROVE Unheard'
  OBVIOUS
<1>a. "started" \in Tasks /\ "settled" \in Tasks /\ "disconnected" \in Tasks
      /\ \A k \in K!Prompts : k \in Tasks /\ k \notin {"started", "settled"}
  BY DEF Tasks, K!Prompts
<1>1. CASE pc' \notin {"idle", "native"}
  BY <1>1 DEF Unheard, Before
<1>2. CASE EntersNative \/ UNCHANGED vars
  <2>1. /\ pc \in {"idle", "native"} =>
             UNCHANGED <<queue, asked, accepted, promise, cancels, listener>>
        /\ pc' = "idle" => pc = "idle" /\ UNCHANGED cb
        /\ pc' \in {"idle", "native"} => pc \in {"idle", "native"}
    BY <1>2 DEF EntersNative, vars, abort, prompts
  <2> QED
    BY <2>1 DEF Unheard, Before, At, K!Terminals
<1>3. ASSUME pc = "idle", pc' = "idle", ~UNCHANGED vars PROVE Unheard'
  <2>1. queue = <<>> /\ K!Terminals = 0 /\ \A k \in K!Prompts : asked[k] = 0
    BY <1>3 DEF Unheard, Before
  <2>2. ~Began
    BY <1>3, <2>1 DEF Began
  <2>3. Abort \/ Release
    BY <1>3, <2>1, <2>2 DEF Next, JavaScript, Throws, Refuses, EntersNative, LeavesNative,
       RunsStarted, RunsSettled, RunsPrompt, RunsDisconnected, Runs, AppAnswers,
       AppDisconnects, OnPrompt, OnConnected, OnError, OnDisconnected, Callback, Over
  <2>4. /\ UNCHANGED <<queue, asked, accepted, promise, cb>> /\ cancels' = 0 /\ ~listener'
    BY <1>3, <2>3 DEF Abort, Release, abort, prompts, native, Unheard, Before
  <2> QED
    BY <1>3, <2>4 DEF Unheard, Before, At, K!Terminals
<1>4. ASSUME pc = "native", pc' = "native", ~UNCHANGED vars PROVE Unheard'
  <2>1. /\ At("started") = {} /\ At("settled") = {} /\ promise # "resolved"
        /\ (\A k \in K!Prompts : asked[k] = 0) /\ ~accepted
    BY <1>4 DEF Unheard, Before
  <2>2. \/ Release \/ OnError \/ OnDisconnected
        \/ \E k \in K!Prompts : OnPrompt(k)
    BY <1>4, <2>1 DEF Next, JavaScript, Throws, Refuses, EntersNative, LeavesNative, Abort,
       RunsStarted, RunsSettled, RunsPrompt, RunsDisconnected, Runs, AppAnswers,
       AppDisconnects, OnConnected, Over, Awaited, K!Prompts
  <2>3. UNCHANGED <<asked, cancels, listener>> /\ ~accepted' /\ promise' # "resolved"
    BY <2>1, <2>2, RefusalIsNone
    DEF Release, OnError, OnDisconnected, OnPrompt, Callback, Settles, abort, prompts
  <2>4. At("started")' = At("started") /\ At("settled")' = At("settled")
    <3>1. CASE UNCHANGED queue
      BY <3>1 DEF At
    <3>2. ASSUME NEW t \in Tasks \ {"started", "settled"}, Posts(t)
          PROVE  At("started")' = At("started") /\ At("settled")' = At("settled")
      BY <3>2, <1>a, Joins
    <3> QED
      BY <1>4, <1>a, <2>2, <3>1, <3>2 DEF Release, OnError, OnDisconnected, OnPrompt, Settles
  <2> QED
    BY <1>4, <2>1, <2>3, <2>4 DEF Unheard, Before
<1>5. pc' \in {"idle", "native"} => pc' = pc \/ EntersNative
  BY DEF Next, vars, JavaScript, Throws, Refuses, EntersNative, LeavesNative, Abort,
       RunsStarted, RunsSettled, RunsPrompt, RunsDisconnected, Runs, AppAnswers, abort,
       AppDisconnects, OnPrompt, OnConnected, OnError, OnDisconnected, Release, Callback,
       Over, Awaited
<1> QED
  BY <1>1, <1>2, <1>3, <1>4, <1>5

\* An abort finds onStarted ahead, the listener in place, or the attempt over.
LEMMA NextPassed == Shape /\ Ordered /\ Unheard /\ Passed /\ [Next]_vars => Passed'
<1> SUFFICES ASSUME Shape, Ordered, Unheard, Passed, [Next]_vars PROVE Passed'
  OBVIOUS
<1>a. "started" \in Tasks /\ "settled" \in Tasks /\ "disconnected" \in Tasks
      /\ \A k \in K!Prompts : k \in Tasks /\ k # "started"
  BY DEF Tasks, K!Prompts
<1>b. ASSUME NEW t \in Tasks \ {"started"}, Posts(t) PROVE At("started")' = At("started")
  BY <1>a, <1>b, Joins
<1>c. ASSUME NEW t \in Tasks \ {"started"}, Runs(t)
      PROVE  At("started")' = {} <=> At("started") = {}
  BY <1>a, <1>c, Leaves
<1>1. CASE /\ UNCHANGED <<abort, given>> /\ (At("started")' = {} <=> At("started") = {})
           /\ pc' = pc \/ pc' \notin {"awaiting", "connected"}
  BY <1>1 DEF Passed, abort, given
<1>2. CASE Throws \/ Refuses \/ EntersNative \/ AppDisconnects \/ Release \/ UNCHANGED vars
  <2>1. At("started")' = At("started")
    BY <1>2 DEF Throws, Refuses, EntersNative, AppDisconnects, Release, vars, At
  <2> QED
    BY <1>1, <1>2, <2>1
    DEF Throws, Refuses, EntersNative, AppDisconnects, Release, vars, abort, given
<1>3. CASE LeavesNative
  <2>1. /\ At("started") = {} /\ promise # "resolved" /\ cancels = 0 /\ ~listener
        /\ pc' \in {"awaiting", "failed"} /\ UNCHANGED <<abort, given>>
    BY <1>3 DEF LeavesNative, Unheard, Before, Awaited
  <2>2. CASE withSignal
    <3>1. At("started")' # {}
      BY <1>3, <1>a, <2>2, Joins DEF LeavesNative
    <3> QED
      BY <2>1, <3>1 DEF Passed, abort, given
  <2>3. CASE ~withSignal
    BY <2>1, <2>3 DEF Passed, abort, given
  <2> QED
    BY <2>2, <2>3
<1>4. CASE RunsStarted
  <2>1. At("started")' = {} /\ At("started") # {}
    <3>1. 1 \in At("started") /\ At("started")' = {i - 1 : i \in At("started") \ {1}}
      BY <1>4, <1>a, Leaves DEF RunsStarted
    <3>2. At("started") \ {1} = {}
      BY <3>1 DEF Ordered
    <3> QED
      BY <3>1, <3>2
  <2>2. ~listener /\ cancels = 0 /\ pc # "connected" /\ pc' = pc /\ UNCHANGED <<given, aborted>>
    BY <1>4, <2>1 DEF Passed, RunsStarted, Runs
  <2>3. IF aborted THEN cancels' = 1 /\ UNCHANGED listener
                   ELSE cancels' = 0 /\ listener' = TRUE /\ cleanup' = TRUE
    BY <1>4, <2>2 DEF RunsStarted, Started
  <2> QED
    BY <2>1, <2>2, <2>3 DEF Passed, given
<1>5. CASE RunsSettled
  <2>1. 1 \in At("settled") /\ (At("started")' = {} <=> At("started") = {})
    BY <1>5, <1>a, <1>c, Leaves DEF RunsSettled
  <2>2. At("started") = {} /\ promise # "pending"
    BY <2>1, Positions DEF Ordered
  <2>3. pc' # "awaiting" /\ listener' = FALSE /\ UNCHANGED <<given, aborted, cancels>>
    BY <1>5, <2>2 DEF RunsSettled, Runs, Finally, Awaited, Passed, Shape
  <2> QED
    BY <2>1, <2>2, <2>3 DEF Passed, given
<1>6. CASE RunsDisconnected \/ \E k \in K!Prompts : RunsPrompt(k)
  <2>1. At("started")' = {} <=> At("started") = {}
    BY <1>6, <1>a, <1>c DEF RunsDisconnected, RunsPrompt
  <2> QED
    BY <1>1, <1>6, <2>1 DEF RunsDisconnected, RunsPrompt, Runs
<1>7. CASE Abort
  <2>1. /\ withSignal /\ ~aborted /\ cancels = 0 /\ aborted' = TRUE /\ listener' = FALSE
        /\ cancels' = IF listener THEN 1 ELSE 0
        /\ UNCHANGED <<pc, withSignal>> /\ At("started")' = At("started")
    BY <1>7 DEF Abort, Passed, At, given
  <2> QED
    BY <2>1 DEF Passed
<1>8. ASSUME NEW k \in K!Prompts, AppAnswers(k) PROVE Passed'
  <2>1. At("started")' = At("started")
    BY <1>8 DEF AppAnswers, At
  <2> QED
    BY <1>1, <1>8, <2>1 DEF AppAnswers
<1>9. CASE OnConnected \/ OnError \/ OnDisconnected \/ \E k \in K!Prompts : OnPrompt(k)
  <2>1. UNCHANGED queue \/ \E t \in Tasks \ {"started"} : Posts(t)
    BY <1>9, <1>a DEF OnConnected, OnError, OnDisconnected, OnPrompt, Settles
  <2>2. At("started")' = At("started")
    BY <1>b, <2>1 DEF At
  <2>3. UNCHANGED <<abort, given, pc>>
    BY <1>9 DEF OnConnected, OnError, OnDisconnected, OnPrompt, Callback
  <2> QED
    BY <1>1, <2>2, <2>3
<1> QED
  BY <1>2, <1>3, <1>4, <1>5, <1>6, <1>7, <1>8, <1>9 DEF Next, JavaScript, Over

\* Only the wrapper's true is passed on to Rust, and only over it a connection comes.
LEMMA NextConsented == Consented /\ [Next]_vars => Consented'
<1> SUFFICES ASSUME Consented, [Next]_vars PROVE Consented'
  OBVIOUS
<1>1. CASE /\ UNCHANGED agreed /\ (accepted' <=> accepted)
           /\ promise' = "resolved" => promise = "resolved"
  BY <1>1 DEF Consented
<1>2. ASSUME NEW k \in K!Prompts, RunsPrompt(k) PROVE Consented'
  <2>1. UNCHANGED <<agreed, promise>> /\ (accepted' <=> accepted)
    BY <1>2, RefusalIsNone DEF RunsPrompt, OuterSettles, Runs
  <2> QED
    BY <1>1, <2>1
<1>3. ASSUME NEW k \in K!Prompts, AppAnswers(k) PROVE Consented'
  <2>1. accepted' => accepted \/ agreed'
    BY <1>3 DEF AppAnswers, InnerSettles, Responds, Wrapped
  <2>2. (accepted => accepted') /\ (agreed => agreed') /\ UNCHANGED promise
    BY <1>3 DEF AppAnswers, InnerSettles, Responds
  <2> QED
    BY <2>1, <2>2 DEF Consented
<1>4. ASSUME NEW k \in K!Prompts, OnPrompt(k) PROVE Consented'
  <2>1. UNCHANGED <<agreed, promise>> /\ (accepted' <=> accepted)
    BY <1>4, RefusalIsNone DEF OnPrompt, Callback
  <2> QED
    BY <1>1, <2>1
<1>5. CASE OnConnected
  BY <1>5 DEF OnConnected, prompts, Consented
<1>6. CASE OnError \/ OnDisconnected
  BY <1>1, <1>6 DEF OnError, OnDisconnected, Settles, prompts
<1> QED
  BY <1>1, <1>2, <1>3, <1>4, <1>5, <1>6
  DEF Next, vars, JavaScript, Throws, Refuses, EntersNative, LeavesNative, RunsStarted,
      RunsSettled, RunsDisconnected, Runs, Abort, AppDisconnects, Release, Over, prompts

\* Nobody calls back once the context was released, and connect() has its own copy of
\* what it calls.
LEMMA NextAlive == ContextAlive /\ [Next]_vars => ContextAlive'
BY DEF ContextAlive, Next, vars, JavaScript, Throws, Refuses, EntersNative, LeavesNative,
   Abort, RunsStarted, RunsSettled, RunsPrompt, RunsDisconnected, Runs,
   AppAnswers, AppDisconnects, OnPrompt, OnConnected, OnError, OnDisconnected, Release,
   Callback, K!Releasing, Over

----------------------------------------------------------------------------
(* The theorems *)

\* The invariant behind the theorems below holds in every run.
THEOREM Invariance == Spec => []IInv
<1>1. IInv /\ [Next]_vars => IInv'
  BY NextShape, NextPrompted, NextOrdered, NextUnheard, NextPassed,
     NextConsented, NextAlive
  DEF IInv
<1> QED
  BY InitIInv, <1>1, PTL DEF Spec

\* Every variable has its type; the app's handlers are answered for at most as often as
\* they were called, and an attempt is cancelled at most once.
THEOREM TypeCorrect == Spec => []TypeOK
<1>1. IInv => TypeOK
  <2> SUFFICES ASSUME IInv PROVE TypeOK
    OBVIOUS
  <2>1. ASSUME NEW k \in K!Prompts PROVE asked[k] + answers[k] <= cb[k]
    <3>1. /\ asked[k] \in Nat /\ answers[k] \in Nat /\ Cardinality(At(k)) \in Nat
          /\ asked[k] + answers[k] + Cardinality(At(k)) = cb[k]
      BY AtFinite DEF IInv, Shape, Prompted
    <3> QED
      BY <3>1
  <2> QED
    BY <2>1 DEF IInv, Shape, Passed, TypeOK
<1> QED
  BY Invariance, <1>1, PTL

\* An abort reaches exactly the attempt it is for, whenever it comes and whatever the
\* other threads have done by then; none is left over for a later one.
THEOREM AbortExact == Spec => []CancelExact
<1>1. IInv => CancelExact
  <2> SUFFICES ASSUME IInv PROVE CancelExact
    OBVIOUS
  <2>1. queue \in Seq(Tasks)
    BY DEF IInv, Shape
  <2>2. DOMAIN queue = 1..Len(queue)
    BY <2>1, LenProperties
  <2>3. Queued("started") <=> At("started") # {}
    BY <2>2 DEF Queued, Range, At
  <2> QED
    BY <2>3 DEF IInv, Passed, CancelExact
<1> QED
  BY Invariance, <1>1, PTL

\* A connection is handed over only if the app's verifyHostKey has said true, whatever
\* goes wrong between the app's handler and Rust.
THEOREM ConsentConnects == Spec => []OnlyConsentConnects
<1>1. IInv => OnlyConsentConnects
  BY DEF IInv, Consented, OnlyConsentConnects
<1> QED
  BY Invariance, <1>1, PTL

\* No thread reads the context of the callbacks after Rust has released it, and no
\* listener of a prompt that is answered later.
THEOREM ContextOutlives == Spec => []ContextAlive
<1>1. IInv => ContextAlive
  BY DEF IInv
<1> QED
  BY Invariance, <1>1, PTL
=============================================================================
