----------------------------- MODULE ExecProofs -----------------------------
(***************************************************************************)
(* Proofs about Exec, for any chunks, any statuses, any limit, and any     *)
(* number of messages in any order.  What a run of messages carries is a   *)
(* fold over them: the first part shows that it grows message by message.  *)
(* The next four are about Sanitize alone, and show that it repairs every  *)
(* sequence of bytes.  The rest shows that the task collects what was sent *)
(* and settles its promise with it.                                        *)
(***************************************************************************)
EXTENDS Exec, DataLemmas

----------------------------------------------------------------------------
(* What messages carry *)

\* Messages that carry output are the only ones of these kinds.
LEMMA OutputBytes ==
  \A m \in Message : m.kind \in OutputKinds => m.bytes \in Seq(Byte)
<1> SUFFICES ASSUME NEW m \in Message, m.kind \in OutputKinds PROVE m.bytes \in Chunks
  BY ChunksAssumption
<1> QED
  BY DEF Message, OutputKinds

\* h is what is collected on the way through the messages, one after the other.
Collects(h, msgs, kinds) ==
    /\ \A k \in 0..Len(msgs) : h[k] \in Seq(Byte)
    /\ h[0] = <<>>
    /\ \A k \in 1..Len(msgs) :
         h[k] = IF msgs[k].kind \in kinds THEN h[k - 1] \o msgs[k].bytes ELSE h[k - 1]

\* The fold over all messages is what is collected in the end.
LEMMA OutputFolds ==
  ASSUME NEW msgs \in Seq(Message), NEW kinds \in SUBSET OutputKinds
  PROVE  \E h : Collects(h, msgs, kinds) /\ Output(msgs, kinds) = h[Len(msgs)]
<1> DEFINE A == Message
           V == Seq(Byte)
           D == DOMAIN msgs
           step == [p \in V \X A |->
                      IF p[2].kind \in kinds THEN p[1] \o p[2].bytes ELSE p[1]]
           Inline(it) == it = [S \in SUBSET DOMAIN msgs |->
                IF S = {} THEN <<>>
                ELSE IF msgs[Max(S)].kind \in kinds
                     THEN it[S \ {Max(S)}] \o msgs[Max(S)].bytes
                     ELSE it[S \ {Max(S)}]]
           fold == CHOOSE it : Inline(it)
           h == [k \in 0..Len(msgs) |-> fold[1..k]]
<1>1. Len(msgs) \in Nat /\ D = 1..Len(msgs)
  BY LenProperties
<1>2. \A b \in V, m \in A : (IF m.kind \in kinds THEN b \o m.bytes ELSE b) \in V
  BY OutputBytes, ConcatProperties
<1>3. step \in [V \X A -> V]
  <2>1. \A p \in V \X A : p[1] \in V /\ p[2] \in A
    OBVIOUS
  <2> HIDE DEF A, V
  <2> QED
    BY <1>2, <2>1
<1>4. \A b \in V, m \in A :
        step[<<b, m>>] = IF m.kind \in kinds THEN b \o m.bytes ELSE b
  OBVIOUS
<1> HIDE DEF step
<1>5. \E it \in [SUBSET DOMAIN msgs -> V] : Inline(it)
  <2>1. PICK it \in [SUBSET DOMAIN msgs -> V] : IsLeftFold(it, msgs, <<>>, step)
    <3>1. msgs \in Seq(A) /\ <<>> \in V
      BY EmptySeq
    <3> HIDE DEF A, V
    <3> QED
      BY <1>3, <3>1, LeftFoldExists
  <2>2. ASSUME NEW S \in SUBSET DOMAIN msgs, S # {}
        PROVE  it[S \ {Max(S)}] \in V /\ msgs[Max(S)] \in A
    <3>1. Max(S) \in 1..Len(msgs)
      BY <1>1, <2>2, LastElement
    <3> QED
      BY <3>1, ElementOfSeq
  <2>3. ASSUME NEW S \in SUBSET DOMAIN msgs, S # {}
        PROVE  step[<<it[S \ {Max(S)}], msgs[Max(S)]>>] =
                 IF msgs[Max(S)].kind \in kinds
                 THEN it[S \ {Max(S)}] \o msgs[Max(S)].bytes ELSE it[S \ {Max(S)}]
    BY <1>4, <2>2, <2>3
  <2> HIDE DEF A, V
  <2>4. Inline(it)
    BY <2>1, <2>3, Zenon DEF IsLeftFold
  <2> QED
    BY <2>4
<1>6. Inline(fold)
  BY <1>5
<1>7. \A S \in SUBSET DOMAIN msgs :
        fold[S] = IF S = {} THEN <<>>
                  ELSE IF msgs[Max(S)].kind \in kinds
                       THEN fold[S \ {Max(S)}] \o msgs[Max(S)].bytes
                       ELSE fold[S \ {Max(S)}]
  <2> HIDE DEF fold
  <2> QED
    BY <1>6
<1>8. Output(msgs, kinds) = fold[DOMAIN msgs]
  BY DEF Output, FoldLeft, MapThenFoldSet
<1> HIDE DEF fold, Inline
<1>9. \A k \in 0..Len(msgs) : 1..k \in SUBSET DOMAIN msgs /\ h[k] = fold[1..k]
  BY <1>1
<1>10. h[0] = <<>> /\ h[Len(msgs)] = fold[DOMAIN msgs]
  <2>1. h[0] = fold[{}] /\ h[Len(msgs)] = fold[DOMAIN msgs]
    BY <1>1, <1>9, FirstPositions
  <2> QED
    BY <1>7, <2>1
<1>11. ASSUME NEW k \in 1..Len(msgs)
       PROVE  h[k] = IF msgs[k].kind \in kinds THEN h[k - 1] \o msgs[k].bytes ELSE h[k - 1]
  <2>1. PICK S, R : S = 1..k /\ R = 1..(k - 1)
    OBVIOUS
  <2>2. S # {} /\ Max(S) = k /\ S \ {Max(S)} = R
    <3>1. k \in Nat \ {0}
      BY <1>1
    <3>2. 1..k # {} /\ Max(1..k) = k /\ (1..k) \ {k} = 1..(k - 1)
      BY <3>1, FirstPositions, Zenon
    <3> QED
      BY <2>1, <3>2, Zenon
  <2>3. S \in SUBSET DOMAIN msgs
    BY <1>9, <2>1
  <2>4. fold[S] = IF msgs[Max(S)].kind \in kinds
                  THEN fold[S \ {Max(S)}] \o msgs[Max(S)].bytes ELSE fold[S \ {Max(S)}]
    BY <1>7, <2>2, <2>3
  <2>5. h[k] = fold[S] /\ h[k - 1] = fold[R]
    BY <1>1, <1>9, <2>1
  <2> HIDE DEF h
  <2> QED
    BY <2>2, <2>4, <2>5
<1> HIDE DEF h
<1>12. \A k \in 0..Len(msgs) : h[k] \in V
  <2> DEFINE Good == {k \in Nat : k <= Len(msgs) => h[k] \in V}
  <2>1. 0 \in Good
    BY <1>10, EmptySeq
  <2>2. ASSUME NEW n \in Nat, n \in Good PROVE n + 1 \in Good
    <3> SUFFICES ASSUME n + 1 <= Len(msgs) PROVE h[n + 1] \in V
      OBVIOUS
    <3>1. n + 1 \in 1..Len(msgs) /\ (n + 1) - 1 = n /\ h[n] \in V
      BY <1>1, <2>2
    <3>2. msgs[n + 1] \in A
      BY <3>1, ElementOfSeq
    <3>3. h[n + 1] = IF msgs[n + 1].kind \in kinds
                     THEN h[n] \o msgs[n + 1].bytes ELSE h[n]
      BY <1>11, <3>1
    <3> QED
      BY <1>2, <3>1, <3>2, <3>3
  <2> HIDE DEF Good
  <2>3. Nat \subseteq Good
    BY <2>1, <2>2, SetInduction
  <2> QED
    BY <1>1, <2>3 DEF Good
<1> QED
  BY <1>8, <1>10, <1>11, <1>12 DEF Collects

\* Two runs through messages that agree collect the same.
LEMMA SameCollected ==
  ASSUME NEW g, NEW h, NEW s, NEW t, NEW kinds, Len(s) \in Nat, Len(t) \in Nat,
         Collects(g, s, kinds), Collects(h, t, kinds), Len(s) <= Len(t),
         \A i \in 1..Len(s) : s[i] = t[i]
  PROVE  \A k \in 0..Len(s) : g[k] = h[k]
<1> DEFINE Good == {k \in Nat : k <= Len(s) => g[k] = h[k]}
<1>1. 0 \in Good
  BY DEF Collects
<1>2. ASSUME NEW n \in Nat, n \in Good PROVE n + 1 \in Good
  <2> SUFFICES ASSUME n + 1 <= Len(s) PROVE g[n + 1] = h[n + 1]
    OBVIOUS
  <2>1. /\ n + 1 \in 1..Len(s) /\ n + 1 \in 1..Len(t)
        /\ (n + 1) - 1 = n /\ g[n] = h[n] /\ s[n + 1] = t[n + 1]
    BY <1>2
  <2>2. g[n + 1] = IF s[n + 1].kind \in kinds THEN g[n] \o s[n + 1].bytes ELSE g[n]
    BY <2>1 DEF Collects
  <2>3. h[n + 1] = IF t[n + 1].kind \in kinds THEN h[n] \o t[n + 1].bytes ELSE h[n]
    BY <2>1 DEF Collects
  <2> QED
    BY <2>1, <2>2, <2>3
<1> HIDE DEF Good
<1>3. Nat \subseteq Good
  BY <1>1, <1>2, SetInduction
<1> QED
  BY <1>3 DEF Good

\* The first k messages.
FirstOf(msgs, k) == SubSeq(msgs, 1, k)

\* They are messages, those of the whole.
LEMMA FirstOfIs ==
  \A msgs \in Seq(Message) : \A k \in 0..Len(msgs) :
    /\ FirstOf(msgs, k) \in Seq(Message) /\ Len(FirstOf(msgs, k)) = k
    /\ \A i \in 1..k : FirstOf(msgs, k)[i] = msgs[i]
    /\ Len(msgs) \in Nat
<1> SUFFICES ASSUME NEW msgs \in Seq(Message), NEW k \in 0..Len(msgs)
             PROVE  /\ FirstOf(msgs, k) \in Seq(Message) /\ Len(FirstOf(msgs, k)) = k
                    /\ \A i \in 1..k : FirstOf(msgs, k)[i] = msgs[i]
                    /\ Len(msgs) \in Nat
  OBVIOUS
<1>1. Len(msgs) \in Nat /\ \A i \in 1..k : i \in 1..Len(msgs) /\ msgs[i] \in Message
  BY LenProperties, ElementOfSeq
<1>2. 1 \in Int /\ k \in Int /\ k >= 0
  BY <1>1
<1>3. /\ SubSeq(msgs, 1, k) \in Seq(Message)
      /\ Len(SubSeq(msgs, 1, k)) = IF 1 <= k THEN k - 1 + 1 ELSE 0
      /\ \A i \in 1..(k - 1 + 1) : SubSeq(msgs, 1, k)[i] = msgs[1 + i - 1]
  BY <1>1, <1>2, SubSeqProperties
<1>4. k - 1 + 1 = k /\ \A i \in 1..k : 1 + i - 1 = i
  BY <1>2
<1> QED
  BY <1>1, <1>2, <1>3, <1>4 DEF FirstOf

\* What the first messages carry is what was collected on the way.
LEMMA OutputOfFirst ==
  ASSUME NEW msgs \in Seq(Message), NEW kinds \in SUBSET OutputKinds
  PROVE  \E h : /\ Collects(h, msgs, kinds)
                /\ \A k \in 0..Len(msgs) : Output(FirstOf(msgs, k), kinds) = h[k]
                /\ Output(msgs, kinds) = h[Len(msgs)]
<1>1. PICK h : Collects(h, msgs, kinds) /\ Output(msgs, kinds) = h[Len(msgs)]
  BY OutputFolds
<1>2. ASSUME NEW k \in 0..Len(msgs) PROVE Output(FirstOf(msgs, k), kinds) = h[k]
  <2>1. PICK s : s = FirstOf(msgs, k)
    OBVIOUS
  <2>2. s \in Seq(Message) /\ Len(s) = k /\ Len(msgs) \in Nat
        /\ \A i \in 1..k : s[i] = msgs[i]
    BY <2>1, FirstOfIs
  <2>3. PICK g : Collects(g, s, kinds) /\ Output(s, kinds) = g[k]
    BY <2>2, OutputFolds
  <2>4. \A i \in 0..k : g[i] = h[i]
    BY <1>1, <2>2, <2>3, SameCollected
  <2> QED
    BY <2>1, <2>2, <2>3, <2>4
<1> QED
  BY <1>1, <1>2

\* Message after message, what has been taken grows by what the next one carries.
LEMMA OutputNext ==
  \A msgs \in Seq(Message), kinds \in SUBSET OutputKinds :
    /\ Len(msgs) \in Nat
    /\ Output(FirstOf(msgs, 0), kinds) = <<>>
    /\ Output(FirstOf(msgs, Len(msgs)), kinds) = Output(msgs, kinds)
    /\ \A k \in 0..Len(msgs) : Output(FirstOf(msgs, k), kinds) \in Seq(Byte)
    /\ \A k \in 1..Len(msgs) :
         Output(FirstOf(msgs, k), kinds) =
           IF msgs[k].kind \in kinds
           THEN Output(FirstOf(msgs, k - 1), kinds) \o msgs[k].bytes
           ELSE Output(FirstOf(msgs, k - 1), kinds)
<1> SUFFICES ASSUME NEW msgs \in Seq(Message), NEW kinds \in SUBSET OutputKinds
             PROVE  /\ Len(msgs) \in Nat
                    /\ Output(FirstOf(msgs, 0), kinds) = <<>>
                    /\ Output(FirstOf(msgs, Len(msgs)), kinds) = Output(msgs, kinds)
                    /\ \A k \in 0..Len(msgs) : Output(FirstOf(msgs, k), kinds) \in Seq(Byte)
                    /\ \A k \in 1..Len(msgs) :
                         Output(FirstOf(msgs, k), kinds) =
                           IF msgs[k].kind \in kinds
                           THEN Output(FirstOf(msgs, k - 1), kinds) \o msgs[k].bytes
                           ELSE Output(FirstOf(msgs, k - 1), kinds)
  OBVIOUS
<1>1. Len(msgs) \in Nat
  BY LenProperties
<1>2. PICK h : /\ Collects(h, msgs, kinds)
               /\ \A k \in 0..Len(msgs) : Output(FirstOf(msgs, k), kinds) = h[k]
               /\ Output(msgs, kinds) = h[Len(msgs)]
  BY OutputOfFirst
<1>3. \A k \in 1..Len(msgs) : k \in 0..Len(msgs) /\ k - 1 \in 0..Len(msgs)
  BY <1>1
<1>4. 0 \in 0..Len(msgs) /\ Len(msgs) \in 0..Len(msgs)
  BY <1>1
<1> QED
  BY <1>1, <1>2, <1>3, <1>4, Zenon DEF Collects

\* No messages carry nothing.
LEMMA OutputNothing ==
  \A msgs \in Seq(Message) : \A kinds \in SUBSET OutputKinds :
    Output(FirstOf(msgs, 0), kinds) = <<>>
<1> SUFFICES ASSUME NEW msgs \in Seq(Message), NEW kinds \in SUBSET OutputKinds
             PROVE  Output(FirstOf(msgs, 0), kinds) = <<>>
  OBVIOUS
<1>1. PICK h : /\ Collects(h, msgs, kinds)
               /\ \A k \in 0..Len(msgs) : Output(FirstOf(msgs, k), kinds) = h[k]
               /\ Output(msgs, kinds) = h[Len(msgs)]
  BY OutputOfFirst
<1>2. h[0] = <<>>
  BY <1>1, Zenon DEF Collects
<1>3. 0 \in 0..Len(msgs)
  BY LenProperties
<1> QED
  BY <1>1, <1>2, <1>3, Zenon

\* The first messages carry no more than all of them.
LEMMA OutputGrows ==
  ASSUME NEW msgs \in Seq(Message), NEW kinds \in SUBSET OutputKinds,
         NEW k \in 0..Len(msgs)
  PROVE  Len(Output(FirstOf(msgs, k), kinds)) <= Len(Output(msgs, kinds))
<1> DEFINE size(i) == Len(Output(FirstOf(msgs, i), kinds))
           Good == {n \in Nat : k + n <= Len(msgs) => size(k) <= size(k + n)}
<1>1. Len(msgs) \in Nat /\ k \in Nat /\ k <= Len(msgs)
  BY OutputNext
<1>2. \A i \in 0..Len(msgs) : size(i) \in Nat
  BY OutputNext, LenProperties
<1>3. \A i \in 1..Len(msgs) : size(i - 1) <= size(i)
  <2> SUFFICES ASSUME NEW i \in 1..Len(msgs) PROVE size(i - 1) <= size(i)
    OBVIOUS
  <2>1. i - 1 \in 0..Len(msgs) /\ i \in 0..Len(msgs) /\ msgs[i] \in Message
    BY <1>1, ElementOfSeq
  <2>2. PICK before : /\ before = Output(FirstOf(msgs, i - 1), kinds)
                      /\ before \in Seq(Byte)
    BY <2>1, OutputNext
  <2>3. Output(FirstOf(msgs, i), kinds) =
          IF msgs[i].kind \in kinds THEN before \o msgs[i].bytes ELSE before
    <3>1. \A j \in 1..Len(msgs) :
            Output(FirstOf(msgs, j), kinds) =
              IF msgs[j].kind \in kinds
              THEN Output(FirstOf(msgs, j - 1), kinds) \o msgs[j].bytes
              ELSE Output(FirstOf(msgs, j - 1), kinds)
      BY OutputNext, Zenon
    <3> QED
      BY <2>2, <3>1, Zenon
  <2>4. CASE msgs[i].kind \in kinds
    <3>1. msgs[i].bytes \in Seq(Byte)
      BY <2>1, <2>4, OutputBytes
    <3>2. Len(before \o msgs[i].bytes) = Len(before) + Len(msgs[i].bytes)
      BY <2>2, <3>1, ConcatProperties
    <3>3. Len(before) \in Nat /\ Len(msgs[i].bytes) \in Nat
      BY <2>2, <3>1, LenProperties
    <3>4. size(i) = Len(before) + Len(msgs[i].bytes) /\ size(i - 1) = Len(before)
      BY <2>2, <2>3, <2>4, <3>2, Zenon
    <3> QED
      BY <3>3, <3>4
  <2>5. CASE msgs[i].kind \notin kinds
    <3>1. size(i) = size(i - 1) /\ size(i) \in Nat
      BY <1>2, <2>1, <2>2, <2>3, <2>5, Zenon
    <3> QED
      BY <3>1
  <2> QED
    BY <2>4, <2>5
<1>4. 0 \in Good
  <2>1. k + 0 = k /\ size(k) \in Nat
    BY <1>1, <1>2
  <2> HIDE DEF size
  <2> QED
    BY <2>1
<1>5. ASSUME NEW n \in Nat, n \in Good PROVE n + 1 \in Good
  <2>1. k + (n + 1) <= Len(msgs) =>
          /\ k + (n + 1) \in 1..Len(msgs) /\ (k + (n + 1)) - 1 = k + n
          /\ k + n \in 0..Len(msgs) /\ k + (n + 1) \in 0..Len(msgs)
    BY <1>1
  <2> HIDE DEF size
  <2> QED
    BY <1>2, <1>3, <1>5, <2>1
<1>6. Nat \subseteq Good
  <2> HIDE DEF Good
  <2> QED
    BY <1>4, <1>5, SetInduction
<1>7. Len(msgs) - k \in Nat /\ k + (Len(msgs) - k) = Len(msgs)
  BY <1>1
<1>8. size(k) <= size(Len(msgs))
  <2> HIDE DEF size
  <2> QED
    BY <1>1, <1>6, <1>7
<1> QED
  BY <1>8, OutputNext, Zenon

\* What has been taken stays what it is when another message arrives.
LEMMA OutputStays ==
  ASSUME NEW msgs \in Seq(Message), NEW m \in Message, NEW k \in 0..Len(msgs)
  PROVE  FirstOf(Append(msgs, m), k) = FirstOf(msgs, k)
<1>1. PICK more : more = Append(msgs, m)
  OBVIOUS
<1>2. /\ Len(msgs) \in Nat /\ more \in Seq(Message) /\ Len(more) = Len(msgs) + 1
      /\ \A i \in 1..Len(msgs) : more[i] = msgs[i]
  BY <1>1, AppendProperties, LenProperties
<1>3. k \in 0..Len(more) /\ \A i \in 1..k : i \in 1..Len(msgs)
  BY <1>2
<1>4. /\ FirstOf(more, k) \in Seq(Message) /\ FirstOf(msgs, k) \in Seq(Message)
      /\ Len(FirstOf(more, k)) = k /\ Len(FirstOf(msgs, k)) = k
      /\ \A i \in 1..k : FirstOf(more, k)[i] = more[i] /\ FirstOf(msgs, k)[i] = msgs[i]
  BY <1>2, <1>3, FirstOfIs
<1>5. FirstOf(more, k) = FirstOf(msgs, k)
  BY <1>2, <1>3, <1>4, SeqEqual
<1> QED
  BY <1>1, <1>5

----------------------------------------------------------------------------
(* Parts of sequences *)

\* What a sequence has from a position on.
Rest(s, i) == SubSeq(s, i, Len(s))

\* A sequence is its parts put together.
LEMMA RestIs ==
  ASSUME NEW s \in Seq(Byte)
  PROVE  /\ Len(s) \in Nat
         /\ Rest(s, 1) = s /\ Rest(s, Len(s) + 1) = <<>>
         /\ \A i \in 1..(Len(s) + 1) :
              /\ Rest(s, i) \in Seq(Byte) /\ Len(Rest(s, i)) = Len(s) + 1 - i
              /\ \A k \in 1..(Len(s) + 1 - i) : Rest(s, i)[k] = s[i + k - 1]
<1>1. Len(s) \in Nat /\ \A i \in 1..Len(s) : s[i] \in Byte
  BY LenProperties, ElementOfSeq
<1>2. ASSUME NEW i \in 1..(Len(s) + 1)
      PROVE  /\ Rest(s, i) \in Seq(Byte) /\ Len(Rest(s, i)) = Len(s) + 1 - i
             /\ \A k \in 1..(Len(s) + 1 - i) : Rest(s, i)[k] = s[i + k - 1]
  <2>1. /\ SubSeq(s, i, Len(s)) \in Seq(Byte)
        /\ Len(SubSeq(s, i, Len(s))) = IF i <= Len(s) THEN Len(s) - i + 1 ELSE 0
        /\ \A k \in 1..(Len(s) - i + 1) : SubSeq(s, i, Len(s))[k] = s[i + k - 1]
    BY <1>1, SubSeqProperties
  <2>2. Len(s) - i + 1 = Len(s) + 1 - i /\ (i <= Len(s) \/ Len(s) + 1 - i = 0)
    BY <1>1
  <2> QED
    BY <2>1, <2>2 DEF Rest
<1>3. Rest(s, Len(s) + 1) = <<>>
  <2>1. Rest(s, Len(s) + 1) \in Seq(Byte) /\ Len(Rest(s, Len(s) + 1)) = 0
    BY <1>1, <1>2
  <2> QED
    BY <2>1, EmptySeq
<1>4. Rest(s, 1) = s
  <2>1. /\ Rest(s, 1) \in Seq(Byte) /\ Len(Rest(s, 1)) = Len(s)
        /\ \A k \in 1..Len(s) : Rest(s, 1)[k] = s[k]
    BY <1>1, <1>2
  <2> QED
    BY <2>1, SeqEqual
<1> QED
  BY <1>1, <1>2, <1>3, <1>4, Zenon

\* A part of a sequence.
LEMMA PartIs ==
  ASSUME NEW s \in Seq(Byte), NEW i \in 1..Len(s), NEW j \in i..Len(s)
  PROVE  /\ SubSeq(s, i, j) \in Seq(Byte) /\ Len(SubSeq(s, i, j)) = j - i + 1
         /\ \A k \in 1..(j - i + 1) : SubSeq(s, i, j)[k] = s[i + k - 1]
         /\ Rest(s, i) = SubSeq(s, i, j) \o Rest(s, j + 1)
<1>1. Len(s) \in Nat /\ \A k \in 1..Len(s) : s[k] \in Byte
  BY LenProperties, ElementOfSeq
<1>2. /\ SubSeq(s, i, j) \in Seq(Byte) /\ Len(SubSeq(s, i, j)) = j - i + 1
      /\ \A k \in 1..(j - i + 1) : SubSeq(s, i, j)[k] = s[i + k - 1]
  BY <1>1, SubSeqProperties
<1>3. PICK b, t, u : b = SubSeq(s, i, j) /\ t = Rest(s, j + 1) /\ u = Rest(s, i)
  OBVIOUS
<1>4. /\ t \in Seq(Byte) /\ Len(t) = Len(s) - j
      /\ \A k \in 1..(Len(s) - j) : t[k] = s[j + k]
  <2>1. j + 1 \in 1..(Len(s) + 1) /\ Len(s) + 1 - (j + 1) = Len(s) - j
    BY <1>1
  <2>2. \A k \in 1..(Len(s) - j) : (j + 1) + k - 1 = j + k
    BY <1>1
  <2> QED
    <3>1. /\ Rest(s, j + 1) \in Seq(Byte) /\ Len(Rest(s, j + 1)) = Len(s) + 1 - (j + 1)
          /\ \A k \in 1..(Len(s) + 1 - (j + 1)) : Rest(s, j + 1)[k] = s[(j + 1) + k - 1]
      BY <2>1, RestIs, Zenon
    <3> QED
      BY <1>3, <2>1, <2>2, <3>1
<1>5. /\ u \in Seq(Byte) /\ Len(u) = Len(s) + 1 - i
      /\ \A k \in 1..(Len(s) + 1 - i) : u[k] = s[i + k - 1]
  <2>1. i \in 1..(Len(s) + 1)
    BY <1>1
  <2> QED
    BY <1>3, <2>1, RestIs, Zenon
<1>6. /\ b \o t \in Seq(Byte) /\ Len(b \o t) = Len(b) + Len(t)
      /\ \A k \in 1..(Len(b) + Len(t)) :
           (b \o t)[k] = IF k <= Len(b) THEN b[k] ELSE t[k - Len(b)]
  BY <1>2, <1>3, <1>4, ConcatProperties
<1>7. /\ b \in Seq(Byte) /\ Len(b) = j - i + 1
      /\ \A k \in 1..(j - i + 1) : b[k] = s[i + k - 1]
  BY <1>2, <1>3, Zenon
<1>8. u = b \o t
  <2>1. Len(b) = j - i + 1 /\ Len(b) + Len(t) = Len(s) + 1 - i
    BY <1>1, <1>4, <1>7
  <2>2. ASSUME NEW k \in 1..(Len(s) + 1 - i) PROVE u[k] = (b \o t)[k]
    <3>1. CASE k <= Len(b)
      <4>1. k \in 1..(j - i + 1) /\ k \in 1..(Len(b) + Len(t))
        BY <2>1, <3>1
      <4>2. (b \o t)[k] = b[k]
        BY <1>6, <3>1, <4>1
      <4>3. b[k] = s[i + k - 1] /\ u[k] = s[i + k - 1]
        BY <1>5, <1>7, <4>1
      <4> QED
        BY <4>2, <4>3
    <3>2. CASE k > Len(b)
      <4>1. k - Len(b) \in 1..(Len(s) - j) /\ j + (k - Len(b)) = i + k - 1
        BY <1>1, <2>1, <3>2
      <4>2. k \in 1..(Len(b) + Len(t)) /\ ~(k <= Len(b))
        BY <1>1, <2>1, <3>2
      <4>3. (b \o t)[k] = t[k - Len(b)]
        BY <1>6, <4>2
      <4>4. t[k - Len(b)] = s[j + (k - Len(b))] /\ u[k] = s[i + k - 1]
        BY <1>4, <1>5, <4>1
      <4> QED
        BY <4>1, <4>3, <4>4
    <3> QED
      BY <1>1, <2>1, <3>1, <3>2
  <2> QED
    BY <1>5, <1>6, <2>1, <2>2, SeqEqual
<1> QED
  BY <1>2, <1>3, <1>8, Zenon

\* A part of what a sequence has from a position on is a part of the sequence.
LEMMA PartOfRest ==
  ASSUME NEW s \in Seq(Byte), NEW i \in 1..(Len(s) + 1)
  PROVE  \A k \in 1..(Len(s) + 1 - i) : \A j \in k..(Len(s) + 1 - i) :
           SubSeq(Rest(s, i), k, j) = SubSeq(s, i + k - 1, i + j - 1)
<1> SUFFICES ASSUME NEW k \in 1..(Len(s) + 1 - i), NEW j \in k..(Len(s) + 1 - i)
             PROVE  SubSeq(Rest(s, i), k, j) = SubSeq(s, i + k - 1, i + j - 1)
  OBVIOUS
<1>1. PICK r : r = Rest(s, i)
  OBVIOUS
<1>2. /\ r \in Seq(Byte) /\ Len(r) = Len(s) + 1 - i /\ Len(s) \in Nat
      /\ \A m \in 1..(Len(s) + 1 - i) : r[m] = s[i + m - 1]
  BY <1>1, RestIs, Zenon
<1>3. k \in 1..Len(r) /\ j \in k..Len(r)
  BY <1>2
<1>4. i + k - 1 \in 1..Len(s) /\ i + j - 1 \in (i + k - 1)..Len(s)
  BY <1>2
<1>5. /\ SubSeq(r, k, j) \in Seq(Byte) /\ Len(SubSeq(r, k, j)) = j - k + 1
      /\ \A m \in 1..(j - k + 1) : SubSeq(r, k, j)[m] = r[k + m - 1]
  BY <1>2, <1>3, PartIs, Zenon
<1>6. PICK p : p = SubSeq(s, i + k - 1, i + j - 1)
  OBVIOUS
<1>7. /\ p \in Seq(Byte) /\ Len(p) = (i + j - 1) - (i + k - 1) + 1
      /\ \A m \in 1..((i + j - 1) - (i + k - 1) + 1) : p[m] = s[(i + k - 1) + m - 1]
  BY <1>4, <1>6, PartIs, Zenon
<1>8. (i + j - 1) - (i + k - 1) + 1 = j - k + 1
  BY <1>2
<1>9. ASSUME NEW m \in 1..(j - k + 1) PROVE SubSeq(r, k, j)[m] = p[m]
  <2>1. /\ k + m - 1 \in 1..(Len(s) + 1 - i)
        /\ i + (k + m - 1) - 1 = (i + k - 1) + m - 1
    BY <1>2
  <2> QED
    BY <1>2, <1>5, <1>7, <1>8, <2>1
<1>10. SubSeq(r, k, j) = p
  BY <1>5, <1>7, <1>8, <1>9, SeqEqual
<1> QED
  BY <1>1, <1>6, <1>10

\* What two sequences make together, and its parts.
LEMMA Joined ==
  ASSUME NEW b \in Seq(Byte), NEW t \in Seq(Byte)
  PROVE  /\ b \o t \in Seq(Byte) /\ Len(b \o t) = Len(b) + Len(t)
         /\ \A k \in 1..Len(b) : (b \o t)[k] = b[k]
         /\ SubSeq(b \o t, 1, Len(b)) = b /\ Rest(b \o t, Len(b) + 1) = t
<1>1. Len(b) \in Nat /\ Len(t) \in Nat
  BY LenProperties
<1>2. PICK s : s = b \o t
  OBVIOUS
<1>3. /\ s \in Seq(Byte) /\ Len(s) = Len(b) + Len(t)
      /\ \A k \in 1..(Len(b) + Len(t)) : s[k] = IF k <= Len(b) THEN b[k] ELSE t[k - Len(b)]
  BY <1>2, ConcatProperties
<1>4. \A k \in 1..Len(b) : s[k] = b[k]
  BY <1>1, <1>3
<1>5. Rest(s, Len(b) + 1) = t
  <2>1. PICK r : r = Rest(s, Len(b) + 1)
    OBVIOUS
  <2>2. /\ r \in Seq(Byte) /\ Len(r) = Len(s) + 1 - (Len(b) + 1)
        /\ \A k \in 1..(Len(s) + 1 - (Len(b) + 1)) : r[k] = s[(Len(b) + 1) + k - 1]
    <3>1. Len(b) + 1 \in 1..(Len(s) + 1)
      BY <1>1, <1>3
    <3> QED
      BY <1>3, <2>1, <3>1, RestIs, Zenon
  <2>3. Len(s) + 1 - (Len(b) + 1) = Len(t)
    BY <1>1, <1>3
  <2>4. ASSUME NEW k \in 1..Len(t) PROVE r[k] = t[k]
    <3>1. PICK j : j = Len(b) + k
      OBVIOUS
    <3>2. j \in 1..(Len(b) + Len(t)) /\ ~(j <= Len(b)) /\ j - Len(b) = k
      BY <1>1, <3>1
    <3>3. s[j] = t[j - Len(b)]
      BY <1>3, <3>2
    <3>4. (Len(b) + 1) + k - 1 = j
      BY <1>1, <3>1
    <3>5. r[k] = s[(Len(b) + 1) + k - 1]
      BY <2>2, <2>3
    <3> QED
      BY <3>2, <3>3, <3>4, <3>5, Zenon
  <2>5. r = t
    BY <2>2, <2>3, <2>4, SeqEqual
  <2> QED
    BY <2>1, <2>5
<1>6. SubSeq(s, 1, Len(b)) = b
  <2>1. CASE Len(b) = 0
    <3>1. b = <<>>
      BY <2>1, EmptySeq
    <3>2. \A k \in 1..0 : s[k] \in Byte
      OBVIOUS
    <3>3. /\ SubSeq(s, 1, 0) \in Seq(Byte)
          /\ Len(SubSeq(s, 1, 0)) = IF 1 <= 0 THEN 0 - 1 + 1 ELSE 0
      BY <1>3, <3>2, SubSeqProperties
    <3>4. Len(SubSeq(s, 1, 0)) = 0
      BY <3>3
    <3> QED
      BY <2>1, <3>1, <3>3, <3>4, EmptySeq
  <2>2. CASE Len(b) > 0
    <3>1. 1 \in 1..Len(s) /\ Len(b) \in 1..Len(s) /\ Len(b) - 1 + 1 = Len(b)
      BY <1>1, <1>3, <2>2
    <3>2. PICK p : p = SubSeq(s, 1, Len(b))
      OBVIOUS
    <3>3. /\ p \in Seq(Byte) /\ Len(p) = Len(b)
          /\ \A k \in 1..Len(b) : p[k] = s[1 + k - 1]
      <4>1. s \in Seq(Byte)
        BY <1>3, Zenon
      <4>2. /\ p \in Seq(Byte) /\ Len(p) = Len(b) - 1 + 1
            /\ \A k \in 1..(Len(b) - 1 + 1) : p[k] = s[1 + k - 1]
        BY <3>1, <3>2, <4>1, PartIs, Zenon
      <4> QED
        BY <3>1, <4>2, Zenon
    <3>4. \A k \in 1..Len(b) : 1 + k - 1 = k
      BY <1>1
    <3>5. \A k \in 1..Len(b) : p[k] = b[k]
      BY <1>4, <3>3, <3>4, Zenon
    <3>6. p = b
      BY <3>3, <3>5, SeqEqual
    <3> QED
      BY <3>2, <3>6
  <2> QED
    BY <1>1, <2>1, <2>2
<1> QED
  BY <1>2, <1>3, <1>4, <1>5, <1>6, Zenon

----------------------------------------------------------------------------
(* One character: what is copied is what UTF-8 has *)

\* The low bits of a continuation byte, and of the lead bytes.
LEMMA LowBits ==
  ASSUME NEW c \in Int
  PROVE  /\ 128 <= c /\ c <= 191 => c % 64 = c - 128
         /\ 194 <= c /\ c <= 223 => c % 32 = c - 192
         /\ 224 <= c /\ c <= 239 => c % 16 = c - 224
         /\ 240 <= c /\ c <= 244 => c % 8 = c - 240
BY SMT

\* The continuation bytes.
LEMMA ContinuationIs == \A c \in Byte : c \in Continuation <=> 128 <= c /\ c <= 191
BY SMT DEF Continuation, Byte

\* The first bytes of sequences of one to four bytes.
First1 == 0..127
First2 == 194..223
First3 == 224..239
First4 == 240..244

\* How many bytes follow each of them.
LEMMA NeedIs ==
  ASSUME NEW c \in Byte
  PROVE  /\ Need(c) \in Int /\ Need(c) <= 3
         /\ Need(c) = 0 <=> c \in First1
         /\ Need(c) = 1 <=> c \in First2
         /\ Need(c) = 2 <=> c \in First3
         /\ Need(c) = 3 <=> c \in First4
BY SMT DEF Need, Byte, First1, First2, First3, First4

\* The code point, by the number of bytes.
LEMMA CodePointIs ==
  ASSUME NEW b
  PROVE /\ Len(b) = 1 => CodePoint(b) = b[1]
        /\ Len(b) = 2 => CodePoint(b) = (b[1] % 32) * 64 + (b[2] % 64)
        /\ Len(b) = 3 => CodePoint(b) = (b[1] % 16) * 4096 + (b[2] % 64) * 64 + (b[3] % 64)
        /\ Len(b) = 4 => CodePoint(b) = (b[1] % 8) * 262144 + (b[2] % 64) * 4096
                                        + (b[3] % 64) * 64 + (b[4] % 64)
BY SMT DEF CodePoint

\* A byte is copied by itself if it is ASCII, as in the Unicode table.
LEMMA OneByte ==
  ASSUME NEW b \in Seq(Byte), Len(b) = 1
  PROVE  Accepts(b) <=> WellFormed(b)
<1>1. b[1] \in Byte
  <2>1. 1 \in 1..Len(b)
    BY SMT
  <2> QED
    BY <2>1, ElementOfSeq, Zenon
<1>2. PICK x : x = b[1]
  OBVIOUS
<1>3. x \in 0..255
    BY <1>1, <1>2, SMT DEF Byte
<1>4. Len(b) # 0 /\ Len(b) # 2 /\ Len(b) # 3 /\ Len(b) # 4 /\ Len(b) > 0
   BY SMT
<1>5. WellFormed(b) <=> x \in 0..127
  BY <1>4, <1>2, SMT DEF WellFormed
<1> DEFINE need == Need(x)
<1>6. need \in Int /\ (need = 0 <=> x \in First1)
  BY <1>1, <1>2, NeedIs, Zenon
<1>7. Accepts(b) <=> need = 0 /\ InRange(need, x)
  <2>1. \A k \in 2..Len(b) : b[k] \in Continuation
    BY SMT
  <2>2. CodePoint(b) = x
    BY <1>2, CodePointIs, SMT
  <2>3. Len(b) = need + 1 <=> need = 0
    BY <1>6, SMT
  <2> QED
    BY <1>4, <1>2, <2>1, <2>2, <2>3, SMT DEF Accepts
<1> HIDE DEF need
<1>8. ASSUME need = 0, x \in First1 PROVE InRange(need, x)
  <2>1. need # 2 /\ need # 3 /\ x \in 0..127
    BY <1>8, SMT DEF First1
  <2> QED
    BY <2>1, SMT DEF InRange
<1> QED
  BY <1>3, <1>5, <1>7, <1>6, <1>8, SMT DEF First1

\* Two bytes: every code point has its shortest form.
LEMMA TwoBytes ==
  ASSUME NEW b \in Seq(Byte), Len(b) = 2
  PROVE  Accepts(b) <=> WellFormed(b)
<1>1. /\ Len(b) # 0 /\ Len(b) # 1 /\ Len(b) # 3 /\ Len(b) # 4 /\ Len(b) > 0
      /\ 1 \in 1..Len(b) /\ 2 \in 1..Len(b)
   BY SMT
<1>2. PICK x, y : x = b[1] /\ y = b[2]
  OBVIOUS
<1>3. x \in Byte /\ y \in Byte
  BY <1>1, <1>2, ElementOfSeq, Zenon
<1>4. x \in Int /\ y \in Int
  BY <1>3, SMT DEF Byte
<1> DEFINE need == Need(x)
           cp == CodePoint(b)
<1>5. WellFormed(b) <=> x \in First2 /\ y \in Continuation
  BY <1>1, <1>2, SMT DEF WellFormed, First2
<1>6. need \in Int /\ (need = 1 <=> x \in First2)
  BY <1>3, NeedIs, Zenon
<1>7. cp = (x % 32) * 64 + (y % 64)
  BY <1>2, CodePointIs, SMT
<1>8. Accepts(b) <=> need = 1 /\ y \in Continuation /\ InRange(need, cp)
  <2>1. (\A k \in 2..Len(b) : b[k] \in Continuation) <=> y \in Continuation
    BY <1>2, SMT
  <2>2. Len(b) = need + 1 <=> need = 1
    BY <1>6, SMT
  <2> HIDE DEF cp
  <2>3. Accepts(b) <=> /\ Len(b) > 0 /\ Len(b) = need + 1
                       /\ \A k \in 2..Len(b) : b[k] \in Continuation
                       /\ InRange(need, cp)
    BY <1>2, Zenon DEF Accepts, cp
  <2> QED
    BY <1>1, <2>1, <2>2, <2>3, Zenon
<1> HIDE DEF need, cp
<1>9. ASSUME need = 1, x \in First2, y \in Continuation PROVE InRange(need, cp)
  <2>1. 194 <= x /\ x <= 223
    BY <1>9, SMT DEF First2
  <2>2. 128 <= y /\ y <= 191
    BY <1>3, <1>9, ContinuationIs, SMT
  <2>3. cp = (x - 192) * 64 + (y - 128)
    BY <1>4, <1>7, <2>1, <2>2, LowBits, SMT
  <2>4. need # 2 /\ need # 3 /\ cp \in Int /\ cp < 55296
    BY <1>4, <1>9, <2>1, <2>2, <2>3, SMT
  <2> QED
    BY <2>4, SMT DEF InRange
<1> QED
  BY <1>5, <1>6, <1>8, <1>9, Zenon

\* Three bytes: InRange leaves out overlong forms and surrogates, as the table does by
\* the first two bytes.
LEMMA ThreeBytes ==
  ASSUME NEW b \in Seq(Byte), Len(b) = 3
  PROVE  Accepts(b) <=> WellFormed(b)
<1>1. /\ Len(b) # 0 /\ Len(b) # 1 /\ Len(b) # 2 /\ Len(b) # 4 /\ Len(b) > 0
      /\ 1 \in 1..Len(b) /\ 2 \in 1..Len(b) /\ 3 \in 1..Len(b)
   BY SMT
<1>2. PICK x, y, z : x = b[1] /\ y = b[2] /\ z = b[3]
  OBVIOUS
<1>3. x \in Byte /\ y \in Byte /\ z \in Byte
  BY <1>1, <1>2, ElementOfSeq, Zenon
<1>4. x \in Int /\ y \in Int /\ z \in Int
  BY <1>3, SMT DEF Byte
<1> DEFINE need == Need(x)
           cp == CodePoint(b)
           Pair == \/ x = 224 /\ 160 <= y
                   \/ x # 224 /\ x # 237
                   \/ x = 237 /\ y <= 159
<1>5. WellFormed(b) <=> x \in First3 /\ y \in Continuation /\ z \in Continuation /\ Pair
  <2>1. WellFormed(b) <=>
          /\ \/ x = 224 /\ y \in 160..191
             \/ x \in (225..236 \union {238, 239}) /\ y \in Continuation
             \/ x = 237 /\ y \in 128..159
          /\ z \in Continuation
    BY <1>1, <1>2, SMT DEF WellFormed
  <2>2. x \in First3 <=> 224 <= x /\ x <= 239
    BY <1>4, SMT DEF First3
  <2>3. y \in Continuation <=> 128 <= y /\ y <= 191
    BY <1>3, ContinuationIs, SMT
  <2> QED
    BY <1>4, <2>1, <2>2, <2>3, SMT
<1>6. need \in Int /\ (need = 2 <=> x \in First3)
  BY <1>3, NeedIs, Zenon
<1>7. cp = (x % 16) * 4096 + (y % 64) * 64 + (z % 64)
  BY <1>2, CodePointIs, SMT
<1>8. Accepts(b) <=> need = 2 /\ y \in Continuation /\ z \in Continuation /\ InRange(need, cp)
  <2>1. (\A k \in 2..Len(b) : b[k] \in Continuation) <=> y \in Continuation /\ z \in Continuation
    BY <1>2, SMT
  <2>2. Len(b) = need + 1 <=> need = 2
    BY <1>6, SMT
  <2> HIDE DEF cp
  <2>3. Accepts(b) <=> /\ Len(b) > 0 /\ Len(b) = need + 1
                       /\ \A k \in 2..Len(b) : b[k] \in Continuation
                       /\ InRange(need, cp)
    BY <1>2, Zenon DEF Accepts, cp
  <2> QED
    BY <1>1, <2>1, <2>2, <2>3, Zenon
<1> HIDE DEF need, cp, Pair
<1>9. ASSUME need = 2, x \in First3, y \in Continuation, z \in Continuation
      PROVE  InRange(need, cp) <=> Pair
  <2>1. 224 <= x /\ x <= 239
    BY <1>9, SMT DEF First3
  <2>2. 128 <= y /\ y <= 191 /\ 128 <= z /\ z <= 191
    BY <1>3, <1>9, ContinuationIs, SMT
  <2>3. cp = (x - 224) * 4096 + (y - 128) * 64 + (z - 128)
    BY <1>4, <1>7, <2>1, <2>2, LowBits, SMT
  <2>4. InRange(need, cp) <=> cp >= 2048 /\ ~(55296 <= cp /\ cp <= 57343)
    <3>1. need = 2 /\ need # 3
      BY <1>9, SMT
    <3> QED
      BY <3>1, SMT DEF InRange
  <2>5. Pair <=> cp >= 2048 /\ ~(55296 <= cp /\ cp <= 57343)
    BY <1>4, <2>1, <2>2, <2>3, SMT DEF Pair
  <2> QED
    BY <2>4, <2>5
<1> QED
  BY <1>5, <1>6, <1>8, <1>9, Zenon

\* Four bytes: InRange leaves out overlong forms and what is above U+10FFFF.
LEMMA FourBytes ==
  ASSUME NEW b \in Seq(Byte), Len(b) = 4
  PROVE  Accepts(b) <=> WellFormed(b)
<1>1. /\ Len(b) # 0 /\ Len(b) # 1 /\ Len(b) # 2 /\ Len(b) # 3 /\ Len(b) > 0
      /\ 1 \in 1..Len(b) /\ 2 \in 1..Len(b) /\ 3 \in 1..Len(b) /\ 4 \in 1..Len(b)
   BY SMT
<1>2. PICK x, y, z, w : x = b[1] /\ y = b[2] /\ z = b[3] /\ w = b[4]
  OBVIOUS
<1>3. x \in Byte /\ y \in Byte /\ z \in Byte /\ w \in Byte
  BY <1>1, <1>2, ElementOfSeq, Zenon
<1>4. x \in Int /\ y \in Int /\ z \in Int /\ w \in Int
  BY <1>3, SMT DEF Byte
<1> DEFINE need == Need(x)
           cp == CodePoint(b)
           Follow == y \in Continuation /\ z \in Continuation /\ w \in Continuation
           Pair == \/ x = 240 /\ 144 <= y
                   \/ x # 240 /\ x # 244
                   \/ x = 244 /\ y <= 143
<1>5. WellFormed(b) <=> x \in First4 /\ Follow /\ Pair
  <2>1. WellFormed(b) <=>
          /\ \/ x = 240 /\ y \in 144..191
             \/ x \in 241..243 /\ y \in Continuation
             \/ x = 244 /\ y \in 128..143
          /\ z \in Continuation /\ w \in Continuation
    BY <1>1, <1>2, SMT DEF WellFormed
  <2>2. x \in First4 <=> 240 <= x /\ x <= 244
    BY <1>4, SMT DEF First4
  <2>3. y \in Continuation <=> 128 <= y /\ y <= 191
    BY <1>3, ContinuationIs, SMT
  <2> QED
    BY <1>4, <2>1, <2>2, <2>3, SMT
<1>6. need \in Int /\ (need = 3 <=> x \in First4)
  BY <1>3, NeedIs, Zenon
<1>7. cp = (x % 8) * 262144 + (y % 64) * 4096 + (z % 64) * 64 + (w % 64)
  BY <1>2, CodePointIs, SMT
<1>8. Accepts(b) <=> need = 3 /\ Follow /\ InRange(need, cp)
  <2>1. (\A k \in 2..Len(b) : b[k] \in Continuation) <=> Follow
    BY <1>2, SMT
  <2>2. Len(b) = need + 1 <=> need = 3
    BY <1>6, SMT
  <2> HIDE DEF cp, Follow
  <2>3. Accepts(b) <=> /\ Len(b) > 0 /\ Len(b) = need + 1
                       /\ \A k \in 2..Len(b) : b[k] \in Continuation
                       /\ InRange(need, cp)
    BY <1>2, Zenon DEF Accepts, cp
  <2> QED
    BY <1>1, <2>1, <2>2, <2>3, Zenon
<1> HIDE DEF need, cp, Pair
<1>9. ASSUME need = 3, x \in First4, Follow
      PROVE  InRange(need, cp) <=> Pair
  <2>1. 240 <= x /\ x <= 244
    BY <1>9, SMT DEF First4
  <2>2. 128 <= y /\ y <= 191 /\ 128 <= z /\ z <= 191 /\ 128 <= w /\ w <= 191
    BY <1>3, <1>9, ContinuationIs, SMT
  <2>3. cp = (x - 240) * 262144 + (y - 128) * 4096 + (z - 128) * 64 + (w - 128)
    BY <1>4, <1>7, <2>1, <2>2, LowBits, SMT
  <2>4. InRange(need, cp) <=> 65536 <= cp /\ cp <= 1114111 /\ ~(55296 <= cp /\ cp <= 57343)
    <3>1. need = 3 /\ need # 2
      BY <1>9, SMT
    <3> QED
      BY <3>1, SMT DEF InRange
  <2>5. Pair <=> 65536 <= cp /\ cp <= 1114111 /\ ~(55296 <= cp /\ cp <= 57343)
    BY <1>4, <2>1, <2>2, <2>3, SMT DEF Pair
  <2> QED
    BY <2>4, <2>5, SMT
<1> HIDE DEF Follow
<1> QED
  BY <1>5, <1>6, <1>8, <1>9, Zenon

\* The sequences that are copied are those of the Unicode table.
LEMMA CopiedIsWellFormed ==
  ASSUME NEW b \in Seq(Byte) PROVE Accepts(b) <=> WellFormed(b)
<1>1. PICK n : n = Len(b)
  OBVIOUS
<1>2. n \in Nat
  BY <1>1, LenProperties
<1>3. CASE n = 0
  BY <1>1, <1>3, SMT DEF Accepts, WellFormed
<1>4. CASE n > 4
  <2>1. 1 \in 1..n
    BY <1>2, <1>4, SMT
  <2>2. b[1] \in Byte
    BY <1>1, <2>1, ElementOfSeq, Zenon
  <2> DEFINE need == Need(b[1])
  <2>3. need \in Int /\ need <= 3
    BY <2>2, NeedIs, Zenon
  <2>4. Accepts(b) => n = need + 1
    BY <1>1, Zenon DEF Accepts
  <2> HIDE DEF need
  <2>5. ~Accepts(b)
    BY <1>2, <1>4, <2>3, <2>4, SMT
  <2>6. n # 1 /\ n # 2 /\ n # 3 /\ n # 4
    BY <1>4, SMT
  <2>7. ~WellFormed(b)
    BY <1>1, <2>6, SMT DEF WellFormed
  <2> QED
    BY <2>5, <2>7, Zenon
<1>5. n = 0 \/ n = 1 \/ n = 2 \/ n = 3 \/ n = 4 \/ n > 4
  BY <1>2, SMT
<1> QED
  BY <1>1, <1>3, <1>4, <1>5, OneByte, TwoBytes, ThreeBytes, FourBytes, Zenon

\* The first byte determines how many follow, and only an ASCII character has a byte
\* below 128.
LEMMA WellFormedIs ==
  ASSUME NEW b \in Seq(Byte), WellFormed(b)
  PROVE  /\ Len(b) \in 1..4 /\ Len(b) = Need(b[1]) + 1
         /\ Len(b) = 1 \/ \A k \in 1..Len(b) : b[k] >= 128
<1>1. PICK n, x : n = Len(b) /\ x = b[1]
  OBVIOUS
<1>2. n \in Nat
  BY <1>1, LenProperties
<1>3. n > 0 /\ n = Need(x) + 1 /\ \A k \in 2..n : b[k] \in Continuation
  BY <1>1, CopiedIsWellFormed, Zenon DEF Accepts
<1>4. 1 \in 1..n
  BY <1>2, <1>3, SMT
<1>5. x \in Byte
  BY <1>1, <1>4, ElementOfSeq, Zenon
<1> DEFINE need == Need(x)
<1>6. need \in Int /\ need <= 3 /\ (x \in First1 => need = 0)
  BY <1>5, NeedIs, Zenon
<1>7. n = need + 1
  BY <1>3, Zenon
<1> HIDE DEF need
<1>8. n \in 1..4
  BY <1>2, <1>3, <1>6, <1>7, SMT
<1>9. n # 1 => x >= 128
  BY <1>5, <1>6, <1>7, SMT DEF First1, Byte
<1>10. \A c \in Continuation : c >= 128
  BY SMT DEF Continuation
<1>11. \A k \in 1..n : k = 1 \/ k \in 2..n
  BY <1>2, SMT
<1>12. ASSUME n # 1, NEW k \in 1..n PROVE b[k] >= 128
  BY <1>1, <1>3, <1>9, <1>10, <1>11, <1>12, Zenon
<1> QED
  BY <1>1, <1>3, <1>8, <1>12, Zenon

----------------------------------------------------------------------------
(* The recursions of Valid, Ascii and Sanitize, from the end *)

\* Whether a sequence is valid is decided from the end.
LEMMA ValidRecursion ==
  ASSUME NEW s \in Seq(Byte)
  PROVE  \E f \in [1..(Len(s) + 1) -> BOOLEAN] :
           /\ f[Len(s) + 1] = TRUE /\ f[1] = Valid(s)
           /\ \A i \in 1..Len(s) :
                f[i] = \E j \in i..Len(s) :
                         j < i + 4 /\ WellFormed(SubSeq(s, i, j)) /\ f[j + 1]
<1> DEFINE n == Len(s)
           Fits(i, j) == j < i + 4 /\ WellFormed(SubSeq(s, i, j))
           Inline(f) == f = [i \in 1..(n + 1) |->
                               \/ i > n
                               \/ \E j \in i..n :
                                    j < i + 4 /\ WellFormed(SubSeq(s, i, j)) /\ f[j + 1]]
           step == [i \in 1..n |-> [g \in [(i + 1)..(n + 1) -> BOOLEAN] |->
                      \E j \in i..n : Fits(i, j) /\ g[j + 1]]]
<1>1. n \in Nat
  BY LenProperties
<1>2. StepsDown(step, n, BOOLEAN)
  BY DEF StepsDown
<1>3. PICK f \in [1..(n + 1) -> BOOLEAN] : IsFromEnd(f, n, TRUE, step)
  <2> DEFINE last == TRUE
  <2>1. last \in BOOLEAN
    OBVIOUS
  <2> HIDE DEF n, step, last
  <2>2. \E f \in [1..(n + 1) -> BOOLEAN] : IsFromEnd(f, n, last, step)
    BY <1>1, <1>2, <2>1, DownRecursion
  <2> QED
    BY <2>2, Zenon DEF last
<1>4. f[n + 1] = TRUE /\ \A i \in 1..n : f[i] = step[i][Behind(f, i, n)]
  BY <1>3, Zenon DEF IsFromEnd
<1>5. ASSUME NEW i \in 1..n
      PROVE  f[i] = \E j \in i..n : Fits(i, j) /\ f[j + 1]
  <2> HIDE DEF Fits
  <2>1. \A j \in i..n : j + 1 \in (i + 1)..(n + 1)
    BY <1>1
  <2>2. (i + 1)..(n + 1) \subseteq 1..(n + 1)
    BY <1>1
  <2> HIDE DEF n
  <2>3. Behind(f, i, n) \in [(i + 1)..(n + 1) -> BOOLEAN]
    BY <2>2, Zenon DEF Behind
  <2>4. \A j \in i..n : Behind(f, i, n)[j + 1] = f[j + 1]
    BY <2>1, Zenon DEF Behind
  <2>5. f[i] = step[i][Behind(f, i, n)]
    BY <1>4, Zenon
  <2>6. step[i][Behind(f, i, n)] = \E j \in i..n : Fits(i, j) /\ Behind(f, i, n)[j + 1]
    BY <2>3, Zenon
  <2> HIDE DEF step
  <2> QED
    BY <2>4, <2>5, <2>6, Zenon
<1>6. /\ n + 1 \in 1..(n + 1) /\ n + 1 > n /\ \A i \in 1..n : i \in 1..(n + 1) /\ ~(i > n)
      /\ \A i \in 1..(n + 1) : i \in 1..n \/ i = n + 1
  BY <1>1
<1>7. Inline(f)
  <2>1. ASSUME NEW i \in 1..(n + 1)
        PROVE  f[i] = (i > n \/ \E j \in i..n : Fits(i, j) /\ f[j + 1])
    <3> HIDE DEF n, Fits
    <3>1. CASE i = n + 1
      BY <1>4, <1>6, <3>1, Zenon
    <3>2. CASE i \in 1..n
      BY <1>5, <1>6, <3>2, Zenon
    <3> QED
      BY <1>6, <3>1, <3>2, Zenon
  <2>2. \A i \in 1..(n + 1) :
          f[i] = (i > n \/ \E j \in i..n :
                              j < i + 4 /\ WellFormed(SubSeq(s, i, j)) /\ f[j + 1])
    BY <2>1, Zenon
  <2> HIDE DEF n
  <2> QED
    BY <2>2, Zenon
<1> DEFINE from == CHOOSE it : Inline(it)
<1>8. Inline(from)
  <2> HIDE DEF Inline
  <2> QED
    BY <1>7
<1>9. Valid(s) = from[1]
  BY DEF Valid
<1> HIDE DEF from
<1>10. /\ from \in [1..(n + 1) -> BOOLEAN]
       /\ from[n + 1] = TRUE
       /\ \A i \in 1..n :
            from[i] = \E j \in i..n : j < i + 4 /\ WellFormed(SubSeq(s, i, j)) /\ from[j + 1]
  <2> HIDE DEF n
  <2>1. /\ from = [i \in 1..(n + 1) |-> from[i]]
        /\ \A i \in 1..(n + 1) :
             from[i] = (i > n \/ \E j \in i..n :
                                   j < i + 4 /\ WellFormed(SubSeq(s, i, j)) /\ from[j + 1])
    BY <1>8, Zenon
  <2>2. \A i \in 1..(n + 1) : from[i] \in BOOLEAN
    BY <2>1, Zenon
  <2> HIDE DEF Inline
  <2> QED
    BY <1>6, <2>1, <2>2, Zenon
<1> QED
  BY <1>9, <1>10, Zenon

\* Whether a sequence is valid from a position on, by what is behind it.
LEMMA ValidStep ==
  ASSUME NEW s \in Seq(Byte)
  PROVE  /\ Valid(<<>>) = TRUE
         /\ \A i \in 1..Len(s) :
              Valid(Rest(s, i)) = \E j \in i..Len(s) :
                /\ j < i + 4 /\ WellFormed(SubSeq(s, i, j)) /\ Valid(Rest(s, j + 1))
<1> DEFINE n == Len(s)
<1>1. n \in Nat
  BY LenProperties
<1>2. PICK f \in [1..(n + 1) -> BOOLEAN] :
           /\ f[n + 1] = TRUE /\ f[1] = Valid(s)
           /\ \A i \in 1..n :
                f[i] = \E j \in i..n : j < i + 4 /\ WellFormed(SubSeq(s, i, j)) /\ f[j + 1]
  BY ValidRecursion, Zenon
<1>3. ASSUME NEW i \in 1..(n + 1) PROVE Valid(Rest(s, i)) = f[i]
  <2>1. PICK r : r = Rest(s, i)
    OBVIOUS
  <2> DEFINE m == n + 1 - i
  <2>2. r \in Seq(Byte) /\ Len(r) = m /\ m \in Nat
    <3>1. r \in Seq(Byte) /\ Len(r) = m
      BY <2>1, RestIs, Zenon
    <3> QED
      BY <1>1, <3>1
  <2>3. PICK g \in [1..(m + 1) -> BOOLEAN] :
           /\ g[m + 1] = TRUE /\ g[1] = Valid(r)
           /\ \A k \in 1..m :
                g[k] = \E j \in k..m : j < k + 4 /\ WellFormed(SubSeq(r, k, j)) /\ g[j + 1]
    <3>1. \E g \in [1..(Len(r) + 1) -> BOOLEAN] :
           /\ g[Len(r) + 1] = TRUE /\ g[1] = Valid(r)
           /\ \A k \in 1..Len(r) :
                g[k] = \E j \in k..Len(r) :
                         j < k + 4 /\ WellFormed(SubSeq(r, k, j)) /\ g[j + 1]
      BY <2>2, ValidRecursion, Zenon
    <3> HIDE DEF m
    <3> QED
      BY <2>2, <3>1, Zenon
  <2> DEFINE Same == {k \in 1..(m + 1) : g[k] = f[i + k - 1]}
  <2>4. m + 1 \in Same
    <3>1. m + 1 \in 1..(m + 1) /\ i + (m + 1) - 1 = n + 1
      BY <1>1
    <3> HIDE DEF m, n
    <3> QED
      BY <1>2, <2>3, <3>1, Zenon
  <2>5. ASSUME NEW k \in 1..m, \A l \in (k + 1)..(m + 1) : l \in Same PROVE k \in Same
    <3>1. \A j \in k..m : g[j + 1] = f[i + j]
      <4>1. \A j \in k..m : j + 1 \in (k + 1)..(m + 1) /\ i + (j + 1) - 1 = i + j
        BY <1>1, <2>2
      <4> HIDE DEF m
      <4> QED
        BY <2>5, <4>1, Zenon
    <3>2. \A j \in k..m : SubSeq(r, k, j) = SubSeq(s, i + k - 1, i + j - 1)
      BY <2>1, PartOfRest, Zenon
    <3>3. g[k] = \E j \in k..m :
                   j < k + 4 /\ WellFormed(SubSeq(s, i + k - 1, i + j - 1)) /\ f[i + j]
      <4> HIDE DEF m
      <4> QED
        BY <2>3, <3>1, <3>2, Zenon
    <3>4. i + k - 1 \in 1..n /\ k \in 1..(m + 1)
      BY <1>1
    <3>5. f[i + k - 1] = \E j \in (i + k - 1)..n :
            j < (i + k - 1) + 4 /\ WellFormed(SubSeq(s, i + k - 1, j)) /\ f[j + 1]
      BY <1>2, <3>4, Zenon
    <3>6. \A j \in k..m :
            i + j - 1 \in (i + k - 1)..n /\ (i + j - 1) + 1 = i + j
              /\ (j < k + 4 <=> i + j - 1 < (i + k - 1) + 4)
      BY <1>1
    <3>7. \A l \in (i + k - 1)..n :
            LET j == l + 1 - i
            IN j \in k..m /\ l = i + j - 1
      BY <1>1
    <3>8. (\E j \in k..m : j < k + 4 /\ WellFormed(SubSeq(s, i + k - 1, i + j - 1)) /\ f[i + j])
            <=> \E l \in (i + k - 1)..n :
                  l < (i + k - 1) + 4 /\ WellFormed(SubSeq(s, i + k - 1, l)) /\ f[l + 1]
      <4> HIDE DEF m, n
      <4>1. ASSUME NEW j \in k..m, j < k + 4, WellFormed(SubSeq(s, i + k - 1, i + j - 1)), f[i + j]
            PROVE  \E l \in (i + k - 1)..n :
                  l < (i + k - 1) + 4 /\ WellFormed(SubSeq(s, i + k - 1, l)) /\ f[l + 1]
        BY <3>6, <4>1, Zenon
      <4>2. ASSUME NEW l \in (i + k - 1)..n, l < (i + k - 1) + 4,
                   WellFormed(SubSeq(s, i + k - 1, l)), f[l + 1]
            PROVE  \E j \in k..m :
                     j < k + 4 /\ WellFormed(SubSeq(s, i + k - 1, i + j - 1)) /\ f[i + j]
        <5>1. PICK j \in k..m : l = i + j - 1
          BY <3>7, Zenon
        <5> QED
          BY <3>6, <4>2, <5>1, Zenon
      <4> QED
        BY <4>1, <4>2, Zenon
    <3>9. g[k] = f[i + k - 1]
      <4> HIDE DEF m, n
      <4> QED
        BY <3>3, <3>5, <3>8, Zenon
    <3> QED
      BY <3>4, <3>9, Zenon
  <2>6. \A k \in 1..(m + 1) : k \in Same
    <3> HIDE DEF Same, m
    <3> QED
      BY <2>2, <2>4, <2>5, DownInduction
  <2>7. 1 \in 1..(m + 1) /\ i + 1 - 1 = i
    BY <1>1, <2>2
  <2>8. g[1] = f[i + 1 - 1]
    <3> HIDE DEF m
    <3> QED
      BY <2>6, <2>7, Zenon
  <2> HIDE DEF m
  <2> QED
    BY <2>1, <2>3, <2>7, <2>8, Zenon
<1>4. ASSUME NEW i \in 1..n
      PROVE  Valid(Rest(s, i)) = \E j \in i..n :
               j < i + 4 /\ WellFormed(SubSeq(s, i, j)) /\ Valid(Rest(s, j + 1))
  <2>1. i \in 1..(n + 1) /\ \A j \in i..n : j + 1 \in 1..(n + 1)
    BY <1>1
  <2> HIDE DEF n
  <2> QED
    BY <1>2, <1>3, <2>1, Zenon
<1>5. Valid(<<>>) = TRUE
  <2>1. n + 1 \in 1..(n + 1) /\ Rest(s, n + 1) = <<>>
    BY <1>1, RestIs
  <2> HIDE DEF n
  <2> QED
    BY <1>2, <1>3, <2>1, Zenon
<1> QED
  BY <1>4, <1>5, Zenon

\* The ASCII characters are collected from the end.
LEMMA AsciiRecursion ==
  ASSUME NEW s \in Seq(Byte)
  PROVE  \E f \in [1..(Len(s) + 1) -> Seq(Byte)] :
           /\ f[Len(s) + 1] = <<>> /\ f[1] = Ascii(s)
           /\ \A i \in 1..Len(s) :
                f[i] = IF s[i] < 128 THEN <<s[i]>> \o f[i + 1] ELSE f[i + 1]
<1> DEFINE n == Len(s)
           V == Seq(Byte)
           Inline(f) == f = [i \in 1..(n + 1) |->
                               IF i > n THEN <<>>
                               ELSE IF s[i] < 128 THEN <<s[i]>> \o f[i + 1] ELSE f[i + 1]]
           step == [i \in 1..n |-> [g \in [(i + 1)..(n + 1) -> V] |->
                      IF s[i] < 128 THEN <<s[i]>> \o g[i + 1] ELSE g[i + 1]]]
<1>1. n \in Nat /\ \A i \in 1..n : s[i] \in Byte /\ <<s[i]>> \in V
  <2>1. \A c \in Byte : <<c>> \in Seq(Byte)
    OBVIOUS
  <2> QED
    BY <2>1, LenProperties, ElementOfSeq
<1>2. <<>> \in V
  BY EmptySeq
<1>3. StepsDown(step, n, V)
  <2> SUFFICES ASSUME NEW i \in 1..n, NEW g \in [(i + 1)..(n + 1) -> V]
               PROVE  step[i][g] \in V
    BY DEF StepsDown
  <2>1. i + 1 \in (i + 1)..(n + 1) /\ g[i + 1] \in V
    BY <1>1
  <2>2. <<s[i]>> \o g[i + 1] \in V
    BY <1>1, <2>1, ConcatProperties
  <2> QED
    BY <2>1, <2>2
<1>4. PICK f \in [1..(n + 1) -> V] : IsFromEnd(f, n, <<>>, step)
  <2>1. n \in Nat
    BY <1>1
  <2> HIDE DEF n, V, step
  <2> QED
    BY <1>2, <1>3, <2>1, DownRecursion
<1>5. f[n + 1] = <<>> /\ \A i \in 1..n : f[i] = step[i][Behind(f, i, n)]
  BY <1>4, Zenon DEF IsFromEnd
<1>6. ASSUME NEW i \in 1..n
      PROVE  f[i] = IF s[i] < 128 THEN <<s[i]>> \o f[i + 1] ELSE f[i + 1]
  <2> HIDE DEF V
  <2>1. Behind(f, i, n) \in [(i + 1)..(n + 1) -> V] /\ Behind(f, i, n)[i + 1] = f[i + 1]
    BY <1>1 DEF Behind
  <2>2. f[i] = step[i][Behind(f, i, n)]
    BY <1>5
  <2> QED
    BY <2>1, <2>2
<1>7. Inline(f)
  <2>1. \A i \in 1..(n + 1) : i \in 1..n \/ i = n + 1
    BY <1>1
  <2>2. \A i \in 1..(n + 1) :
          f[i] = IF i > n THEN <<>>
                 ELSE IF s[i] < 128 THEN <<s[i]>> \o f[i + 1] ELSE f[i + 1]
    <3>1. (\A i \in 1..n : ~(i > n)) /\ n + 1 > n
      BY <1>1
    <3>2. f[n + 1] = <<>>
      BY <1>5, Zenon
    <3> HIDE DEF n
    <3> QED
      BY <1>6, <2>1, <3>1, <3>2
  <2> HIDE DEF V
  <2> QED
    BY <2>2
<1> DEFINE from == CHOOSE it : Inline(it)
<1>8. Inline(from)
  <2> HIDE DEF Inline
  <2> QED
    BY <1>7
<1>9. Ascii(s) = from[1]
  BY DEF Ascii
<1> HIDE DEF from, step, V
<1>10. /\ from = [i \in 1..(n + 1) |-> from[i]]
       /\ from[n + 1] = <<>>
       /\ \A i \in 1..n : from[i] = IF s[i] < 128 THEN <<s[i]>> \o from[i + 1] ELSE from[i + 1]
  <2>1. n + 1 \in 1..(n + 1) /\ n + 1 > n /\ \A i \in 1..n : i \in 1..(n + 1) /\ ~(i > n)
    BY <1>1
  <2>2. /\ from = [i \in 1..(n + 1) |-> from[i]]
        /\ \A i \in 1..(n + 1) :
             from[i] = IF i > n THEN <<>>
                       ELSE IF s[i] < 128 THEN <<s[i]>> \o from[i + 1] ELSE from[i + 1]
    <3> HIDE DEF n
    <3> QED
      BY <1>8
  <2> HIDE DEF n, Inline
  <2> QED
    BY <2>1, <2>2
<1> DEFINE Typed == {i \in 1..(n + 1) : from[i] \in V}
<1>11. \A i \in 1..(n + 1) : i \in Typed
  <2>1. n + 1 \in Typed
    BY <1>1, <1>2, <1>10
  <2>2. \A i \in 1..n : (\A k \in (i + 1)..(n + 1) : k \in Typed) => i \in Typed
    <3> SUFFICES ASSUME NEW i \in 1..n, \A k \in (i + 1)..(n + 1) : k \in Typed
                 PROVE  i \in Typed
      OBVIOUS
    <3>1. i \in 1..(n + 1) /\ from[i + 1] \in V
      BY <1>1
    <3>2. <<s[i]>> \o from[i + 1] \in V
      BY <1>1, <3>1, ConcatProperties DEF V
    <3> QED
      BY <1>10, <3>1, <3>2
  <2> HIDE DEF Typed, n
  <2> QED
    BY <1>1, <2>1, <2>2, DownInduction
<1>12. from \in [1..(n + 1) -> V]
  <2> HIDE DEF n
  <2> QED
    BY <1>10, <1>11
<1> QED
  BY <1>9, <1>10, <1>12 DEF V

\* The ASCII characters from a position on, by those behind it.
LEMMA AsciiStep ==
  ASSUME NEW s \in Seq(Byte)
  PROVE  /\ Ascii(s) \in Seq(Byte) /\ Ascii(<<>>) = <<>>
         /\ \A i \in 1..Len(s) :
              Ascii(Rest(s, i)) = IF s[i] < 128 THEN <<s[i]>> \o Ascii(Rest(s, i + 1))
                                  ELSE Ascii(Rest(s, i + 1))
<1> DEFINE n == Len(s)
           V == Seq(Byte)
<1>1. n \in Nat
  BY LenProperties
<1>2. PICK f \in [1..(n + 1) -> V] :
           /\ f[n + 1] = <<>> /\ f[1] = Ascii(s)
           /\ \A i \in 1..n :
                f[i] = IF s[i] < 128 THEN <<s[i]>> \o f[i + 1] ELSE f[i + 1]
  BY AsciiRecursion, Zenon
<1>3. ASSUME NEW i \in 1..(n + 1) PROVE Ascii(Rest(s, i)) = f[i]
  <2>1. PICK r : r = Rest(s, i)
    OBVIOUS
  <2> DEFINE m == n + 1 - i
  <2>2. /\ r \in Seq(Byte) /\ Len(r) = m /\ m \in Nat
        /\ \A k \in 1..m : r[k] = s[i + k - 1]
    <3>1. /\ r \in Seq(Byte) /\ Len(r) = m
          /\ \A k \in 1..m : r[k] = s[i + k - 1]
      BY <2>1, RestIs, Zenon
    <3>2. m \in Nat
      BY <1>1
    <3> QED
      BY <3>1, <3>2, Zenon
  <2>3. PICK g \in [1..(m + 1) -> V] :
           /\ g[m + 1] = <<>> /\ g[1] = Ascii(r)
           /\ \A k \in 1..m :
                g[k] = IF r[k] < 128 THEN <<r[k]>> \o g[k + 1] ELSE g[k + 1]
    <3>1. \E g \in [1..(Len(r) + 1) -> V] :
           /\ g[Len(r) + 1] = <<>> /\ g[1] = Ascii(r)
           /\ \A k \in 1..Len(r) :
                g[k] = IF r[k] < 128 THEN <<r[k]>> \o g[k + 1] ELSE g[k + 1]
      BY <2>2, AsciiRecursion, Zenon
    <3> HIDE DEF m, V
    <3> QED
      BY <2>2, <3>1, Zenon
  <2> DEFINE Same == {k \in 1..(m + 1) : g[k] = f[i + k - 1]}
  <2>4. m + 1 \in Same
    <3>1. m + 1 \in 1..(m + 1) /\ i + (m + 1) - 1 = n + 1
      BY <1>1
    <3> HIDE DEF m, n
    <3> QED
      BY <1>2, <2>3, <3>1, Zenon
  <2>5. ASSUME NEW k \in 1..m, \A l \in (k + 1)..(m + 1) : l \in Same PROVE k \in Same
    <3>1. /\ k + 1 \in (k + 1)..(m + 1) /\ i + (k + 1) - 1 = (i + k - 1) + 1
          /\ i + k - 1 \in 1..n /\ k \in 1..(m + 1)
      BY <1>1
    <3> HIDE DEF m, n
    <3>2. g[k + 1] = f[(i + k - 1) + 1]
      <4>1. g[k + 1] = f[i + (k + 1) - 1]
        BY <2>5, <3>1, Zenon
      <4>2. i + (k + 1) - 1 = (i + k - 1) + 1
        BY <3>1, Zenon
      <4> QED
        BY <4>1, <4>2, Zenon
    <3>3. g[k] = IF r[k] < 128 THEN <<r[k]>> \o g[k + 1] ELSE g[k + 1]
      BY <2>3, Zenon
    <3>4. f[i + k - 1] = IF s[i + k - 1] < 128
                         THEN <<s[i + k - 1]>> \o f[(i + k - 1) + 1]
                         ELSE f[(i + k - 1) + 1]
      BY <1>2, <3>1, Zenon
    <3>5. r[k] = s[i + k - 1]
      BY <2>2, Zenon
    <3>6. g[k] = f[i + k - 1]
      <4> DEFINE c == r[k]
                 g1 == g[k + 1]
      <4>1. c = s[i + k - 1] /\ g1 = f[(i + k - 1) + 1]
        BY <3>2, <3>5, Zenon
      <4>2. g[k] = IF c < 128 THEN <<c>> \o g1 ELSE g1
        BY <3>3, Zenon
      <4> HIDE DEF c, g1
      <4>3. f[i + k - 1] = IF c < 128 THEN <<c>> \o g1 ELSE g1
        BY <3>4, <4>1
      <4> QED
        BY <4>2, <4>3
    <3> QED
      BY <3>1, <3>6, Zenon
  <2>6. \A k \in 1..(m + 1) : k \in Same
    <3> HIDE DEF Same, m
    <3> QED
      BY <2>2, <2>4, <2>5, DownInduction
  <2>7. 1 \in 1..(m + 1) /\ i + 1 - 1 = i
    BY <1>1, <2>2
  <2>8. g[1] = f[i + 1 - 1]
    <3> HIDE DEF m
    <3> QED
      BY <2>6, <2>7, Zenon
  <2> HIDE DEF m
  <2> QED
    BY <2>1, <2>3, <2>7, <2>8, Zenon
<1>4. ASSUME NEW i \in 1..n
      PROVE  Ascii(Rest(s, i)) = IF s[i] < 128 THEN <<s[i]>> \o Ascii(Rest(s, i + 1))
                                  ELSE Ascii(Rest(s, i + 1))
  <2>1. i \in 1..(n + 1) /\ i + 1 \in 1..(n + 1)
    BY <1>1
  <2> HIDE DEF n
  <2> QED
    BY <1>2, <1>3, <2>1, Zenon
<1>5. Ascii(<<>>) = <<>>
  <2>1. n + 1 \in 1..(n + 1) /\ Rest(s, n + 1) = <<>>
    BY <1>1, RestIs
  <2> HIDE DEF n
  <2> QED
    BY <1>2, <1>3, <2>1, Zenon
<1>6. Ascii(s) \in V
  <2>1. 1 \in 1..(n + 1)
    BY <1>1
  <2> HIDE DEF n, V
  <2> QED
    BY <1>2, <2>1, Zenon
<1> QED
  BY <1>4, <1>5, <1>6, Zenon

\* Three bytes, as in the Unicode table.
LEMMA ReplacementIs ==
  Replacement \in Seq(Byte) /\ WellFormed(Replacement) /\ Len(Replacement) = 3
<1>1. Replacement \in Seq(Byte) /\ Len(Replacement) = 3
  BY SMT DEF Replacement, Byte
<1>2. Replacement[1] = 239 /\ Replacement[2] = 191 /\ Replacement[3] = 189
  BY SMT DEF Replacement
<1>3. WellFormed(Replacement)
  <2> HIDE DEF Replacement
  <2>1. Replacement[2] \in Continuation /\ Replacement[3] \in Continuation
    BY <1>2, SMT DEF Continuation
  <2> QED
    BY <1>1, <1>2, <2>1, SMT DEF WellFormed
<1> QED
  BY <1>1, <1>3, Zenon

\* The sequence that starts at i is copied.
Copies(s, i) ==
    /\ Need(s[i]) >= 0 /\ i + Need(s[i]) <= Len(s)
    /\ Accepts(SubSeq(s, i, i + Need(s[i])))

\* The repaired text is written from the end.
LEMMA SanitizeRecursion ==
  ASSUME NEW s \in Seq(Byte)
  PROVE  \E f \in [1..(Len(s) + 1) -> Seq(Byte)] :
           /\ f[Len(s) + 1] = <<>> /\ f[1] = Sanitize(s)
           /\ \A i \in 1..Len(s) :
                f[i] = IF Copies(s, i)
                       THEN SubSeq(s, i, i + Need(s[i])) \o f[i + Need(s[i]) + 1]
                       ELSE Replacement \o f[i + 1]
<1> DEFINE n == Len(s)
           V == Seq(Byte)
           Inline(f) == f = [i \in 1..(n + 1) |->
             IF i > n THEN <<>>
             ELSE LET need == Need(s[i])
                      b == SubSeq(s, i, i + need)
                  IN IF need >= 0 /\ i + need <= n /\ Accepts(b)
                     THEN b \o f[i + need + 1]
                     ELSE Replacement \o f[i + 1]]
           Copied(i) == SubSeq(s, i, i + Need(s[i]))
           Behold(i) == i + Need(s[i]) + 1
           step == [i \in 1..n |-> [g \in [(i + 1)..(n + 1) -> V] |->
                      IF Copies(s, i) THEN Copied(i) \o g[Behold(i)]
                      ELSE Replacement \o g[i + 1]]]
<1>1. n \in Nat
  BY LenProperties
<1>2. /\ n + 1 \in 1..(n + 1) /\ n + 1 > n /\ \A i \in 1..n : i \in 1..(n + 1) /\ ~(i > n)
      /\ \A i \in 1..(n + 1) : i \in 1..n \/ i = n + 1
      /\ \A i \in 1..n : i + 1 \in (i + 1)..(n + 1) /\ (i + 1)..(n + 1) \subseteq 1..(n + 1)
  BY <1>1, SMT
<1>3. ASSUME NEW i \in 1..n, Copies(s, i) PROVE Behold(i) \in (i + 1)..(n + 1) /\ Copied(i) \in V
  <2> DEFINE need == Need(s[i])
  <2>1. s[i] \in Byte
    BY ElementOfSeq, Zenon
  <2>2. need \in Int /\ need >= 0 /\ i + need <= n
    BY <1>3, <2>1, NeedIs, Zenon DEF Copies
  <2> HIDE DEF need
  <2>3. i + need + 1 \in (i + 1)..(n + 1) /\ i + need \in i..n
    BY <1>1, <2>2, SMT
  <2>4. SubSeq(s, i, i + need) \in V
    BY <2>3, PartIs, Zenon
  <2> QED
    BY <2>3, <2>4, Zenon DEF need
<1>4. \A b \in V : \A t \in V : b \o t \in V
  BY ConcatProperties, Zenon
<1>5. ASSUME NEW i \in 1..n, NEW g \in [(i + 1)..(n + 1) -> V]
      PROVE  step[i][g] = IF Copies(s, i) THEN Copied(i) \o g[Behold(i)]
                          ELSE Replacement \o g[i + 1]
  <2> HIDE DEF V, n, Copied, Behold
  <2> QED
    BY Zenon
<1> HIDE DEF step
<1>6. ASSUME NEW i \in 1..n, NEW g \in [(i + 1)..(n + 1) -> V] PROVE step[i][g] \in V
  <2> HIDE DEF V, n, Copied, Behold
  <2>1. CASE Copies(s, i)
    <3>1. g[Behold(i)] \in V /\ Copied(i) \in V
      BY <1>3, <2>1, Zenon
    <3>2. step[i][g] = Copied(i) \o g[Behold(i)]
      BY <1>5, <2>1, Zenon
    <3> QED
      BY <1>4, <3>1, <3>2, Zenon
  <2>2. CASE ~Copies(s, i)
    <3>1. g[i + 1] \in V /\ Replacement \in V
      BY <1>2, ReplacementIs, Zenon DEF V
    <3>2. step[i][g] = Replacement \o g[i + 1]
      BY <1>5, <2>2, Zenon
    <3> QED
      BY <1>4, <3>1, <3>2, Zenon
  <2> QED
    BY <2>1, <2>2, Zenon
<1>7. PICK f \in [1..(n + 1) -> V] : IsFromEnd(f, n, <<>>, step)
  <2>1. <<>> \in V
    BY EmptySeq
  <2>2. StepsDown(step, n, V)
    <3> HIDE DEF V, n
    <3> QED
      BY <1>6, Zenon DEF StepsDown
  <2> HIDE DEF n, V
  <2> QED
    BY <1>1, <2>1, <2>2, DownRecursion
<1>8. f[n + 1] = <<>> /\ \A i \in 1..n : f[i] = step[i][Behind(f, i, n)]
  BY <1>7, Zenon DEF IsFromEnd
<1>9. ASSUME NEW i \in 1..n
      PROVE  f[i] = IF Copies(s, i) THEN Copied(i) \o f[Behold(i)] ELSE Replacement \o f[i + 1]
  <2> HIDE DEF V, n, Copied, Behold
  <2> DEFINE g == Behind(f, i, n)
  <2>1. g \in [(i + 1)..(n + 1) -> V] /\ \A k \in (i + 1)..(n + 1) : g[k] = f[k]
    BY <1>2, Zenon DEF Behind
  <2> HIDE DEF g
  <2>2. f[i] = step[i][g]
    BY <1>8, Zenon DEF g
  <2>3. CASE Copies(s, i)
    <3>1. step[i][g] = Copied(i) \o g[Behold(i)] /\ g[Behold(i)] = f[Behold(i)]
      BY <1>3, <1>5, <2>1, <2>3, Zenon
    <3> QED
      BY <2>2, <2>3, <3>1, Zenon
  <2>4. CASE ~Copies(s, i)
    <3>1. step[i][g] = Replacement \o g[i + 1] /\ g[i + 1] = f[i + 1]
      BY <1>2, <1>5, <2>1, <2>4, Zenon
    <3> QED
      BY <2>2, <2>4, <3>1, Zenon
  <2> QED
    BY <2>3, <2>4, Zenon
<1> DEFINE Text(f_, i) == IF Copies(s, i) THEN Copied(i) \o f_[Behold(i)] ELSE Replacement \o f_[i + 1]
           Inlined(f_) == f_ = [i \in 1..(n + 1) |-> IF i > n THEN <<>> ELSE Text(f_, i)]
<1>10. Inlined(f)
  <2>1. \A i \in 1..(n + 1) : f[i] = IF i > n THEN <<>> ELSE Text(f, i)
    <3> SUFFICES ASSUME NEW i \in 1..(n + 1) PROVE f[i] = IF i > n THEN <<>> ELSE Text(f, i)
      BY Zenon
    <3>1. CASE i = n + 1
      BY <1>2, <1>8, <3>1, Zenon
    <3>2. CASE i \in 1..n
      <4>1. f[i] = Text(f, i) /\ ~(i > n)
        BY <1>2, <1>9, <3>2, Zenon
      <4> HIDE DEF Text, n
      <4> QED
        BY <4>1, Zenon
    <3> QED
      BY <1>2, <3>1, <3>2, Zenon
  <2> HIDE DEF Text, n, V
  <2> QED
    BY <2>1, Zenon
<1>11. \A it : Inline(it) <=> Inlined(it)
  BY Zenon DEF Copies
<1> DEFINE made == CHOOSE it : Inline(it)
<1>12. Inlined(made)
  <2> HIDE DEF Inline, Inlined
  <2> QED
    BY <1>10, <1>11, Zenon
<1>13. Sanitize(s) = made[1]
  BY DEF Sanitize
<1> HIDE DEF made, Inline
<1>14. /\ made = [i \in 1..(n + 1) |-> made[i]]
       /\ made[n + 1] = <<>> /\ \A i \in 1..n : made[i] = Text(made, i)
  <2> HIDE DEF n, Text
  <2>1. /\ made = [i \in 1..(n + 1) |-> made[i]]
        /\ \A i \in 1..(n + 1) : made[i] = IF i > n THEN <<>> ELSE Text(made, i)
    BY <1>12, Zenon
  <2> HIDE DEF Inlined
  <2> QED
    BY <1>2, <2>1, Zenon
<1> DEFINE Typed == {i \in 1..(n + 1) : made[i] \in V}
<1>15. \A i \in 1..(n + 1) : i \in Typed
  <2>1. n + 1 \in Typed
    <3>1. <<>> \in V
      BY EmptySeq
    <3> HIDE DEF V, n
    <3> QED
      BY <1>2, <1>14, <3>1, Zenon
  <2>2. ASSUME NEW i \in 1..n, \A k \in (i + 1)..(n + 1) : k \in Typed PROVE i \in Typed
    <3> HIDE DEF V, n, Copied, Behold
    <3>1. made[i] \in V
      <4>1. CASE Copies(s, i)
        <5>1. made[Behold(i)] \in V /\ Copied(i) \in V
          BY <1>3, <2>2, <4>1, Zenon
        <5>2. made[i] = Copied(i) \o made[Behold(i)]
          BY <1>14, <4>1, Zenon
        <5> QED
          BY <1>4, <5>1, <5>2, Zenon
      <4>2. CASE ~Copies(s, i)
        <5>1. made[i + 1] \in V /\ Replacement \in V
          BY <1>2, <2>2, ReplacementIs, Zenon DEF V
        <5>2. made[i] = Replacement \o made[i + 1]
          BY <1>14, <4>2, Zenon
        <5> QED
          BY <1>4, <5>1, <5>2, Zenon
      <4> QED
        BY <4>1, <4>2, Zenon
    <3> QED
      BY <1>2, <3>1, Zenon
  <2> HIDE DEF Typed, n
  <2> QED
    BY <1>1, <2>1, <2>2, DownInduction
<1>16. made \in [1..(n + 1) -> V]
  <2> HIDE DEF n, V
  <2> QED
    BY <1>14, <1>15, Zenon
<1> QED
  BY <1>13, <1>14, <1>16, Zenon

----------------------------------------------------------------------------
(* sanitizeUtf8 *)

\* Nothing that is not ASCII is among the ASCII characters.
LEMMA AsciiSkips ==
  ASSUME NEW b \in Seq(Byte), NEW t \in Seq(Byte), \A k \in 1..Len(b) : b[k] >= 128
  PROVE  Ascii(b \o t) = Ascii(t)
<1> DEFINE n == Len(b)
<1>1. n \in Nat /\ Len(t) \in Nat
  BY LenProperties
<1>2. PICK s : s = b \o t
  OBVIOUS
<1>3. /\ s \in Seq(Byte) /\ Len(s) = n + Len(t) /\ Rest(s, n + 1) = t /\ Rest(s, 1) = s
      /\ \A k \in 1..n : s[k] = b[k]
  BY <1>2, Joined, RestIs, Zenon
<1> DEFINE Skipped == {k \in 1..(n + 1) : Ascii(Rest(s, k)) = Ascii(t)}
<1>4. n + 1 \in 1..(n + 1) /\ 1 \in 1..(n + 1)
  BY <1>1, SMT
<1>5. n + 1 \in Skipped
  <2> HIDE DEF n
  <2> QED
    BY <1>3, <1>4, Zenon
<1>6. ASSUME NEW k \in 1..n, \A l \in (k + 1)..(n + 1) : l \in Skipped PROVE k \in Skipped
  <2>1. k + 1 \in (k + 1)..(n + 1) /\ k \in 1..(n + 1) /\ k \in 1..(n + Len(t))
    BY <1>1, SMT
  <2>2. ~(b[k] < 128)
    <3>1. b[k] \in Byte /\ b[k] >= 128
      BY ElementOfSeq, Zenon
    <3>2. \A c \in Byte : c >= 128 => ~(c < 128)
      BY SMT DEF Byte
    <3> QED
      BY <3>1, <3>2, Zenon
  <2> HIDE DEF n
  <2>3. Ascii(Rest(s, k)) = Ascii(Rest(s, k + 1))
    <3>1. Ascii(Rest(s, k)) = IF s[k] < 128 THEN <<s[k]>> \o Ascii(Rest(s, k + 1))
                              ELSE Ascii(Rest(s, k + 1))
      BY <1>3, <2>1, AsciiStep, Zenon
    <3>2. ~(s[k] < 128)
      BY <1>3, <2>2, Zenon
    <3> QED
      BY <3>1, <3>2, Zenon
  <2> QED
    BY <1>6, <2>1, <2>3, Zenon
<1>7. \A k \in 1..(n + 1) : k \in Skipped
  <2> HIDE DEF n, Skipped
  <2> QED
    BY <1>1, <1>5, <1>6, DownInduction
<1>8. Ascii(Rest(s, 1)) = Ascii(t)
  <2> HIDE DEF n
  <2> QED
    BY <1>4, <1>7, Zenon
<1> QED
  BY <1>2, <1>3, <1>8, Zenon

\* An ASCII character comes before those behind it.
LEMMA AsciiTakes ==
  ASSUME NEW b \in Seq(Byte), NEW t \in Seq(Byte), Len(b) = 1
  PROVE  Ascii(b \o t) = IF b[1] < 128 THEN <<b[1]>> \o Ascii(t) ELSE Ascii(t)
<1>1. PICK s : s = b \o t
  OBVIOUS
<1>2. /\ s \in Seq(Byte) /\ Len(s) = Len(b) + Len(t) /\ Rest(s, Len(b) + 1) = t /\ Rest(s, 1) = s
      /\ \A k \in 1..Len(b) : s[k] = b[k]
  BY <1>1, Joined, RestIs, Zenon
<1>3. Len(t) \in Nat
  BY LenProperties
<1>4. 1 \in 1..Len(s) /\ 1 \in 1..Len(b) /\ Len(b) + 1 = 1 + 1
  BY <1>2, <1>3, SMT
<1>5. Ascii(Rest(s, 1)) = IF s[1] < 128 THEN <<s[1]>> \o Ascii(Rest(s, 1 + 1))
                          ELSE Ascii(Rest(s, 1 + 1))
  BY <1>2, <1>4, AsciiStep, Zenon
<1>6. s[1] = b[1] /\ Rest(s, 1 + 1) = t
  BY <1>2, <1>4, Zenon
<1> QED
  BY <1>1, <1>2, <1>5, <1>6, Zenon

\* The same ASCII characters behind the same sequence.
LEMMA AsciiSame ==
  ASSUME NEW b \in Seq(Byte), WellFormed(b), NEW t \in Seq(Byte), NEW u \in Seq(Byte),
         Ascii(t) = Ascii(u)
  PROVE  Ascii(b \o t) = Ascii(b \o u)
<1>1. CASE Len(b) = 1
  <2> DEFINE first(a) == IF b[1] < 128 THEN <<b[1]>> \o a ELSE a
  <2>1. Ascii(b \o t) = first(Ascii(t)) /\ Ascii(b \o u) = first(Ascii(u))
    BY <1>1, AsciiTakes, Zenon
  <2> HIDE DEF first
  <2> QED
    BY <2>1, Zenon
<1>2. CASE \A k \in 1..Len(b) : b[k] >= 128
  BY <1>2, AsciiSkips, Zenon
<1> QED
  BY <1>1, <1>2, WellFormedIs, Zenon

\* A well-formed sequence before a valid one.
LEMMA ValidJoined ==
  ASSUME NEW b \in Seq(Byte), WellFormed(b), NEW t \in Seq(Byte), Valid(t)
  PROVE  Valid(b \o t)
<1>1. PICK s : s = b \o t
  OBVIOUS
<1>2. /\ s \in Seq(Byte) /\ Len(s) = Len(b) + Len(t) /\ Rest(s, Len(b) + 1) = t
      /\ Rest(s, 1) = s /\ SubSeq(s, 1, Len(b)) = b
  BY <1>1, Joined, RestIs, Zenon
<1>3. Len(b) \in 1..4 /\ Len(t) \in Nat
  BY WellFormedIs, LenProperties, Zenon
<1>4. 1 \in 1..Len(s) /\ Len(b) \in 1..Len(s) /\ Len(b) < 1 + 4
  <2>1. \A m \in 1..4 : \A l \in Nat : 1 \in 1..(m + l) /\ m \in 1..(m + l) /\ m < 1 + 4
    BY SMT
  <2> QED
    BY <1>2, <1>3, <2>1, Zenon
<1>5. Valid(Rest(s, 1)) = \E j \in 1..Len(s) :
                /\ j < 1 + 4 /\ WellFormed(SubSeq(s, 1, j)) /\ Valid(Rest(s, j + 1))
  BY <1>2, <1>4, ValidStep, Zenon
<1> QED
  BY <1>1, <1>2, <1>4, <1>5, Zenon

\* What a valid sequence starts with is what is copied.
LEMMA ValidCopies ==
  ASSUME NEW s \in Seq(Byte), NEW i \in 1..Len(s), Valid(Rest(s, i))
  PROVE  Copies(s, i) /\ Valid(Rest(s, i + Need(s[i]) + 1))
<1>1. PICK j \in i..Len(s) : WellFormed(SubSeq(s, i, j)) /\ Valid(Rest(s, j + 1))
  BY ValidStep, Zenon
<1>2. PICK b : b = SubSeq(s, i, j)
  OBVIOUS
<1>3. b \in Seq(Byte) /\ Len(b) = j - i + 1 /\ \A k \in 1..(j - i + 1) : b[k] = s[i + k - 1]
  BY <1>2, PartIs, Zenon
<1>4. Len(s) \in Nat
  BY LenProperties
<1>5. 1 \in 1..(j - i + 1) /\ i + 1 - 1 = i
  BY <1>4, SMT
<1>6. b[1] = s[i]
  BY <1>3, <1>5, Zenon
<1>7. s[i] \in Byte
  BY ElementOfSeq, Zenon
<1> DEFINE need == Need(s[i])
<1>8. need \in Int
  BY <1>7, NeedIs, Zenon
<1>9. j - i + 1 = need + 1
  BY <1>1, <1>2, <1>3, <1>6, WellFormedIs, Zenon
<1> HIDE DEF need
<1>10. i + need = j /\ need >= 0 /\ i + need <= Len(s)
  BY <1>4, <1>8, <1>9, SMT
<1>11. Accepts(b)
  BY <1>1, <1>2, <1>3, CopiedIsWellFormed, Zenon
<1> QED
  BY <1>1, <1>2, <1>10, <1>11, Zenon DEF Copies, need

\* A sequence that is copied.
LEMMA CopiedIs ==
  ASSUME NEW s \in Seq(Byte), NEW i \in 1..Len(s), Copies(s, i)
  PROVE  LET b == SubSeq(s, i, i + Need(s[i]))
             next == i + Need(s[i]) + 1
         IN /\ b \in Seq(Byte) /\ WellFormed(b)
            /\ next \in (i + 1)..(Len(s) + 1) /\ Rest(s, i) = b \o Rest(s, next)
<1> DEFINE need == Need(s[i])
<1>1. s[i] \in Byte
  BY ElementOfSeq, Zenon
<1>2. need \in Int /\ need >= 0 /\ i + need <= Len(s) /\ Accepts(SubSeq(s, i, i + need))
  BY <1>1, NeedIs, Zenon DEF Copies
<1>3. Len(s) \in Nat
  BY LenProperties
<1> HIDE DEF need
<1>4. i + need \in i..Len(s) /\ i + need + 1 \in (i + 1)..(Len(s) + 1)
  BY <1>2, <1>3, SMT
<1>5. SubSeq(s, i, i + need) \in Seq(Byte) /\ Rest(s, i) = SubSeq(s, i, i + need) \o Rest(s, i + need + 1)
  BY <1>4, PartIs, Zenon
<1>6. WellFormed(SubSeq(s, i, i + need))
  BY <1>2, <1>5, CopiedIsWellFormed, Zenon
<1> QED
  BY <1>4, <1>5, <1>6, Zenon DEF need

\* An ASCII character is always copied.
LEMMA AsciiCopies ==
  ASSUME NEW s \in Seq(Byte), NEW i \in 1..Len(s), s[i] < 128
  PROVE  Copies(s, i)
<1> DEFINE c == s[i]
           need == Need(c)
<1>1. c \in Byte
  BY ElementOfSeq, Zenon
<1> HIDE DEF c
<1>2. c \in First1
  <2>1. c < 128
    BY DEF c
  <2> QED
    BY <1>1, <2>1, SMT DEF Byte, First1
<1>3. need = 0
  BY <1>1, <1>2, NeedIs, Zenon
<1> HIDE DEF need
<1>4. Len(s) \in Nat
  BY LenProperties
<1>5. i + need = i /\ need >= 0 /\ i + need <= Len(s) /\ i \in i..Len(s) /\ i - i + 1 = 1
  BY <1>3, <1>4, SMT
<1>6. PICK b : b = SubSeq(s, i, i)
  OBVIOUS
<1>7. b \in Seq(Byte) /\ Len(b) = 1 /\ b[1] = c
  <2>1. /\ b \in Seq(Byte) /\ Len(b) = i - i + 1
        /\ \A k \in 1..(i - i + 1) : b[k] = s[i + k - 1]
    BY <1>5, <1>6, PartIs, Zenon
  <2>2. 1 \in 1..1 /\ i + 1 - 1 = i
    BY SMT
  <2> QED
    BY <1>5, <2>1, <2>2, Zenon DEF c
<1>8. WellFormed(b)
  BY <1>2, <1>7, SMT DEF WellFormed, First1
<1>9. Accepts(b)
  BY <1>7, <1>8, CopiedIsWellFormed, Zenon
<1> QED
  BY <1>5, <1>6, <1>9, Zenon DEF Copies, c, need

\* sanitizeUtf8 repairs every sequence of bytes.
THEOREM SanitizeRepairs ==
  ASSUME NEW data \in Seq(Byte) PROVE Repairs(Sanitize(data), data)
<1> DEFINE n == Len(data)
           V == Seq(Byte)
           next(i) == i + Need(data[i]) + 1
           copied(i) == SubSeq(data, i, i + Need(data[i]))
<1>1. n \in Nat
  BY LenProperties
<1>2. PICK made \in [1..(n + 1) -> V] :
           /\ made[n + 1] = <<>> /\ made[1] = Sanitize(data)
           /\ \A i \in 1..n :
                made[i] = IF Copies(data, i) THEN copied(i) \o made[next(i)]
                         ELSE Replacement \o made[i + 1]
  BY SanitizeRecursion, Zenon
<1>3. /\ n + 1 \in 1..(n + 1) /\ 1 \in 1..(n + 1)
      /\ \A i \in 1..n : /\ i \in 1..(n + 1) /\ i + 1 \in (i + 1)..(n + 1)
                         /\ (i + 1)..(n + 1) \subseteq 1..(n + 1)
  BY <1>1, SMT
<1>4. \A i \in 1..(n + 1) : Rest(data, i) \in V
  BY RestIs, Zenon
<1> DEFINE rest(i) == Rest(data, i)
           Good(i) == /\ Valid(made[i])
                      /\ Ascii(made[i]) = Ascii(rest(i))
                      /\ Valid(rest(i)) => made[i] = rest(i)
           Repaired == {i \in 1..(n + 1) : Good(i)}
<1>5. n + 1 \in Repaired
  <2>1. rest(n + 1) = <<>> /\ Valid(<<>>)
    BY RestIs, ValidStep, Zenon
  <2>2. Good(n + 1)
    <3> HIDE DEF n, V, rest
    <3> QED
      BY <1>2, <2>1, Zenon
  <2> HIDE DEF n, Good
  <2> QED
    BY <1>3, <2>2, Zenon
<1>6. ASSUME NEW i \in 1..n, \A k \in (i + 1)..(n + 1) : k \in Repaired PROVE i \in Repaired
  <2>1. CASE Copies(data, i)
    <3> DEFINE b == copied(i)
               t == rest(next(i))
               u == made[next(i)]
    <3>1. b \in V /\ WellFormed(b) /\ next(i) \in (i + 1)..(n + 1) /\ rest(i) = b \o t
      BY <2>1, CopiedIs, Zenon
    <3>2. made[i] = b \o u
      BY <1>2, <2>1, Zenon
    <3> HIDE DEF n, V, b, next
    <3>3. /\ u \in V /\ t \in V
          /\ Valid(u) /\ Ascii(u) = Ascii(t) /\ (Valid(t) => u = t)
      BY <1>2, <1>3, <1>4, <1>6, <3>1, Zenon
    <3>4. Valid(rest(i)) => Valid(t)
      BY ValidCopies, Zenon DEF n, next
    <3> HIDE DEF t, u, rest
    <3>5. Valid(b \o u)
      BY <3>1, <3>3, ValidJoined, Zenon DEF V
    <3>6. Ascii(b \o u) = Ascii(b \o t)
      BY <3>1, <3>3, AsciiSame, Zenon DEF V
    <3>7. Good(i)
      BY <3>1, <3>2, <3>3, <3>4, <3>5, <3>6, Zenon
    <3> HIDE DEF Good
    <3> QED
      BY <1>3, <3>7, Zenon
  <2>2. CASE ~Copies(data, i)
    <3> DEFINE t == rest(i + 1)
               u == made[i + 1]
    <3>1. made[i] = Replacement \o u
      BY <1>2, <2>2, Zenon
    <3>2. Ascii(rest(i)) = Ascii(t)
      <4>1. ~(data[i] < 128)
        BY <2>2, AsciiCopies, Zenon
      <4>2. Ascii(Rest(data, i)) =
              IF data[i] < 128 THEN <<data[i]>> \o Ascii(Rest(data, i + 1))
              ELSE Ascii(Rest(data, i + 1))
        BY AsciiStep, Zenon
      <4> QED
        BY <4>1, <4>2, Zenon
    <3>3. ~Valid(rest(i))
      BY <2>2, ValidCopies, Zenon
    <3> HIDE DEF n, V
    <3>4. u \in V /\ t \in V /\ Valid(u) /\ Ascii(u) = Ascii(t)
      BY <1>2, <1>3, <1>4, <1>6, Zenon
    <3> HIDE DEF t, u, rest
    <3>5. Valid(Replacement \o u)
      BY <3>4, ReplacementIs, ValidJoined, Zenon DEF V
    <3>6. Ascii(Replacement \o u) = Ascii(u)
      <4>1. Len(Replacement) # 1
        BY ReplacementIs, SMT
      <4>2. \A k \in 1..Len(Replacement) : Replacement[k] >= 128
        BY <4>1, ReplacementIs, WellFormedIs, Zenon
      <4> QED
        BY <3>4, <4>2, ReplacementIs, AsciiSkips, Zenon DEF V
    <3>7. Good(i)
      BY <3>1, <3>2, <3>3, <3>4, <3>5, <3>6, Zenon
    <3> HIDE DEF Good
    <3> QED
      BY <1>3, <3>7, Zenon
  <2> QED
    BY <2>1, <2>2, Zenon
<1>7. \A i \in 1..(n + 1) : i \in Repaired
  <2> HIDE DEF n, Repaired
  <2> QED
    BY <1>1, <1>5, <1>6, DownInduction
<1>8. Good(1)
  <2> HIDE DEF n, Good
  <2> QED
    BY <1>3, <1>7, Zenon
<1>9. rest(1) = data
  BY RestIs, Zenon
<1> HIDE DEF n, V, rest
<1> QED
  BY <1>2, <1>8, <1>9, Zenon DEF Repairs

----------------------------------------------------------------------------
(* The task *)

\* What the messages taken so far carry on these kinds.
Taken(kinds) == Output(FirstOf(sent, heard), kinds)

Streams == [stdout : Seq(Byte), stderr : Seq(Byte)]

\* The types, as far as what is collected rests on them.
Types ==
    /\ pc \in ExecPC
    /\ sent \in Seq(Message) /\ heard \in 0..Len(sent)
    /\ out \in Streams /\ total \in Nat
    /\ exit \in Statuses \union {128, -1}

\* A channel is read only after it was opened, nothing follows its close, and the
\* promise is settled when the task is done.
Phases ==
    /\ pc # "done" => answer = Pending
    /\ pc \notin {"reading", "done"} => sent = <<>>
    /\ \A i \in DOMAIN sent : sent[i].kind = "close" => i = Len(sent)
    /\ pc = "reading" => \A i \in 1..heard : sent[i].kind \notin {"failure", "close"}

\* The status that was heard last, else the one that stands for a signal.
ExitHeard ==
    \/ \E i \in 1..heard :
         /\ sent[i].kind = "status" /\ exit = sent[i].code
         /\ \A j \in (i + 1)..heard : sent[j].kind # "status"
    \/ /\ \A i \in 1..heard : sent[i].kind # "status"
       /\ exit = IF \E i \in 1..heard : sent[i].kind = "signal" THEN 128 ELSE -1

\* What is collected is what the messages taken carried.
Collected ==
    /\ out.stdout = Taken({"data", "ext0"}) /\ out.stderr = Taken({"stderr"})
    /\ total = Len(Taken(OutputKinds)) /\ total <= Limit
    /\ ExitHeard

\* What each answer says of the messages.
Answered ==
    /\ answer.code = "Ok" =>
         /\ heard = Len(sent)
         /\ \A i \in DOMAIN sent : sent[i].kind # "failure"
         /\ answer.stdout = Shown(out.stdout) /\ answer.stderr = Shown(out.stderr)
         /\ answer.exit = exit
    /\ answer.code = "TooLarge" => total = Len(Taken(OutputKinds)) /\ total > Limit
    /\ answer.code = "Protocol" =>
         sent = <<>> \/ \E i \in DOMAIN sent : sent[i].kind = "failure"

IInv ==
    /\ Types /\ Phases /\ Answered
    /\ pc # "done" \/ answer.code = "Ok" => Collected

\* The initial state satisfies the invariant.
LEMMA InitIInv == Init => IInv
<1> SUFFICES ASSUME Init PROVE IInv
  OBVIOUS
<1>1. /\ pc = "idle" /\ sent = <<>> /\ heard = 0 /\ total = 0 /\ exit = -1
      /\ out = [stdout |-> <<>>, stderr |-> <<>>] /\ answer = [code |-> "none"]
  BY DEF Init, Pending
<1>2. sent \in Seq(Message) /\ Len(sent) = 0
  BY <1>1, EmptySeq
<1>3. Types
  BY <1>1, <1>2, EmptySeq DEF Types, ExecPC, Streams
<1>4. Phases
  BY <1>1, <1>2, EmptySeq DEF Phases, Pending
<1>5. Answered
  BY <1>1 DEF Answered
<1>6. \A kinds \in SUBSET OutputKinds : Taken(kinds) = <<>>
  <2>1. \A kinds \in SUBSET OutputKinds : Output(FirstOf(sent, 0), kinds) = <<>>
    BY <1>2, OutputNothing, Zenon
  <2> QED
    BY <1>1, <2>1, Zenon DEF Taken
<1>7. ExitHeard
  BY <1>1 DEF ExitHeard
<1>8. Collected
  <2>1. /\ {"data", "ext0"} \in SUBSET OutputKinds /\ {"stderr"} \in SUBSET OutputKinds
        /\ OutputKinds \in SUBSET OutputKinds
    BY DEF OutputKinds
  <2>2. Taken(OutputKinds) = <<>> /\ Len(Taken(OutputKinds)) = 0
    BY <1>6, <2>1, EmptySeq
  <2> QED
    BY <1>1, <1>6, <1>7, <2>1, <2>2, LimitAssumption DEF Collected
<1> QED
  BY <1>3, <1>4, <1>5, <1>8 DEF IInv

\* The channel and what was collected stay as they are.
Same == UNCHANGED <<text, sent, heard, out, total, exit>>

\* Nothing that is said of them changes then.
LEMMA SameKept ==
  ASSUME Same
  PROVE  /\ Collected => Collected'
         /\ Types /\ pc' \in ExecPC => Types'
         /\ Answered /\ answer' = answer => Answered'
<1>1. Collected => Collected'
  BY DEF Same, Collected, ExitHeard, Taken
<1>2. Types /\ pc' \in ExecPC => Types'
  BY DEF Same, Types
<1>3. Answered /\ answer' = answer => Answered'
  BY DEF Same, Answered, Shown, Taken
<1> QED
  BY <1>1, <1>2, <1>3

\* Before the channel is read the task goes on or fails, with an error that is not
\* about the output.
LEMMA Before ==
  ASSUME Types,
         Call \/ ReportsMissing \/ EnsureConnected \/ OpenFails \/ Opens \/ Requests
  PROVE  /\ Same /\ pc \notin {"reading", "done"} /\ pc' \in ExecPC
         /\ \/ pc' # "done" /\ answer' = answer
            \/ pc' = "done" /\ answer'.code \in {"NotFound", "Closed", "Timeout", "Protocol"}
<1> USE DEF Same, collected, ExecPC, Goes, FailsAt, Fails
<1>1. CASE Call
  BY <1>1 DEF Call
<1>2. CASE ReportsMissing
  BY <1>2 DEF ReportsMissing
<1>3. CASE EnsureConnected
  BY <1>3 DEF EnsureConnected
<1>4. CASE OpenFails
  BY <1>4 DEF OpenFails, CodeOf
<1>5. CASE Opens
  BY <1>5 DEF Opens
<1>6. CASE Requests
  BY <1>6 DEF Requests, CodeOf
<1> QED
  BY <1>1, <1>2, <1>3, <1>4, <1>5, <1>6

\* So nothing has been sent yet, and nothing is claimed of it.
LEMMA BeforeKeeps ==
  ASSUME IInv,
         Call \/ ReportsMissing \/ EnsureConnected \/ OpenFails \/ Opens \/ Requests
  PROVE  IInv'
<1>1. Types /\ Phases /\ Answered /\ (pc # "done" => Collected)
  BY DEF IInv
<1>2. /\ Same /\ pc \notin {"reading", "done"} /\ pc' \in ExecPC
      /\ \/ pc' # "done" /\ answer' = answer
         \/ pc' = "done" /\ answer'.code \in {"NotFound", "Closed", "Timeout", "Protocol"}
  BY <1>1, Before
<1>3. Types' /\ Collected'
  BY <1>1, <1>2, SameKept
<1>4. sent = <<>> /\ sent' = <<>> /\ Len(sent') = 0 /\ heard' = 0
  <2>1. sent = <<>> /\ heard \in 0..Len(sent)
    BY <1>1, <1>2 DEF Phases, Types
  <2> QED
    BY <1>2, <2>1, EmptySeq DEF Same
<1>5. Phases'
  BY <1>1, <1>2, <1>4 DEF Phases
<1>6. Answered'
  <2>1. CASE answer' = answer
    BY <1>1, <1>2, <2>1, SameKept
  <2>2. CASE answer'.code \in {"NotFound", "Closed", "Timeout", "Protocol"}
    BY <1>4, <2>2 DEF Answered
  <2> QED
    BY <1>2, <2>1, <2>2
<1> QED
  BY <1>3, <1>5, <1>6 DEF IInv

\* Whoever ends the connection touches neither the task nor what it collected.
LEMMA AroundKeeps ==
  ASSUME IInv, Unregisters \/ FlagFalls \/ SessionEnds \/ UNCHANGED vars
  PROVE  IInv'
<1>1. Same /\ pc' = pc /\ answer' = answer
  BY DEF Unregisters, FlagFalls, SessionEnds, vars, connVars, collected, Same
<1>2. Types' /\ Answered' /\ (Collected => Collected')
  BY <1>1, SameKept DEF IInv, Types
<1>3. Phases'
  BY <1>1 DEF IInv, Phases, Same
<1> QED
  BY <1>1, <1>2, <1>3 DEF IInv

\* A message that arrives comes behind all that has been taken.
LEMMA SendsKeeps ==
  ASSUME IInv, NEW m \in Message, ServerSends(m)
  PROVE  IInv'
<1>1. Types /\ Phases /\ Collected /\ answer = Pending /\ pc = "reading"
  BY DEF IInv, ServerSends, Phases
<1>2. /\ sent' = Append(sent, m) /\ heard' = heard /\ pc' = pc /\ answer' = answer
      /\ out' = out /\ total' = total /\ exit' = exit
      /\ \A i \in DOMAIN sent : sent[i].kind # "close"
  BY DEF ServerSends, collected
<1>3. /\ sent \in Seq(Message) /\ Len(sent) \in Nat /\ heard \in 0..Len(sent)
      /\ DOMAIN sent = 1..Len(sent)
  BY <1>1, LenProperties DEF Types
<1>4. /\ sent' \in Seq(Message) /\ Len(sent') = Len(sent) + 1
      /\ DOMAIN sent' = 1..(Len(sent) + 1)
      /\ \A i \in 1..Len(sent) : sent'[i] = sent[i]
  BY <1>2, <1>3, AppendProperties, LenProperties
<1>5. Types'
  BY <1>1, <1>2, <1>3, <1>4 DEF Types
<1>6. Phases'
  <2>1. \A i \in DOMAIN sent' : sent'[i].kind = "close" => i = Len(sent')
    BY <1>2, <1>3, <1>4
  <2>2. \A i \in 1..heard : sent'[i] = sent[i]
    BY <1>3, <1>4
  <2> QED
    BY <1>1, <1>2, <2>1, <2>2 DEF Phases
<1>7. FirstOf(sent', heard') = FirstOf(sent, heard)
  <2>1. \A s \in Seq(Message), x \in Message : \A k \in 0..Len(s) :
          FirstOf(Append(s, x), k) = FirstOf(s, k)
    BY OutputStays
  <2> QED
    BY <1>2, <1>3, <2>1, Zenon
<1>8. Collected'
  <2>1. \A i \in 1..heard : sent'[i] = sent[i]
    BY <1>3, <1>4
  <2>2. ExitHeard'
    <3>1. ASSUME NEW i \in 1..heard, sent[i].kind = "status", exit = sent[i].code,
                 \A j \in (i + 1)..heard : sent[j].kind # "status"
          PROVE  ExitHeard'
      <4>1. \A j \in (i + 1)..heard : j \in 1..heard
        BY <1>3
      <4>2. \A j \in (i + 1)..heard' : sent'[j].kind # "status"
        BY <1>2, <2>1, <3>1, <4>1
      <4>3. i \in 1..heard' /\ sent'[i].kind = "status" /\ exit' = sent'[i].code
        BY <1>2, <2>1, <3>1
      <4> QED
        BY <4>2, <4>3 DEF ExitHeard
    <3>2. CASE /\ \A i \in 1..heard : sent[i].kind # "status"
               /\ exit = IF \E i \in 1..heard : sent[i].kind = "signal" THEN 128 ELSE -1
      <4>1. \A i \in 1..heard' : sent'[i].kind # "status"
        BY <1>2, <2>1, <3>2
      <4>2. (\E i \in 1..heard' : sent'[i].kind = "signal")
              <=> \E i \in 1..heard : sent[i].kind = "signal"
        BY <1>2, <2>1
      <4>3. exit' = IF \E i \in 1..heard' : sent'[i].kind = "signal" THEN 128 ELSE -1
        BY <1>2, <3>2, <4>2
      <4> QED
        BY <4>1, <4>3 DEF ExitHeard
    <3> QED
      BY <1>1, <3>1, <3>2 DEF Collected, ExitHeard
  <2> QED
    BY <1>1, <1>2, <1>7, <2>2 DEF Collected, Taken
<1>9. Answered'
  BY <1>1, <1>2 DEF Answered, Pending
<1> QED
  BY <1>5, <1>6, <1>8, <1>9 DEF IInv

\* wait() takes one message, and what has been taken grows by what that carries.
LEMMA TakesOne ==
  ASSUME Types, NEW kinds, Takes(kinds), sent' = sent
  PROVE  /\ heard' = heard + 1 /\ heard' \in 1..Len(sent) /\ heard \in Nat
         /\ Waited = sent[heard'] /\ Waited \in Message /\ Waited.kind \in kinds
         /\ \A ks \in SUBSET OutputKinds :
              /\ Taken(ks) \in Seq(Byte)
              /\ Taken(ks)' = IF Waited.kind \in ks THEN Taken(ks) \o Waited.bytes
                              ELSE Taken(ks)
<1>1. /\ heard' = heard + 1 /\ heard' \in 1..Len(sent) /\ heard \in 0..Len(sent)
      /\ heard = heard' - 1 /\ heard \in Nat
      /\ sent \in Seq(Message) /\ Waited = sent[heard']
  BY LenProperties DEF Types, Takes, Waited
<1>2. Waited \in Message /\ Waited.kind \in kinds
  BY <1>1, ElementOfSeq DEF Takes, Waited
<1>3. ASSUME NEW ks \in SUBSET OutputKinds
      PROVE  /\ Taken(ks) \in Seq(Byte)
             /\ Taken(ks)' = IF Waited.kind \in ks THEN Taken(ks) \o Waited.bytes
                             ELSE Taken(ks)
  <2>1. \A s \in Seq(Message) : \A k \in 1..Len(s) :
          Output(FirstOf(s, k), ks) =
            IF s[k].kind \in ks THEN Output(FirstOf(s, k - 1), ks) \o s[k].bytes
            ELSE Output(FirstOf(s, k - 1), ks)
    BY OutputNext, Zenon
  <2>2. Output(FirstOf(sent, heard'), ks) =
          IF Waited.kind \in ks THEN Taken(ks) \o Waited.bytes ELSE Taken(ks)
    BY <1>1, <2>1, Zenon DEF Taken
  <2>3. Taken(ks)' = Output(FirstOf(sent, heard'), ks)
    BY DEF Taken
  <2>4. Taken(ks) \in Seq(Byte)
    BY <1>1, OutputNext, Zenon DEF Taken
  <2> QED
    BY <2>2, <2>3, <2>4
<1> QED
  BY <1>1, <1>2, <1>3

\* A status is the last one when it is heard; a signal counts only without one.
LEMMA HearsExit ==
  ASSUME Types, ExitHeard, NEW kinds, Takes(kinds), sent' = sent,
         exit' = IF Waited.kind = "status" THEN Waited.code
                 ELSE IF Waited.kind = "signal" /\ exit = -1 THEN 128 ELSE exit
  PROVE  ExitHeard'
<1>1. /\ heard' = heard + 1 /\ heard \in Nat /\ Waited = sent[heard']
      /\ Waited \in Message /\ heard' \in 1..Len(sent)
  BY TakesOne
<1>2. \A i \in 1..heard : i \in 1..heard'
  BY <1>1
<1>3. \A i \in 1..heard' : i \in 1..heard \/ i = heard'
  BY <1>1
<1>4. ASSUME NEW i \in 1..heard, sent[i].kind = "status", exit = sent[i].code,
             \A j \in (i + 1)..heard : sent[j].kind # "status",
             Waited.kind # "status"
      PROVE  ExitHeard'
  <2>1. \A j \in (i + 1)..heard' : j \in (i + 1)..heard \/ j = heard'
    BY <1>1
  <2>2. \A j \in (i + 1)..heard' : sent[j].kind # "status"
    BY <1>1, <1>4, <2>1
  <2>3. i \in 1..Len(sent) /\ sent \in Seq(Message)
    BY <1>1 DEF Types
  <2>4. sent[i] \in Message
    BY <2>3, ElementOfSeq
  <2>5. exit \in Nat
    BY <1>4, <2>4, StatusesAssumption DEF Message, OutputKinds
  <2>6. exit' = exit
    BY <1>4, <2>5
  <2> QED
    BY <1>2, <1>4, <2>2, <2>6 DEF ExitHeard
<1>5. CASE Waited.kind = "status"
  <2>1. \A j \in (heard' + 1)..heard' : FALSE
    BY <1>1
  <2>2. heard' \in 1..heard'
    BY <1>1
  <2> QED
    BY <1>1, <1>5, <2>1, <2>2 DEF ExitHeard
<1>6. CASE /\ \A i \in 1..heard : sent[i].kind # "status"
           /\ exit = IF \E i \in 1..heard : sent[i].kind = "signal" THEN 128 ELSE -1
           /\ Waited.kind # "status"
  <2>1. \A i \in 1..heard' : sent[i].kind # "status"
    BY <1>1, <1>3, <1>6
  <2>2. CASE Waited.kind = "signal"
    <3>1. exit' = 128 /\ \E i \in 1..heard' : sent[i].kind = "signal"
      BY <1>1, <1>6, <2>2
    <3> QED
      BY <2>1, <3>1 DEF ExitHeard
  <2>3. CASE Waited.kind # "signal"
    <3>1. (\E i \in 1..heard' : sent[i].kind = "signal")
            <=> \E i \in 1..heard : sent[i].kind = "signal"
      BY <1>1, <1>2, <1>3, <2>3
    <3>2. exit' = exit
      BY <1>6, <2>3
    <3> QED
      BY <1>6, <2>1, <3>1, <3>2 DEF ExitHeard
  <2> QED
    BY <2>2, <2>3
<1> QED
  BY <1>4, <1>5, <1>6 DEF ExitHeard

\* A message that carries no output leaves what is collected as it is.
LEMMA TakesNothing ==
  ASSUME IInv, NEW kinds, Takes(kinds), sent' = sent, kinds \intersect OutputKinds = {},
         out' = out, total' = total, ExitHeard'
  PROVE  Collected'
<1>1. Types /\ Collected
  BY DEF IInv, Takes
<1>2. /\ Waited.kind \in kinds
      /\ \A ks \in SUBSET OutputKinds :
           Taken(ks)' = IF Waited.kind \in ks THEN Taken(ks) \o Waited.bytes ELSE Taken(ks)
  BY <1>1, TakesOne
<1>3. \A ks \in SUBSET OutputKinds : Taken(ks)' = Taken(ks)
  BY <1>2
<1>4. /\ {"data", "ext0"} \in SUBSET OutputKinds /\ {"stderr"} \in SUBSET OutputKinds
      /\ OutputKinds \in SUBSET OutputKinds
  BY DEF OutputKinds
<1>5. /\ Taken({"data", "ext0"})' = Taken({"data", "ext0"})
      /\ Taken({"stderr"})' = Taken({"stderr"}) /\ Taken(OutputKinds)' = Taken(OutputKinds)
  BY <1>3, <1>4
<1> QED
  BY <1>1, <1>5 DEF Collected

\* The loop goes on with the next message.
LEMMA GoesOn ==
  ASSUME IInv, NEW kinds, Takes(kinds), sent' = sent, pc' = pc, answer' = answer,
         "failure" \notin kinds, "close" \notin kinds,
         exit' \in Statuses \union {128, -1}, total' \in Nat, out' \in Streams, Collected'
  PROVE  IInv'
<1>1. Types /\ Phases /\ pc = "reading" /\ answer = Pending
  BY DEF IInv, Takes, Phases
<1>2. /\ heard' = heard + 1 /\ heard' \in 1..Len(sent) /\ heard \in Nat
      /\ Waited = sent[heard'] /\ Waited.kind \in kinds
  BY <1>1, TakesOne
<1>3. Types'
  BY <1>1, <1>2, LenProperties DEF Types
<1>4. Phases'
  <2>1. \A i \in 1..heard' : i \in 1..heard \/ i = heard'
    BY <1>2
  <2>2. \A i \in 1..heard' : sent[i].kind \notin {"failure", "close"}
    BY <1>1, <1>2, <2>1 DEF Phases
  <2> QED
    BY <1>1, <2>2 DEF Phases
<1>5. Answered'
  BY <1>1 DEF Answered, Pending
<1> QED
  BY <1>3, <1>4, <1>5 DEF IInv

\* The task is done with the last message it took.
LEMMA Done ==
  ASSUME IInv, NEW kinds, Takes(kinds), sent' = sent, pc' = "done", exit' = exit,
         total' \in Nat, out' \in Streams
  PROVE  Types' /\ Phases'
<1>1. Types /\ Phases /\ pc = "reading"
  BY DEF IInv, Takes
<1>2. heard' \in 1..Len(sent)
  BY <1>1, TakesOne
<1>3. Types'
  BY <1>1, <1>2, LenProperties DEF Types, ExecPC
<1>4. Phases'
  BY <1>1 DEF Phases
<1> QED
  BY <1>3, <1>4

\* Output is kept as long as both streams stay within the limit together.
LEMMA TakesOutputKeeps ==
  ASSUME IInv, TakesOutput
  PROVE  IInv'
<1>1. Types /\ Phases /\ Collected
  BY DEF IInv, TakesOutput, Takes
<1>2. /\ Takes(OutputKinds) /\ sent' = sent /\ exit' = exit
      /\ total' = total + Len(Waited.bytes)
  BY DEF TakesOutput
<1>3. /\ Waited \in Message /\ Waited.kind \in OutputKinds
      /\ \A ks \in SUBSET OutputKinds :
           /\ Taken(ks) \in Seq(Byte)
           /\ Taken(ks)' = IF Waited.kind \in ks THEN Taken(ks) \o Waited.bytes
                           ELSE Taken(ks)
  BY <1>1, <1>2, TakesOne
<1>4. Waited.bytes \in Seq(Byte)
  BY <1>3, OutputBytes
<1>5. /\ {"data", "ext0"} \in SUBSET OutputKinds /\ {"stderr"} \in SUBSET OutputKinds
      /\ OutputKinds \in SUBSET OutputKinds
  BY DEF OutputKinds
<1>6. total' = Len(Taken(OutputKinds)') /\ total' \in Nat
  <2>1. /\ Taken(OutputKinds) \in Seq(Byte)
        /\ Taken(OutputKinds)' = Taken(OutputKinds) \o Waited.bytes
    BY <1>3, <1>5
  <2>2. /\ Len(Taken(OutputKinds) \o Waited.bytes) =
             Len(Taken(OutputKinds)) + Len(Waited.bytes)
        /\ Len(Taken(OutputKinds)) \in Nat /\ Len(Waited.bytes) \in Nat
    BY <1>4, <2>1, ConcatProperties, LenProperties
  <2>3. total = Len(Taken(OutputKinds))
    BY <1>1 DEF Collected
  <2>4. total' = Len(Taken(OutputKinds)')
    BY <1>2, <2>1, <2>2, <2>3, Zenon
  <2> QED
    BY <1>2, <2>2, <2>3, <2>4
<1>7. CASE total' > Limit
  <2>1. pc' = "done" /\ answer'.code = "TooLarge"
    <3>1. Fails("TooLarge")
      BY <1>7 DEF TakesOutput
    <3> QED
      BY <3>1 DEF Fails
  <2>2. Types' /\ Phases'
    <3>1. out' = out
      BY <1>7 DEF TakesOutput
    <3> QED
      BY <1>1, <1>2, <1>6, <2>1, <3>1, Done DEF Types
  <2>3. Answered'
    BY <1>6, <1>7, <2>1 DEF Answered
  <2> QED
    BY <2>1, <2>2, <2>3 DEF IInv
<1>8. CASE ~(total' > Limit)
  <2>1. /\ pc' = pc /\ answer' = answer
        /\ out' = [out EXCEPT ![Stream(Waited.kind)] = @ \o Waited.bytes]
    BY <1>8 DEF TakesOutput
  <2>2. total' <= Limit
    BY <1>6, <1>8, LimitAssumption
  <2>3. ExitHeard'
    <3>1. Waited.kind # "status" /\ Waited.kind # "signal" /\ ExitHeard
      BY <1>1, <1>3 DEF OutputKinds, Collected
    <3> QED
      BY <1>1, <1>2, <3>1, HearsExit
  <2>4. out'.stdout = Taken({"data", "ext0"})' /\ out'.stderr = Taken({"stderr"})'
    <3>1. /\ Taken({"data", "ext0"})' =
               IF Waited.kind \in {"data", "ext0"}
               THEN Taken({"data", "ext0"}) \o Waited.bytes ELSE Taken({"data", "ext0"})
          /\ Taken({"stderr"})' =
               IF Waited.kind \in {"stderr"}
               THEN Taken({"stderr"}) \o Waited.bytes ELSE Taken({"stderr"})
      BY <1>3, <1>5
    <3>2. out.stdout = Taken({"data", "ext0"}) /\ out.stderr = Taken({"stderr"})
      BY <1>1 DEF Collected
    <3>3. out \in [stdout : Seq(Byte), stderr : Seq(Byte)]
      BY <1>1 DEF Types, Streams
    <3>4. CASE Waited.kind = "stderr"
      <4>1. out'.stderr = out.stderr \o Waited.bytes /\ out'.stdout = out.stdout
        BY <2>1, <3>3, <3>4 DEF Stream
      <4> QED
        BY <3>1, <3>2, <3>4, <4>1
    <3>5. CASE Waited.kind \in {"data", "ext0"}
      <4>1. out'.stdout = out.stdout \o Waited.bytes /\ out'.stderr = out.stderr
        BY <2>1, <3>3, <3>5 DEF Stream
      <4> QED
        BY <3>1, <3>2, <3>5, <4>1
    <3> QED
      BY <1>3, <3>4, <3>5 DEF OutputKinds
  <2>5. out' \in Streams
    <3>1. out \in [stdout : Seq(Byte), stderr : Seq(Byte)]
      BY <1>1 DEF Types, Streams
    <3>2. /\ out.stdout \o Waited.bytes \in Seq(Byte)
          /\ out.stderr \o Waited.bytes \in Seq(Byte)
      BY <1>4, <3>1, ConcatProperties
    <3> QED
      BY <2>1, <3>1, <3>2 DEF Stream, Streams
  <2>6. Collected'
    BY <1>6, <2>2, <2>3, <2>4 DEF Collected
  <2>7. "failure" \notin OutputKinds /\ "close" \notin OutputKinds
    BY DEF OutputKinds
  <2>8. exit' \in Statuses \union {128, -1}
    BY <1>1, <1>2 DEF Types
  <2> QED
    BY <1>2, <1>6, <2>1, <2>6, <2>7, <2>8, <2>5, GoesOn
<1> QED
  BY <1>7, <1>8

\* A status and a signal change the exit code, and nothing else.
LEMMA TakesExitKeeps ==
  ASSUME IInv, TakesStatus \/ TakesSignal \/ TakesOther
  PROVE  IInv'
<1>1. PICK kinds \in {{"status"}, {"signal"}, {"other"}} :
        /\ Takes(kinds) /\ sent' = sent /\ pc' = pc /\ answer' = answer
        /\ out' = out /\ total' = total
        /\ kinds = {"status"} => exit' = Waited.code
        /\ kinds = {"signal"} => exit' = IF exit = -1 THEN 128 ELSE exit
        /\ kinds = {"other"} => exit' = exit
  <2>1. CASE TakesStatus
    BY <2>1 DEF TakesStatus
  <2>2. CASE TakesSignal
    BY <2>2 DEF TakesSignal
  <2>3. CASE TakesOther
    BY <2>3 DEF TakesOther, collected
  <2> QED
    BY <2>1, <2>2, <2>3
<1>2. Types /\ Collected /\ ExitHeard
  BY <1>1 DEF IInv, Takes, Collected
<1>3. Waited \in Message /\ Waited.kind \in kinds
  BY <1>1, <1>2, TakesOne
<1>4. /\ kinds \intersect OutputKinds = {}
      /\ "failure" \notin kinds /\ "close" \notin kinds
  BY <1>1 DEF OutputKinds
<1>5. exit' = IF Waited.kind = "status" THEN Waited.code
              ELSE IF Waited.kind = "signal" /\ exit = -1 THEN 128 ELSE exit
  BY <1>1, <1>3
<1>6. ExitHeard'
  BY <1>1, <1>2, <1>5, HearsExit
<1>7. Collected'
  BY <1>1, <1>4, <1>6, TakesNothing
<1>8. exit' \in Statuses \union {128, -1}
  <2>1. Waited.kind = "status" => Waited.code \in Statuses
    BY <1>3 DEF Message, OutputKinds
  <2> QED
    BY <1>1, <1>2, <1>3, <2>1 DEF Types
<1>9. total' \in Nat /\ out' \in Streams
  BY <1>1, <1>2 DEF Types
<1> QED
  BY <1>1, <1>4, <1>7, <1>8, <1>9, GoesOn

\* The server refuses the command.
LEMMA TakesFailureKeeps ==
  ASSUME IInv, TakesFailure
  PROVE  IInv'
<1>1. /\ Takes({"failure"}) /\ Fails("Protocol") /\ sent' = sent
      /\ out' = out /\ total' = total /\ exit' = exit
  BY DEF TakesFailure, collected
<1>2. pc' = "done" /\ answer'.code = "Protocol"
  BY <1>1 DEF Fails
<1>3. Types
  BY DEF IInv
<1>4. Types' /\ Phases'
  BY <1>1, <1>2, <1>3, Done DEF Types
<1>5. \E i \in DOMAIN sent : sent[i].kind = "failure"
  BY <1>1, <1>3, TakesOne, LenProperties DEF Types
<1>6. Answered'
  BY <1>1, <1>2, <1>5 DEF Answered
<1> QED
  BY <1>2, <1>4, <1>6 DEF IInv

\* A success comes when the last message was taken, and with all that was collected.
LEMMA SucceedsAtEnd ==
  ASSUME Types', Phases', Collected', Succeeds, out' = out, exit' = exit, text' = text,
         heard' = Len(sent), sent' = sent,
         \A i \in DOMAIN sent : sent[i].kind # "failure"
  PROVE  IInv'
<1>1. /\ answer' = [code |-> "Ok", stdout |-> Shown(out.stdout),
                    stderr |-> Shown(out.stderr), exit |-> exit]
  BY DEF Succeeds
<1>2. /\ answer'.code = "Ok" /\ answer'.exit = exit'
      /\ answer'.stdout = Shown(out.stdout) /\ answer'.stderr = Shown(out.stderr)
  BY <1>1
<1>3. Shown(out.stdout)' = Shown(out.stdout) /\ Shown(out.stderr)' = Shown(out.stderr)
  BY DEF Shown
<1>4. Answered'
  BY <1>2, <1>3 DEF Answered
<1> QED
  BY <1>4 DEF IInv

\* The close of the channel is its last message.
LEMMA TakesCloseKeeps ==
  ASSUME IInv, TakesClose
  PROVE  IInv'
<1>1. /\ Takes({"close"}) /\ Succeeds /\ pc' = "done" /\ text' = text /\ sent' = sent
      /\ out' = out /\ total' = total /\ exit' = exit
  BY DEF TakesClose, Succeeds, collected
<1>2. Types /\ Phases /\ Collected /\ pc = "reading"
  BY <1>1 DEF IInv, Takes
<1>3. Types' /\ Phases'
  BY <1>1, <1>2, Done DEF Types
<1>4. /\ heard' = heard + 1 /\ heard' \in 1..Len(sent) /\ heard \in Nat
      /\ Waited = sent[heard'] /\ Waited.kind = "close"
  <2>1. Waited.kind \in {"close"}
    BY <1>1, <1>2, TakesOne
  <2> QED
    BY <1>1, <1>2, <2>1, TakesOne
<1>5. DOMAIN sent = 1..Len(sent) /\ heard' = Len(sent)
  BY <1>2, <1>4, LenProperties DEF Types, Phases
<1>6. \A i \in DOMAIN sent : sent[i].kind # "failure"
  <2>1. \A i \in DOMAIN sent : i \in 1..heard \/ i = heard'
    BY <1>4, <1>5
  <2> QED
    BY <1>2, <1>4, <2>1 DEF Phases
<1>7. Collected'
  <2>1. Waited.kind # "status" /\ Waited.kind # "signal"
    BY <1>4
  <2>2. ExitHeard'
    BY <1>1, <1>2, <2>1, HearsExit DEF Collected
  <2>3. {"close"} \intersect OutputKinds = {}
    BY DEF OutputKinds
  <2> QED
    BY <1>1, <2>2, <2>3, TakesNothing
<1> QED
  BY <1>1, <1>3, <1>5, <1>6, <1>7, SucceedsAtEnd

\* Without a session the queue ends where the last message was taken.
LEMMA ChannelGoneKeeps ==
  ASSUME IInv, ChannelGone
  PROVE  IInv'
<1>1. /\ pc = "reading" /\ heard = Len(sent) /\ Succeeds /\ pc' = "done"
      /\ text' = text /\ sent' = sent /\ heard' = heard
      /\ out' = out /\ total' = total /\ exit' = exit
  BY DEF ChannelGone, Succeeds, collected
<1>2. Types /\ Phases /\ Collected
  BY <1>1 DEF IInv
<1>3. Same /\ pc' \in ExecPC
  BY <1>1 DEF Same, ExecPC
<1>4. Types' /\ Collected'
  BY <1>2, <1>3, SameKept
<1>5. Phases'
  BY <1>1, <1>2 DEF Phases
<1>6. \A i \in DOMAIN sent : sent[i].kind # "failure"
  BY <1>1, <1>2, LenProperties DEF Phases, Types
<1> QED
  BY <1>1, <1>4, <1>5, <1>6, SucceedsAtEnd

\* Every step keeps the invariant.
LEMMA NextIInv == IInv /\ [Next]_vars => IInv'
<1> SUFFICES ASSUME IInv, [Next]_vars PROVE IInv'
  OBVIOUS
<1>1. CASE Call \/ ReportsMissing \/ EnsureConnected \/ OpenFails \/ Opens \/ Requests
  BY <1>1, BeforeKeeps
<1>2. CASE TakesOutput
  BY <1>2, TakesOutputKeeps
<1>3. CASE TakesStatus \/ TakesSignal \/ TakesOther
  BY <1>3, TakesExitKeeps
<1>4. CASE TakesFailure
  BY <1>4, TakesFailureKeeps
<1>5. CASE TakesClose
  BY <1>5, TakesCloseKeeps
<1>6. CASE ChannelGone
  BY <1>6, ChannelGoneKeeps
<1>7. CASE \E m \in Message : ServerSends(m)
  BY <1>7, SendsKeeps
<1>8. CASE Unregisters \/ FlagFalls \/ SessionEnds \/ UNCHANGED vars
  BY <1>8, AroundKeeps
<1> QED
  BY <1>1, <1>2, <1>3, <1>4, <1>5, <1>6, <1>7, <1>8 DEF Next, Task

\* The greatest of the positions where something holds.
LEMMA LastPosition ==
  \A n \in Nat : \A S \in SUBSET (1..n) : \A i \in S :
    (\A j \in (i + 1)..n : j \notin S) => Max(S) = i
<1> SUFFICES ASSUME NEW n \in Nat, NEW S \in SUBSET (1..n), NEW i \in S,
                    \A j \in (i + 1)..n : j \notin S
             PROVE  Max(S) = i
  OBVIOUS
<1>1. \A j \in S : j \in Nat /\ j <= i
  OBVIOUS
<1>2. PICK m : m = Max(S) /\ m \in S /\ \A j \in S : j <= m
  BY LastElement
<1>3. i \in Nat /\ m \in Nat /\ m <= i /\ i <= m
  BY <1>1, <1>2
<1>4. m = i
  BY <1>3
<1> QED
  BY <1>2, <1>4

\* In the end the status that was heard is the one the server reported last.
LEMMA ExitIsSent ==
  ASSUME Types, ExitHeard, heard = Len(sent)
  PROVE  exit = ExitSent
<1> DEFINE S == OfKind({"status"})
<1>1. sent \in Seq(Message) /\ Len(sent) \in Nat /\ DOMAIN sent = 1..Len(sent)
  BY LenProperties DEF Types
<1>2. /\ \A i \in 1..Len(sent) : i \in S <=> sent[i].kind = "status"
      /\ S \in SUBSET (1..Len(sent))
      /\ OfKind({"signal"}) # {} <=> \E i \in 1..Len(sent) : sent[i].kind = "signal"
  BY <1>1 DEF OfKind
<1>3. ExitSent = IF S # {} THEN sent[Max(S)].code
                 ELSE IF OfKind({"signal"}) # {} THEN 128 ELSE -1
  BY DEF ExitSent
<1> HIDE DEF S
<1>4. ASSUME NEW i \in 1..heard, sent[i].kind = "status", exit = sent[i].code,
             \A j \in (i + 1)..heard : sent[j].kind # "status"
      PROVE  exit = ExitSent
  <2>1. i \in S /\ S # {}
    BY <1>2, <1>4
  <2>2. \A j \in (i + 1)..Len(sent) : j \notin S
    <3>1. \A j \in (i + 1)..Len(sent) : j \in 1..Len(sent)
      BY <1>1, <1>4
    <3> QED
      BY <1>2, <1>4, <3>1
  <2>3. Max(S) = i
    BY <1>1, <1>2, <2>1, <2>2, LastPosition
  <2> QED
    BY <1>3, <1>4, <2>1, <2>3
<1>5. CASE /\ \A i \in 1..heard : sent[i].kind # "status"
           /\ exit = IF \E i \in 1..heard : sent[i].kind = "signal" THEN 128 ELSE -1
  <2>1. S = {}
    BY <1>2, <1>5
  <2> QED
    BY <1>2, <1>3, <1>5, <2>1
<1> QED
  BY <1>4, <1>5 DEF ExitHeard

\* What the invariant says of a settled promise is what it promises.
LEMMA InvFaithful == IInv => ResultFaithful
<1> SUFFICES ASSUME IInv PROVE ResultFaithful
  OBVIOUS
<1>1. Types /\ Answered /\ (answer.code = "Ok" => Collected)
  BY DEF IInv
<1>2. /\ sent \in Seq(Message) /\ Len(sent) \in Nat /\ DOMAIN sent = 1..Len(sent)
      /\ heard \in 0..Len(sent)
  BY <1>1, LenProperties DEF Types
<1>3. /\ {"data", "ext0"} \in SUBSET OutputKinds /\ {"stderr"} \in SUBSET OutputKinds
      /\ OutputKinds \in SUBSET OutputKinds
  BY DEF OutputKinds
<1>4. ASSUME answer.code = "Ok"
      PROVE  /\ answer.exit = ExitSent
             /\ Len(Output(sent, OutputKinds)) <= Limit
             /\ OfKind({"failure"}) = {}
             /\ ~text => /\ answer.stdout = Output(sent, {"data", "ext0"})
                         /\ answer.stderr = Output(sent, {"stderr"})
  <2>1. /\ Collected /\ heard = Len(sent) /\ answer.exit = exit
        /\ \A i \in DOMAIN sent : sent[i].kind # "failure"
        /\ answer.stdout = Shown(out.stdout) /\ answer.stderr = Shown(out.stderr)
    BY <1>1, <1>4 DEF Answered
  <2>2. \A ks \in SUBSET OutputKinds : Taken(ks) = Output(sent, ks)
    <3>1. \A ks \in SUBSET OutputKinds :
            Output(FirstOf(sent, Len(sent)), ks) = Output(sent, ks)
      BY <1>2, OutputNext, Zenon
    <3> QED
      BY <2>1, <3>1, Zenon DEF Taken
  <2>3. /\ Taken(OutputKinds) = Output(sent, OutputKinds)
        /\ Taken({"data", "ext0"}) = Output(sent, {"data", "ext0"})
        /\ Taken({"stderr"}) = Output(sent, {"stderr"})
    BY <1>3, <2>2
  <2>4. answer.exit = ExitSent
    BY <1>1, <2>1, ExitIsSent DEF Collected
  <2>5. Len(Output(sent, OutputKinds)) <= Limit
    <3>1. total = Len(Taken(OutputKinds)) /\ total <= Limit
      BY <2>1 DEF Collected
    <3> QED
      BY <2>3, <3>1, Zenon
  <2>6. OfKind({"failure"}) = {}
    BY <2>1 DEF OfKind
  <2>7. ~text => /\ answer.stdout = Output(sent, {"data", "ext0"})
                 /\ answer.stderr = Output(sent, {"stderr"})
    BY <2>1, <2>3 DEF Collected, Shown
  <2> QED
    BY <2>4, <2>5, <2>6, <2>7
<1>5. ASSUME answer.code = "TooLarge"
      PROVE  Len(Output(sent, OutputKinds)) > Limit
  <2>1. total = Len(Taken(OutputKinds)) /\ total > Limit /\ total \in Nat
    BY <1>1, <1>5 DEF Answered, Types
  <2>2. Len(Output(FirstOf(sent, heard), OutputKinds)) <= Len(Output(sent, OutputKinds))
    BY <1>2, <1>3, OutputGrows
  <2>3. Len(Output(sent, OutputKinds)) \in Nat
    <3>1. Output(FirstOf(sent, Len(sent)), OutputKinds) = Output(sent, OutputKinds)
      BY <1>2, <1>3, OutputNext, Zenon
    <3>2. Len(sent) \in 0..Len(sent)
      BY <1>2
    <3>3. Output(FirstOf(sent, Len(sent)), OutputKinds) \in Seq(Byte)
      BY <1>2, <1>3, <3>2, OutputNext, Zenon
    <3>4. Output(sent, OutputKinds) \in Seq(Byte)
      BY <3>1, <3>3, Zenon
    <3> QED
      BY <3>4, LenProperties
  <2>4. total <= Len(Output(sent, OutputKinds))
    BY <2>1, <2>2, Zenon DEF Taken
  <2> QED
    BY <2>1, <2>3, <2>4, LimitAssumption
<1>6. ASSUME answer.code = "Protocol"
      PROVE  sent = <<>> \/ OfKind({"failure"}) # {}
  BY <1>1, <1>6 DEF Answered, OfKind
<1> QED
  BY <1>4, <1>5, <1>6 DEF ResultFaithful

\* What the invariant says of a text is that it repairs what was sent.
LEMMA InvRepaired == IInv => TextRepaired
<1> SUFFICES ASSUME IInv, answer.code = "Ok", text
             PROVE  /\ Repairs(answer.stdout, Output(sent, {"data", "ext0"}))
                    /\ Repairs(answer.stderr, Output(sent, {"stderr"}))
  BY DEF TextRepaired
<1>1. Types /\ Answered /\ Collected
  BY DEF IInv
<1>2. /\ sent \in Seq(Message) /\ heard = Len(sent)
      /\ answer.stdout = Shown(out.stdout) /\ answer.stderr = Shown(out.stderr)
  BY <1>1 DEF Types, Answered
<1>3. /\ {"data", "ext0"} \in SUBSET OutputKinds /\ {"stderr"} \in SUBSET OutputKinds
  BY DEF OutputKinds
<1>4. ASSUME NEW ks \in SUBSET OutputKinds
      PROVE  Taken(ks) = Output(sent, ks) /\ Output(sent, ks) \in Seq(Byte)
  <2>1. /\ Output(FirstOf(sent, Len(sent)), ks) = Output(sent, ks) /\ Len(sent) \in Nat
        /\ \A k \in 0..Len(sent) : Output(FirstOf(sent, k), ks) \in Seq(Byte)
    BY <1>2, OutputNext, Zenon
  <2>2. Len(sent) \in 0..Len(sent)
    BY <2>1
  <2> QED
    BY <1>2, <2>1, <2>2, Zenon DEF Taken
<1>5. \A bytes \in Seq(Byte) : Repairs(Sanitize(bytes), bytes)
  BY SanitizeRepairs, Zenon
<1>6. /\ answer.stdout = Sanitize(Output(sent, {"data", "ext0"}))
      /\ answer.stderr = Sanitize(Output(sent, {"stderr"}))
  BY <1>1, <1>2, <1>3, <1>4, Zenon DEF Collected, Shown
<1> QED
  BY <1>3, <1>4, <1>5, <1>6, Zenon

\* The invariant behind the theorem below holds in every run.
THEOREM Invariance == Spec => []IInv
<1> QED
  BY InitIInv, NextIInv, PTL DEF Spec

\* A promise of exec() is settled with all the output and the last status, or with
\* an error that is true of what the server sent.
THEOREM Faithful == Spec => []ResultFaithful
<1> QED
  BY Invariance, InvFaithful, PTL

\* A promise of execText() is settled with the output as valid UTF-8, unchanged where
\* it was valid, and with every ASCII character in place.
THEOREM TextIsRepaired == Spec => []TextRepaired
<1> QED
  BY Invariance, InvRepaired, PTL
=============================================================================
