------------------------- MODULE ShellOutputProofs -------------------------
(***************************************************************************)
(* Proofs about ShellOutput, for any streams, sizes, limits and number of  *)
(* messages: the shape of what is held back, and that every step is a step *)
(* of OutputStream or a stutter.                                           *)
(***************************************************************************)
EXTENDS ShellOutput, DataLemmas, SequenceTheorems

\* What was received is what was delivered and then what is held back; at any time
\* one of the two places at most holds something back, and the closed shell none.
Whole ==
    /\ received = delivered \o early \o batch
    /\ early # <<>> => phase \in {"setup", "failed", "accepted"}
    /\ batch # <<>> => phase \in {"pumping", "writing", "flushing"}

\* A window is open only if one is configured.
Windows == HeldOnlyInWindow /\ (window => windowed)

IInv == Inv /\ Whole /\ Windows

----------------------------------------------------------------------------
(* Sizes *)

\* The sizes of a sequence of chunks, by position.
SizesOf(b) == [i \in DOMAIN b |-> b[i].size]

\* The size of a buffer is a sum over its positions.
LEMMA TotalIsSum ==
  ASSUME NEW b \in Seq(Chunk)
  PROVE  /\ IsFiniteSet(DOMAIN b) /\ \A i \in DOMAIN b : SizesOf(b)[i] \in Nat
         /\ TotalSize(b) = Sum(SizesOf(b), DOMAIN b)
<1> DEFINE D == DOMAIN b
           Adds(g) == g = [s \in SUBSET D |->
                             IF s = {} THEN 0 ELSE b[Chosen(s)].size + g[s \ {Chosen(s)}]]
           it == CHOOSE g : Adds(g)
<1>1. IsFiniteSet(D) /\ D = 1..Len(b) /\ Len(b) \in Nat
  BY LenProperties, FS_Interval
<1>2. \A i \in D : SizesOf(b)[i] = b[i].size /\ SizesOf(b)[i] \in Nat
  <2>1. \A i \in D : b[i] \in Chunk
    BY <1>1, ElementOfSeq
  <2>2. \A i \in D : SizesOf(b)[i] = b[i].size
    BY DEF SizesOf
  <2>3. \A c \in Chunk : c.size \in Nat
    BY SizesAssumption DEF Chunk
  <2> HIDE DEF D
  <2> QED
    BY <2>1, <2>2, <2>3
<1>3. ASSUME NEW g PROVE Adds(g) <=> IsSum(g, D, SizesOf(b))
  <2>1. \A s \in SUBSET D : s # {} => b[Chosen(s)].size = SizesOf(b)[Chosen(s)]
    BY <1>2, ChosenIsOne
  <2> QED
    BY <2>1 DEF IsSum
<1>4. TotalSize(b) = it[D]
  BY DEF TotalSize, FoldSeq, FoldFunction, FoldFunctionOnSet, MapThenFoldSet, Chosen
<1> HIDE DEF D, Adds, it
<1>5. PICK g : IsSum(g, D, SizesOf(b)) /\ Sum(SizesOf(b), D) = g[D]
  BY <1>1, <1>2, SumDef
<1>6. IsSum(it, D, SizesOf(b))
  BY <1>3, <1>5 DEF it
<1>7. it[D] = g[D]
  BY <1>1, <1>5, <1>6, SumsAgree
<1> QED
  BY <1>1, <1>2, <1>4, <1>5, <1>7 DEF D

\* Sizes are natural numbers.
LEMMA TotalNat ==
  (\A b \in Seq(Chunk) : TotalSize(b) \in Nat) /\ (\A c \in Chunk : c.size \in Nat)
<1>1. ASSUME NEW b \in Seq(Chunk) PROVE TotalSize(b) \in Nat
  BY TotalIsSum, SumNat
<1>2. \A c \in Chunk : c.size \in Nat
  BY SizesAssumption DEF Chunk
<1> QED
  BY <1>1, <1>2

\* One more chunk adds its size.
LEMMA TotalAppend ==
  ASSUME NEW b \in Seq(Chunk), NEW c \in Chunk
  PROVE  TotalSize(Append(b, c)) = TotalSize(b) + c.size
<1> DEFINE a == Append(b, c)
           D == DOMAIN b
           n == Len(b) + 1
<1>1. a \in Seq(Chunk) /\ Len(a) = n /\ a[n] = c /\ \A i \in 1..Len(b) : a[i] = b[i]
  BY AppendProperties
<1>2. D = 1..Len(b) /\ DOMAIN a = 1..n /\ Len(b) \in Nat
  BY <1>1, LenProperties
<1>3. n \notin D /\ DOMAIN a = D \union {n}
  BY <1>2
<1>4. \A i \in D : SizesOf(a)[i] = SizesOf(b)[i]
  BY <1>1, <1>2, <1>3 DEF SizesOf
<1>5. SizesOf(a)[n] = c.size
  BY <1>1, <1>3 DEF SizesOf
<1>6. /\ IsFiniteSet(D) /\ \A i \in D : SizesOf(b)[i] \in Nat
      /\ TotalSize(b) = Sum(SizesOf(b), D)
  BY TotalIsSum
<1>7. /\ \A i \in DOMAIN a : SizesOf(a)[i] \in Nat
      /\ TotalSize(a) = Sum(SizesOf(a), DOMAIN a)
  BY <1>1, TotalIsSum
<1> HIDE DEF a, D, n
<1>8. Sum(SizesOf(a), D \union {n}) = SizesOf(a)[n] + Sum(SizesOf(a), D)
  BY <1>3, <1>6, <1>7, SumAdd
<1>9. Sum(SizesOf(a), D) = Sum(SizesOf(b), D)
  BY <1>4, <1>6, SumEqual
<1>10. Sum(SizesOf(b), D) \in Nat /\ c.size \in Nat
  BY <1>6, SumNat, TotalNat
<1> QED
  BY <1>3, <1>5, <1>6, <1>7, <1>8, <1>9, <1>10 DEF a

----------------------------------------------------------------------------
(* Sequences *)

\* What comes first of two sequences is a prefix of both together.
LEMMA Prefix ==
  ASSUME NEW s \in Seq(Chunk), NEW t \in Seq(Chunk)
  PROVE  SubSeq(s \o t, 1, Len(s)) = s /\ Len(s) \in 0..Len(s \o t)
<1>1. /\ s \o t \in Seq(Chunk) /\ Len(s \o t) = Len(s) + Len(t)
      /\ \A i \in 1..Len(s) + Len(t) : (s \o t)[i] = IF i <= Len(s) THEN s[i] ELSE t[i - Len(s)]
      /\ Len(s) \in Nat /\ Len(t) \in Nat
  BY ConcatProperties, LenProperties
<1> DEFINE u == s \o t
           n == Len(s)
<1>2. \A i \in 1..n : u[i] = s[i] /\ u[i] \in Chunk
  <2>1. \A i \in 1..n : i \in 1..Len(s) + Len(t) /\ i <= n
    BY <1>1
  <2>2. \A i \in 1..n : s[i] \in Chunk
    BY ElementOfSeq
  <2> QED
    BY <1>1, <2>1, <2>2
<1> HIDE DEF u
<1>3. /\ SubSeq(u, 1, n) \in Seq(Chunk)
      /\ Len(SubSeq(u, 1, n)) = IF 1 <= n THEN n - 1 + 1 ELSE 0
      /\ \A i \in 1..n - 1 + 1 : SubSeq(u, 1, n)[i] = u[1 + i - 1]
  BY <1>1, <1>2, SubSeqProperties
<1>4. Len(SubSeq(u, 1, n)) = n
  BY <1>1, <1>3
<1>5. \A i \in 1..n : SubSeq(u, 1, n)[i] = s[i]
  BY <1>1, <1>2, <1>3
<1>6. SubSeq(u, 1, n) = s
  BY <1>3, <1>4, <1>5, SeqEqual
<1> QED
  BY <1>1, <1>6 DEF u

\* A message alone is a sequence of one, of its size.
LEMMA Alone ==
  ASSUME NEW c \in Chunk
  PROVE  /\ <<c>> \in Seq(Chunk) /\ Len(<<c>>) = 1 /\ <<c>>[1] = c
         /\ \A s \in Seq(Chunk) : Append(s, c) = s \o <<c>>
<1>1. <<c>> = Append(<<>>, c)
  OBVIOUS
<1>2. <<>> \in Seq(Chunk)
  BY EmptySeq
<1> QED
  BY <1>1, <1>2, AppendIsConcat

\* The sequence begins with its head.
LEMMA HeadFirst ==
  ASSUME NEW s \in Seq(Chunk), s # <<>>
  PROVE  Head(s) \in Chunk /\ Tail(s) \in Seq(Chunk) /\ s = <<Head(s)>> \o Tail(s)
<1>1. /\ Head(s) \in Chunk /\ Tail(s) \in Seq(Chunk) /\ Len(Tail(s)) = Len(s) - 1
      /\ \A i \in 1..Len(Tail(s)) : Tail(s)[i] = s[i + 1]
      /\ Len(s) \in Nat \ {0}
  BY HeadTailProperties, EmptySeq
<1>2. Head(s) = s[1]
  OBVIOUS
<1>3. <<Head(s)>> \in Seq(Chunk) /\ Len(<<Head(s)>>) = 1 /\ <<Head(s)>>[1] = Head(s)
  BY <1>1, Alone
<1> DEFINE h == <<Head(s)>>
           t == Tail(s)
<1> HIDE DEF h, t
<1>4. /\ h \o t \in Seq(Chunk) /\ Len(h \o t) = Len(h) + Len(t)
      /\ \A i \in 1..Len(h) + Len(t) : (h \o t)[i] = IF i <= Len(h) THEN h[i] ELSE t[i - Len(h)]
  BY <1>1, <1>3, ConcatProperties DEF h, t
<1>5. Len(h \o t) = Len(s)
  BY <1>1, <1>3, <1>4 DEF h, t
<1>6. ASSUME NEW i \in 1..Len(s) PROVE (h \o t)[i] = s[i]
  <2>1. CASE i = 1
    BY <2>1, <1>1, <1>2, <1>3, <1>4 DEF h, t
  <2>2. CASE i # 1
    <3>1. i - 1 \in 1..Len(t) /\ i - 1 + 1 = i /\ ~(i <= 1) /\ i \in 1..Len(h) + Len(t)
      BY <2>2, <1>1, <1>3 DEF h, t
    <3>2. t[i - 1] = s[i - 1 + 1]
      BY <3>1, <1>1 DEF t
    <3> QED
      BY <3>1, <3>2, <1>3, <1>4 DEF h
  <2> QED
    BY <2>1, <2>2
<1>7. h \o t = s
  BY <1>4, <1>5, <1>6, SeqEqual
<1> QED
  BY <1>1, <1>7 DEF h, t

----------------------------------------------------------------------------
(* Nothing is lost, doubled or reordered *)

\* What is held back is all in one of the two places.
LEMMA Held ==
  ASSUME TypeOK, Whole
  PROVE  /\ early = <<>> => received = delivered \o batch
         /\ batch = <<>> => received = delivered \o early
         /\ early = <<>> /\ batch = <<>> => received = delivered
<1>1. delivered \o early \in Seq(Chunk) /\ delivered \o <<>> = delivered
  BY ConcatProperties, ConcatEmptySeq DEF TypeOK
<1>2. (delivered \o early) \o <<>> = delivered \o early
  BY <1>1, ConcatEmptySeq
<1> QED
  BY <1>1, <1>2 DEF Whole

\* Sequences that are put together again are the same as before.
LEMMA Passed ==
  \A d, b \in Seq(Chunk), c \in Chunk :
      /\ Append(d \o b, c) = d \o Append(b, c)
      /\ Append(d \o b, c) = (d \o b) \o <<c>>
      /\ Append(d, c) = d \o <<c>>
      /\ (d \o <<c>>) \o b = d \o (<<c>> \o b)
<1> SUFFICES ASSUME NEW d \in Seq(Chunk), NEW b \in Seq(Chunk), NEW c \in Chunk
             PROVE  /\ Append(d \o b, c) = d \o Append(b, c)
                    /\ Append(d \o b, c) = (d \o b) \o <<c>>
                    /\ Append(d, c) = d \o <<c>>
                    /\ (d \o <<c>>) \o b = d \o (<<c>> \o b)
  OBVIOUS
<1>1. <<c>> \in Seq(Chunk) /\ \A s \in Seq(Chunk) : Append(s, c) = s \o <<c>>
  BY Alone
<1>2. d \o b \in Seq(Chunk) /\ d \o <<c>> \in Seq(Chunk) /\ Append(b, c) \in Seq(Chunk)
  BY <1>1, ConcatProperties, AppendProperties
<1>3. (d \o b) \o <<c>> = d \o (b \o <<c>>) /\ (d \o <<c>>) \o b = d \o (<<c>> \o b)
  <2>1. \A s, t, u \in Seq(Chunk) : (s \o t) \o u = s \o (t \o u)
    BY ConcatAssociative, SMTT(30)
  <2> QED
    BY <1>1, <2>1, Zenon
<1> QED
  BY <1>1, <1>2, <1>3

\* A message that arrives is the last of what was received.
LEMMA Arrives ==
  ASSUME TypeOK, Whole, NEW c \in Chunk, received' = Append(received, c)
  PROVE  /\ received' \in Seq(Chunk)
         /\ batch = <<>> => received' = delivered \o Append(early, c)
         /\ early = <<>> => received' = delivered \o Append(batch, c)
         /\ early = <<>> => received' = (delivered \o batch) \o <<c>>
         /\ early = <<>> /\ batch = <<>> => received' = delivered \o <<c>>
<1>1. /\ received \in Seq(Chunk) /\ delivered \in Seq(Chunk)
      /\ early \in Seq(Chunk) /\ batch \in Seq(Chunk)
  BY DEF TypeOK
<1>2. received' \in Seq(Chunk)
  BY <1>1, AppendProperties
<1>3. Append(delivered \o early, c) = delivered \o Append(early, c)
  BY <1>1, Passed, ZenonT(60)
<1>4. /\ Append(delivered \o batch, c) = delivered \o Append(batch, c)
      /\ Append(delivered \o batch, c) = (delivered \o batch) \o <<c>>
      /\ Append(delivered, c) = delivered \o <<c>>
  <2>1. \A d, b \in Seq(Chunk), m \in Chunk :
          /\ Append(d \o b, m) = d \o Append(b, m)
          /\ Append(d \o b, m) = (d \o b) \o <<m>>
          /\ Append(d, m) = d \o <<m>>
    BY Passed, Zenon
  <2> QED
    BY <1>1, <2>1, Zenon
<1> QED
  BY <1>2, <1>3, <1>4, Held

\* It is enough to know one of the two places, if the other is empty.
LEMMA WholeAgain ==
  ASSUME TypeOK',
         \/ early' = <<>> /\ received' = delivered' \o batch'
         \/ batch' = <<>> /\ received' = delivered' \o early'
  PROVE  received' = delivered' \o early' \o batch'
<1>1. /\ received' \in Seq(Chunk) /\ delivered' \in Seq(Chunk)
      /\ early' \in Seq(Chunk) /\ batch' \in Seq(Chunk)
  BY DEF TypeOK
<1>2. /\ delivered' \o <<>> = delivered'
      /\ (delivered' \o early') \o <<>> = delivered' \o early'
  BY <1>1, ConcatProperties, ConcatEmptySeq
<1> QED
  BY <1>1, <1>2

\* What a step delivers comes after what was delivered before.
Grows == \E x \in Seq(Chunk) : delivered' = delivered \o x

\* No step loses, doubles or reorders a message; what is delivered stays delivered.
LEMMA NextWhole == TypeOK /\ Whole /\ Windows /\ [Next]_vars => TypeOK' /\ Whole' /\ Grows
<1> SUFFICES ASSUME TypeOK, Whole, Windows, [Next]_vars
             PROVE  TypeOK' /\ Whole' /\ Grows
  OBVIOUS
<1>a. /\ received \in Seq(Chunk) /\ delivered \in Seq(Chunk) /\ buffer \in Seq(Chunk)
      /\ early \in Seq(Chunk) /\ batch \in Seq(Chunk) /\ <<>> \in Seq(Chunk)
  BY EmptySeq DEF TypeOK
<1>b. ASSUME UNCHANGED delivered PROVE Grows
  BY <1>a, <1>b, ConcatEmptySeq DEF Grows
<1>c. ASSUME NEW x \in Seq(Chunk), OnData(x)
      PROVE  Grows /\ delivered' \in Seq(Chunk) /\ buffer' \in Seq(Chunk)
  BY <1>a, <1>c, ConcatProperties DEF OnData, Grows
<1>1. CASE \/ SetupFails \/ StartPump \/ TickQuiet \/ TakesCommand \/ CommandDone
           \/ PumpBreaks \/ OnClosed \/ UNCHANGED vars
  <2>1. UNCHANGED <<received, early, batch, outVars>>
    BY <1>1 DEF vars, SetupFails, StartPump, TickQuiet, TakesCommand, CommandDone,
       PumpBreaks, OnClosed
  <2>2. TypeOK'
    BY <1>1, <2>1 DEF TypeOK, Phases, vars, outVars, SetupFails, StartPump, TickQuiet,
       TakesCommand, CommandDone, PumpBreaks, OnClosed
  <2>3. Whole'
    BY <1>1, <2>1 DEF Whole, vars, outVars, SetupFails, StartPump, TickQuiet, TakesCommand,
       CommandDone, PumpBreaks, OnClosed
  <2> QED
    BY <1>b, <2>1, <2>2, <2>3 DEF outVars
<1>2. ASSUME NEW c \in Chunk, StashEarly(c) PROVE TypeOK' /\ Whole' /\ Grows
  <2>1. batch = <<>>
    BY <1>2 DEF StashEarly, Whole
  <2>2. received' \in Seq(Chunk) /\ received' = delivered \o Append(early, c)
    BY <1>2, <2>1, Arrives DEF StashEarly
  <2>3. TypeOK'
    BY <1>2, <2>2, AppendProperties DEF StashEarly, TypeOK, outVars
  <2>4. Whole'
    BY <1>2, <2>1, <2>2, <2>3, WholeAgain DEF StashEarly, Whole, outVars
  <2> QED
    BY <1>2, <1>b, <2>3, <2>4 DEF StashEarly, outVars
<1>3. CASE DeliverEarly
  <2> DEFINE h == Head(early)
             t == Tail(early)
  <2>1. h \in Chunk /\ t \in Seq(Chunk) /\ early = <<h>> \o t /\ <<h>> \in Seq(Chunk)
    BY <1>3, <1>a, HeadFirst, Alone DEF DeliverEarly
  <2>2. batch = <<>>
    BY <1>3 DEF DeliverEarly, Whole
  <2>3. OnData(<<h>>) /\ early' = t /\ UNCHANGED <<windowed, received, batch, window>>
        /\ phase' = "accepted"
    BY <1>3 DEF DeliverEarly
  <2> HIDE DEF h, t
  <2>4. Grows /\ delivered' \in Seq(Chunk) /\ buffer' \in Seq(Chunk)
    BY <1>c, <2>1, <2>3
  <2>5. TypeOK'
    BY <2>1, <2>3, <2>4 DEF TypeOK, Phases
  <2>6. received' = delivered' \o early'
    <3>1. received = delivered \o early
      BY <2>2, Held
    <3>2. delivered \o early = (delivered \o <<h>>) \o t
      <4>1. (delivered \o <<h>>) \o t = delivered \o (<<h>> \o t)
        BY <1>a, <2>1, Passed, ZenonT(60)
      <4> QED
        BY <2>1, <4>1, Zenon
    <3> QED
      BY <2>3, <3>1, <3>2 DEF OnData
  <2>7. Whole'
    BY <2>2, <2>3, <2>5, <2>6, WholeAgain DEF Whole
  <2> QED
    BY <2>4, <2>5, <2>7
<1>4. ASSUME NEW c \in Chunk, PushPasses(c) \/ PushOpensWindow(c)
      PROVE  TypeOK' /\ Whole' /\ Grows
  <2>1. phase = "pumping" /\ early = <<>> /\ <<c>> \in Seq(Chunk)
    BY <1>4, Alone DEF PushPasses, PushOpensWindow, Receive, Whole
  <2>2. batch = <<>>
    BY <1>4, <2>1 DEF PushPasses, PushOpensWindow, Windows, HeldOnlyInWindow
  <2>3. received' \in Seq(Chunk) /\ received' = delivered \o <<c>>
    BY <1>4, <2>1, <2>2, Arrives DEF PushPasses, PushOpensWindow, Receive
  <2>4. Grows /\ delivered' \in Seq(Chunk) /\ buffer' \in Seq(Chunk)
    BY <1>4, <1>c, <2>1 DEF PushPasses, PushOpensWindow
  <2>5. TypeOK'
    BY <1>4, <2>3, <2>4 DEF PushPasses, PushOpensWindow, TypeOK
  <2>6. received' = delivered' /\ early' = <<>> /\ batch' = <<>> /\ phase' = phase
    BY <1>4, <2>1, <2>2, <2>3 DEF PushPasses, PushOpensWindow, OnData
  <2>7. delivered' = delivered' \o batch'
    BY <2>4, <2>6, ConcatEmptySeq
  <2>8. Whole'
    BY <2>5, <2>6, <2>7, WholeAgain DEF Whole
  <2> QED
    BY <2>4, <2>5, <2>8
<1>5. ASSUME NEW c \in Chunk, PushMerges(c) PROVE TypeOK' /\ Whole' /\ Grows
  <2>1. phase = "pumping" /\ early = <<>>
    BY <1>5 DEF PushMerges, Receive, Whole
  <2>2. received' \in Seq(Chunk) /\ received' = delivered \o Append(batch, c)
    BY <1>5, <2>1, Arrives DEF PushMerges, Receive
  <2>3. TypeOK'
    BY <1>5, <2>2, AppendProperties DEF PushMerges, TypeOK, outVars
  <2>4. Whole'
    BY <1>5, <2>1, <2>2, <2>3, WholeAgain DEF PushMerges, Whole, outVars
  <2> QED
    BY <1>5, <1>b, <2>3, <2>4 DEF PushMerges, outVars
<1>6. ASSUME NEW c \in Chunk, PushFlushes(c) PROVE TypeOK' /\ Whole' /\ Grows
  <2>1. phase = "pumping" /\ early = <<>> /\ <<c>> \in Seq(Chunk)
    BY <1>6, Alone DEF PushFlushes, Receive, Whole
  <2>2. received' \in Seq(Chunk) /\ received' = (delivered \o batch) \o <<c>>
    BY <1>6, <2>1, Arrives DEF PushFlushes, Receive
  <2>3. Grows /\ delivered' \in Seq(Chunk) /\ buffer' \in Seq(Chunk)
    BY <1>6, <1>a, <1>c DEF PushFlushes
  <2>4. TypeOK'
    BY <1>6, <2>1, <2>2, <2>3 DEF PushFlushes, TypeOK
  <2>5. Whole'
    BY <1>6, <2>1, <2>2, <2>4, WholeAgain DEF PushFlushes, Whole, OnData
  <2> QED
    BY <2>3, <2>4, <2>5
<1>7. CASE TickFlushes \/ (FinalFlush /\ batch # <<>>)
  <2>1. /\ OnData(batch) /\ batch' = <<>> /\ early = <<>> /\ phase' \in Phases
        /\ UNCHANGED <<windowed, received, early, window>>
    BY <1>7 DEF TickFlushes, FinalFlush, Whole, Phases
  <2>2. Grows /\ delivered' \in Seq(Chunk) /\ buffer' \in Seq(Chunk)
    BY <1>a, <1>c, <2>1
  <2>3. TypeOK'
    BY <1>a, <2>1, <2>2 DEF TypeOK
  <2>4. received' = delivered' /\ delivered' = delivered' \o early'
    BY <2>1, <2>2, Held, ConcatEmptySeq DEF OnData
  <2>5. Whole'
    BY <2>1, <2>3, <2>4, WholeAgain DEF Whole
  <2> QED
    BY <2>2, <2>3, <2>5
<1>8. CASE FinalFlush /\ batch = <<>>
  <2>1. UNCHANGED <<windowed, received, early, batch, window, outVars>> /\ phase' = "closing"
        /\ early = <<>>
    BY <1>8 DEF FinalFlush, Whole
  <2>2. TypeOK' /\ Whole'
    BY <1>8, <2>1 DEF TypeOK, Whole, Phases, outVars
  <2> QED
    BY <2>1, <2>2, <1>b DEF outVars
<1> QED
  BY <1>1, <1>2, <1>3, <1>4, <1>5, <1>6, <1>7, <1>8
  DEF Next, Push

----------------------------------------------------------------------------
(* The shape of what is held back *)

\* A window that closes leaves nothing behind; only a configured one opens.
LEMMA NextWindows == TypeOK /\ Whole /\ Windows /\ [Next]_vars => Windows'
<1> SUFFICES ASSUME TypeOK, Whole, Windows, [Next]_vars PROVE Windows'
  OBVIOUS
<1> USE DEF Windows, HeldOnlyInWindow, Receive, OnData
<1>1. ASSUME NEW c \in Chunk, StashEarly(c) PROVE Windows' BY <1>1 DEF StashEarly
<1>2. ASSUME NEW c \in Chunk, PushPasses(c) PROVE Windows' BY <1>2 DEF PushPasses
<1>3. ASSUME NEW c \in Chunk, PushOpensWindow(c) PROVE Windows' BY <1>3 DEF PushOpensWindow
<1>4. ASSUME NEW c \in Chunk, PushMerges(c) PROVE Windows' BY <1>4 DEF PushMerges
<1>5. ASSUME NEW c \in Chunk, PushFlushes(c) PROVE Windows' BY <1>5 DEF PushFlushes
<1>6. CASE SetupFails BY <1>6 DEF SetupFails
<1>7. CASE DeliverEarly BY <1>7 DEF DeliverEarly
<1>8. CASE StartPump BY <1>8 DEF StartPump, Whole
<1>9. CASE TickFlushes BY <1>9 DEF TickFlushes
<1>10. CASE TickQuiet BY <1>10 DEF TickQuiet
<1>11. CASE TakesCommand BY <1>11 DEF TakesCommand
<1>12. CASE CommandDone BY <1>12 DEF CommandDone
<1>13. CASE PumpBreaks BY <1>13 DEF PumpBreaks
<1>14. CASE FinalFlush BY <1>14 DEF FinalFlush
<1>15. CASE OnClosed BY <1>15 DEF OnClosed
<1>16. CASE UNCHANGED vars BY <1>16 DEF vars
<1> HIDE DEF Windows, HeldOnlyInWindow, Receive, OnData
<1> QED
  BY <1>1, <1>2, <1>3, <1>4, <1>5, <1>6, <1>7, <1>8, <1>9, <1>10, <1>11, <1>12, <1>13,
     <1>14, <1>15, <1>16
  DEF Next, Push

\* One buffer: a single stream and, unless it is one message, a size within the limit.
WellShaped(b) ==
    /\ \A i \in 1..Len(b) : b[i].kind = b[1].kind
    /\ Len(b) > 1 => TotalSize(b) <= MaxCoalesced

\* Both buffers are of that shape.
LEMMA ShapeOfTwo == BufferShape <=> WellShaped(batch) /\ WellShaped(buffer)
BY DEF BufferShape, WellShaped

\* A buffer of no or one message has a good shape.
LEMMA ShortIsWell == WellShaped(<<>>) /\ \A c \in Chunk : WellShaped(<<c>>)
<1>1. Len(<<>>) = 0
  BY EmptySeq
<1>2. \A c \in Chunk : Len(<<c>>) = 1
  BY Alone
<1> QED
  BY <1>1, <1>2 DEF WellShaped

\* What a merge adds is of the stream of the first and fits.
LEMMA MergedIsWell ==
  ASSUME TypeOK, WellShaped(batch), NEW c \in Chunk, ~Unmergeable(c)
  PROVE  WellShaped(Append(batch, c))
<1> DEFINE a == Append(batch, c)
<1>1. /\ batch \in Seq(Chunk) /\ Len(a) = Len(batch) + 1 /\ Len(batch) \in Nat
      /\ a[Len(batch) + 1] = c /\ \A i \in 1..Len(batch) : a[i] = batch[i]
  BY AppendProperties, LenProperties DEF TypeOK
<1>2. TotalSize(a) = TotalSize(batch) + c.size
  BY <1>1, TotalAppend
<1> HIDE DEF a
<1>3. CASE batch = <<>>
  <2>1. Len(batch) = 0
    BY <1>3, EmptySeq
  <2> QED
    BY <1>1, <2>1 DEF WellShaped, a
<1>4. CASE batch # <<>>
  <2>1. Len(batch) # 0
    BY <1>1, <1>4, EmptySeq
  <2>2. batch[1].kind = c.kind /\ ~(TotalSize(batch) + c.size > MaxCoalesced)
    BY <1>4 DEF Unmergeable
  <2>3. TotalSize(a) <= MaxCoalesced
    <3>1. TotalSize(batch) \in Nat /\ c.size \in Nat
      BY <1>1, TotalNat
    <3> QED
      BY <1>2, <2>2, <3>1, LimitsAssumption
  <2>4. ASSUME NEW i \in 1..Len(a) PROVE a[i].kind = a[1].kind
    <3>1. 1 \in 1..Len(batch) /\ a[1] = batch[1]
      BY <1>1, <2>1
    <3>2. CASE i \in 1..Len(batch)
      BY <1>1, <3>1, <3>2 DEF WellShaped
    <3>3. CASE i = Len(batch) + 1
      BY <1>1, <2>2, <3>1, <3>3
    <3> QED
      BY <1>1, <3>2, <3>3
  <2> QED
    BY <2>3, <2>4 DEF WellShaped, a
<1> QED
  BY <1>3, <1>4

\* A buffer is replaced by another, or by what came alone, or by a merge.
LEMMA NextShape == TypeOK /\ BufferShape /\ [Next]_vars => BufferShape'
<1> SUFFICES ASSUME TypeOK, WellShaped(batch), WellShaped(buffer), [Next]_vars
             PROVE  WellShaped(batch') /\ WellShaped(buffer')
  BY DEF BufferShape, WellShaped
<1>1. CASE UNCHANGED <<batch, buffer>>
  BY <1>1
<1>2. CASE DeliverEarly
  <2>1. Head(early) \in Chunk
    BY <1>2, HeadFirst DEF DeliverEarly, TypeOK
  <2> QED
    BY <1>2, <2>1, ShortIsWell DEF DeliverEarly, OnData
<1>3. ASSUME NEW c \in Chunk, PushPasses(c) \/ PushOpensWindow(c)
      PROVE  WellShaped(batch') /\ WellShaped(buffer')
  BY <1>3, ShortIsWell DEF PushPasses, PushOpensWindow, OnData
<1>4. ASSUME NEW c \in Chunk, PushMerges(c) PROVE WellShaped(batch') /\ WellShaped(buffer')
  BY <1>4, MergedIsWell DEF PushMerges, outVars
<1>5. ASSUME NEW c \in Chunk, PushFlushes(c) PROVE WellShaped(batch') /\ WellShaped(buffer')
  BY <1>5, ShortIsWell DEF PushFlushes, OnData
<1>6. CASE TickFlushes \/ FinalFlush
  BY <1>6, ShortIsWell DEF TickFlushes, FinalFlush, OnData, outVars
<1> QED
  BY <1>1, <1>2, <1>3, <1>4, <1>5, <1>6
  DEF Next, Push, vars, outVars, StashEarly, SetupFails, StartPump, TickQuiet,
      TakesCommand, CommandDone, PumpBreaks, OnClosed

----------------------------------------------------------------------------
(* The theorems *)

\* The initial state satisfies the invariant.
LEMMA InitIInv == Init => IInv
<1> SUFFICES ASSUME Init PROVE IInv
  OBVIOUS
<1>1. <<>> \in Seq(Chunk) /\ <<>> \o <<>> = <<>> /\ Len(<<>>) = 0
  BY EmptySeq, ConcatEmptySeq
<1>2. TypeOK /\ Whole /\ Windows
  BY <1>1 DEF Init, TypeOK, Phases, Whole, Windows, HeldOnlyInWindow
<1>3. BufferShape
  BY ShortIsWell, ShapeOfTwo DEF Init
<1> QED
  BY <1>2, <1>3 DEF IInv, Inv, Windows

\* The invariant behind the theorems below holds in every run.
THEOREM Invariance == Spec => []IInv
<1>1. IInv /\ [Next]_vars => IInv'
  BY NextWhole, NextWindows, NextShape DEF IInv, Inv, Windows
<1> QED
  BY InitIInv, <1>1, PTL DEF Spec

\* What the Coalescer relies on between two calls of it, whatever commands the pump
\* carries out in between: every variable has its type, a chunk is held back only while a
\* deadline is pending that will flush it, and a merged buffer has one stream and a size
\* within the limit.
THEOREM CoalescerSound == Spec => []Inv
<1>1. IInv => Inv
  BY DEF IInv
<1> QED
  BY Invariance, <1>1, PTL

----------------------------------------------------------------------------
(* ShellOutput implements OutputStream *)

\* The initial states of the shell are those of the promise.
LEMMA InitMaps == Init => Stream!Init
BY DEF Init, Stream!Init

\* What was delivered is a prefix of what was received, and only grows: the bounds of
\* OutputStream's choice of how much to deliver.
LEMMA Delivers ==
  ASSUME TypeOK, TypeOK', Whole', Grows
  PROVE  /\ Len(delivered') \in Len(delivered)..Len(received')
         /\ delivered' = SubSeq(received', 1, Len(delivered'))
<1>1. /\ received' \in Seq(Chunk) /\ delivered' \in Seq(Chunk) /\ delivered \in Seq(Chunk)
      /\ early' \in Seq(Chunk) /\ batch' \in Seq(Chunk)
  BY DEF TypeOK
<1>2. PICK t \in Seq(Chunk) : received' = delivered' \o t
  <2>1. received' = (delivered' \o early') \o batch'
    BY DEF Whole
  <2>2. (delivered' \o early') \o batch' = delivered' \o (early' \o batch')
    <3>1. \A s, t, u \in Seq(Chunk) : (s \o t) \o u = s \o (t \o u)
      BY ConcatAssociative
    <3> QED
      BY <1>1, <3>1, SMTT(30)
  <2>3. early' \o batch' \in Seq(Chunk)
    BY <1>1, ConcatProperties
  <2> QED
    BY <2>1, <2>2, <2>3
<1>3. PICK x \in Seq(Chunk) : delivered' = delivered \o x
  BY DEF Grows
<1>4. Len(delivered) \in Nat /\ Len(delivered) <= Len(delivered')
  BY <1>1, <1>3, Prefix
<1>5. Len(delivered') \in Nat /\ Len(delivered') <= Len(received') /\ Len(received') \in Nat
  BY <1>1, <1>2, Prefix, LenProperties
<1>6. delivered' = SubSeq(received', 1, Len(delivered'))
  BY <1>1, <1>2, Prefix
<1> QED
  BY <1>4, <1>5, <1>6

\* Every step is one the promise allows: a chunk arrives, something is delivered, or
\* the shell closes with nothing held back.
LEMMA NextMaps == IInv /\ [Next]_vars => [Stream!Next]_(Stream!vars)
<1> SUFFICES ASSUME IInv, [Next]_vars PROVE [Stream!Next]_(Stream!vars)
  OBVIOUS
<1>1. TypeOK /\ TypeOK' /\ Whole /\ Whole' /\ Windows /\ Grows
  BY NextWhole DEF IInv, Inv
<1>2. /\ Len(delivered') \in Len(delivered)..Len(received')
      /\ delivered' = SubSeq(received', 1, Len(delivered'))
  BY <1>1, Delivers
<1>3. ASSUME NEW c \in Chunk, StashEarly(c) \/ Push(c) PROVE Stream!Arrive
  <2>1. received' = Append(received, c) /\ phase # "closed" /\ phase' = phase
    BY <1>3 DEF StashEarly, Push, PushPasses, PushOpensWindow, PushMerges, PushFlushes, Receive
  <2> QED
    BY <1>2, <2>1 DEF Stream!Arrive
<1>4. CASE \/ SetupFails \/ DeliverEarly \/ StartPump \/ TickFlushes \/ TickQuiet
           \/ TakesCommand \/ CommandDone \/ PumpBreaks \/ FinalFlush
  <2>1. received' = received /\ phase # "closed" /\ phase' # "closed"
    BY <1>4 DEF SetupFails, DeliverEarly, StartPump, TickFlushes, TickQuiet,
       TakesCommand, CommandDone, PumpBreaks, FinalFlush
  <2> QED
    BY <1>2, <2>1 DEF Stream!Next, Stream!Deliver
<1>5. CASE OnClosed
  <2>1. early = <<>> /\ batch = <<>>
    BY <1>1, <1>5 DEF OnClosed, Whole
  <2>2. received = delivered
    BY <1>1, <2>1, Held
  <2> QED
    BY <1>5, <2>2 DEF OnClosed, outVars, Stream!Next, Stream!Close
<1>6. CASE UNCHANGED vars
  BY <1>6 DEF vars, outVars, Stream!vars
<1> QED
  BY <1>3, <1>4, <1>5, <1>6 DEF Next, Stream!Next

\* The output of a shell keeps the promise of OutputStream: for any sizes and limits, no
\* chunk of either stream is lost, doubled or reordered, and on_closed comes last, when
\* nothing is held back.
THEOREM Implements == Spec => StreamKept
<1>1. Spec => Stream!Spec
  BY Invariance, InitMaps, NextMaps, PTL DEF Spec, Stream!Spec
<1> QED
  BY <1>1 DEF StreamKept
=============================================================================
