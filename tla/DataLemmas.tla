----------------------------- MODULE DataLemmas -----------------------------
(***************************************************************************)
(* Facts about the data the models compute with: induction over the        *)
(* natural numbers, from the end of an interval and over finite sets,      *)
(* stated for a set rather than for a predicate; functions defined from    *)
(* the end; folds over finite sets, which exist and are unique, and over   *)
(* sequences; and sums, for which the order of the elements is of no       *)
(* account.                                                                *)
(***************************************************************************)
EXTENDS SequencesExt, FiniteSetTheorems, SequenceTheorems, TLAPS

\* Every non-empty set of natural numbers has a least element.
LEMMA LeastElement ==
  ASSUME NEW T \in SUBSET Nat, T # {}
  PROVE  \E m \in T : \A n \in T : m <= n
<1> DEFINE Less == {p \in Nat \X Nat : p[1] < p[2]}
<1>1. IsWellFoundedOn(Less, Nat)
  BY NatLessThanWellFounded DEF OpToRel
<1>2. \A x, y \in Nat : <<y, x>> \in Less <=> y < x
  OBVIOUS
<1> HIDE DEF Less
<1>3. \E x \in T : \A y \in T : <<y, x>> \notin Less
  BY <1>1, WFMin
<1>4. PICK m \in T : \A n \in T : <<n, m>> \notin Less
  BY <1>3
<1>5. ASSUME NEW n \in T PROVE m <= n
  <2>1. m \in Nat /\ n \in Nat /\ <<n, m>> \notin Less
    BY <1>4
  <2>2. ~(n < m)
    BY <1>2, <2>1
  <2> QED
    BY <2>1, <2>2
<1> QED
  BY <1>5

\* Induction over the natural numbers, for a set instead of a predicate.
LEMMA SetInduction ==
  ASSUME NEW S, 0 \in S, \A n \in Nat : n \in S => n + 1 \in S
  PROVE  Nat \subseteq S
<1> SUFFICES ASSUME Nat \ S # {} PROVE FALSE
  OBVIOUS
<1>1. PICK m \in Nat \ S : \A n \in Nat \ S : m <= n
  BY LeastElement, Nat \ S \in SUBSET Nat
<1>2. m # 0 /\ m - 1 \in Nat /\ (m - 1) + 1 = m
  BY <1>1
<1>3. m - 1 \in S
  BY <1>1, <1>2
<1> QED
  BY <1>1, <1>2, <1>3

\* What has more than no elements is not empty.
LEMMA EmptyHasNone == \A S : \A n \in Nat : Cardinality(S) = n + 1 => S # {}
<1> SUFFICES ASSUME NEW n \in Nat, Cardinality({}) = n + 1 PROVE FALSE
  OBVIOUS
<1>1. Cardinality({}) = 0
  BY FS_EmptySet
<1> QED
  BY <1>1

\* Induction over the subsets of a finite set, for a set instead of a predicate.
LEMMA FiniteInduction ==
  ASSUME NEW U, IsFiniteSet(U), NEW S, {} \in S,
         \A T \in SUBSET U, x \in U : T \in S /\ x \notin T => T \union {x} \in S
  PROVE  U \in S
<1> DEFINE N == {n \in Nat : \A T \in SUBSET U : Cardinality(T) = n => T \in S}
<1>1. \A T \in SUBSET U : IsFiniteSet(T) /\ Cardinality(T) \in Nat
  BY FS_Subset, FS_CardinalityType
<1>2. 0 \in N
  BY <1>1, FS_EmptySet
<1>3. ASSUME NEW n \in Nat, n \in N PROVE n + 1 \in N
  <2> SUFFICES ASSUME NEW T \in SUBSET U, Cardinality(T) = n + 1 PROVE T \in S
    OBVIOUS
  <2>1. PICK x : x \in T
    <3>1. T # {}
      BY EmptyHasNone
    <3> QED
      BY <3>1
  <2>2. Cardinality(T \ {x}) = n
    <3>1. Cardinality(T \ {x}) = Cardinality(T) - 1
      BY <1>1, <2>1, FS_RemoveElement
    <3> QED
      BY <3>1
  <2>3. T \ {x} \in S
    BY <1>3, <2>2
  <2> QED
    BY <1>1, <2>1, <2>3, (T \ {x}) \union {x} = T
<1> HIDE DEF N
<1>4. Nat \subseteq N
  BY <1>2, <1>3, SetInduction
<1> QED
  BY <1>1, <1>4 DEF N

---------------------------------------------------------------------------
(* From the end *)

\* Induction from the end of 1..n+1, for a set instead of a predicate.
LEMMA DownInduction ==
  ASSUME NEW n \in Nat, NEW S, n + 1 \in S,
         \A i \in 1..n : (\A k \in (i + 1)..(n + 1) : k \in S) => i \in S
  PROVE  \A i \in 1..(n + 1) : i \in S
<1> DEFINE Good == {m \in Nat : m <= n => \A k \in (n + 1 - m)..(n + 1) : k \in S}
<1>1. 0 \in Good
  OBVIOUS
<1>2. ASSUME NEW m \in Nat, m \in Good PROVE m + 1 \in Good
  <2> SUFFICES ASSUME m + 1 <= n PROVE \A k \in (n - m)..(n + 1) : k \in S
    OBVIOUS
  <2>1. \A k \in (n + 1 - m)..(n + 1) : k \in S
    BY <1>2
  <2>2. n - m \in 1..n /\ (n - m) + 1 = n + 1 - m
    OBVIOUS
  <2>3. n - m \in S
    BY <2>1, <2>2
  <2>4. \A k \in (n - m)..(n + 1) : k = n - m \/ k \in (n + 1 - m)..(n + 1)
    OBVIOUS
  <2> QED
    BY <2>1, <2>3, <2>4
<1> HIDE DEF Good
<1>3. Nat \subseteq Good
  BY <1>1, <1>2, SetInduction
<1>4. \A k \in (n + 1 - n)..(n + 1) : k \in S
  BY <1>3 DEF Good
<1> QED
  BY <1>4

\* What a function has behind a position.
Behind(f, i, n) == [k \in (i + 1)..(n + 1) |-> f[k]]

\* step gives a value for each position, from what is behind it.
StepsDown(step, n, V) ==
    \A i \in 1..n : \A g \in [(i + 1)..(n + 1) -> V] : step[i][g] \in V

\* f has last at the end, and at each position what step makes of what is behind it.
IsFromEnd(f, n, last, step) ==
    /\ f[n + 1] = last
    /\ \A i \in 1..n : f[i] = step[i][Behind(f, i, n)]

\* A function on 1..n+1 may be defined from the end.
LEMMA DownRecursion ==
  ASSUME NEW n \in Nat, NEW V, NEW last \in V, NEW step, StepsDown(step, n, V)
  PROVE  \E f \in [1..(n + 1) -> V] : IsFromEnd(f, n, last, step)
<1> DEFINE Built(f, m) ==
             /\ f \in [(n + 1 - m)..(n + 1) -> V]
             /\ f[n + 1] = last
             /\ \A i \in (n + 1 - m)..n : f[i] = step[i][Behind(f, i, n)]
           Good == {m \in Nat : m <= n => \E f : Built(f, m)}
<1>0. \A i \in 1..n : \A g \in [(i + 1)..(n + 1) -> V] : step[i][g] \in V
  BY DEF StepsDown
<1>1. 0 \in Good
  <2>1. Built([k \in (n + 1 - 0)..(n + 1) |-> last], 0)
    OBVIOUS
  <2> HIDE DEF Built
  <2> QED
    BY <2>1
<1>2. ASSUME NEW m \in Nat, m \in Good PROVE m + 1 \in Good
  <2> SUFFICES ASSUME m + 1 <= n PROVE \E f : Built(f, m + 1)
    OBVIOUS
  <2>1. PICK f : Built(f, m)
    BY <1>2
  <2> DEFINE a == n - m
             g == [k \in a..(n + 1) |-> IF k = a THEN step[a][f] ELSE f[k]]
  <2>2. /\ a \in 1..n /\ a + 1 = n + 1 - m /\ n + 1 - (m + 1) = a
        /\ f \in [(a + 1)..(n + 1) -> V]
    BY <2>1
  <2>3. step[a][f] \in V
    BY <1>0, <2>2
  <2>4. g \in [a..(n + 1) -> V] /\ g[n + 1] = last
    BY <2>1, <2>2, <2>3
  <2>5. \A k \in (a + 1)..(n + 1) : g[k] = f[k]
    BY <2>2
  <2>6. Behind(g, a, n) = f /\ g[a] = step[a][f]
    BY <2>2, <2>5 DEF Behind
  <2>7. ASSUME NEW i \in (a + 1)..n PROVE g[i] = step[i][Behind(g, i, n)]
    <3>1. \A k \in (i + 1)..(n + 1) : g[k] = f[k]
      BY <2>2, <2>5
    <3>2. Behind(g, i, n) = Behind(f, i, n)
      <4> HIDE DEF g
      <4> QED
        BY <3>1 DEF Behind
    <3>3. i \in (n + 1 - m)..n /\ i \in (a + 1)..(n + 1)
      BY <2>2
    <3> QED
      BY <2>1, <2>5, <3>2, <3>3
  <2>8. \A i \in a..n : i = a \/ i \in (a + 1)..n
    BY <2>2
  <2>9. Built(g, m + 1)
    <3> HIDE DEF g, a
    <3> QED
      BY <2>2, <2>4, <2>6, <2>7, <2>8
  <2> QED
    BY <2>9
<1>3. n \in Good
  <2> HIDE DEF Good
  <2> QED
    BY <1>1, <1>2, SetInduction
<1>4. PICK f : Built(f, n)
  <2> HIDE DEF Built
  <2> QED
    BY <1>3
<1>5. n + 1 - n = 1
  OBVIOUS
<1> QED
  BY <1>4, <1>5 DEF IsFromEnd

----------------------------------------------------------------------------
(* Folds over finite sets *)

\* g is the fold of step over the subsets of U, which takes the elements of a set
\* in the order pick chooses them.
IsFold(g, U, pick, base, step) ==
  g = [s \in SUBSET U |-> IF s = {} THEN base
                          ELSE step[<<pick[s], g[s \ {pick[s]}]>>]]

\* Two folds of the same step are the same.
LEMMA FoldUnique ==
  ASSUME NEW U, IsFiniteSet(U), NEW pick, NEW base, NEW step,
         \A s \in SUBSET U : s # {} => pick[s] \in s,
         NEW g, IsFold(g, U, pick, base, step),
         NEW h, IsFold(h, U, pick, base, step)
  PROVE  g = h
<1> DEFINE Same == {n \in Nat : \A s \in SUBSET U : Cardinality(s) = n => g[s] = h[s]}
<1>1. \A T \in SUBSET U : IsFiniteSet(T) /\ Cardinality(T) \in Nat
  BY FS_Subset, FS_CardinalityType
<1>2. 0 \in Same
  BY <1>1, FS_EmptySet DEF IsFold
<1>3. ASSUME NEW n \in Nat, n \in Same PROVE n + 1 \in Same
  <2> SUFFICES ASSUME NEW s \in SUBSET U, Cardinality(s) = n + 1 PROVE g[s] = h[s]
    OBVIOUS
  <2>1. s # {}
    BY EmptyHasNone
  <2>2. pick[s] \in s
    BY <2>1
  <2>3. Cardinality(s \ {pick[s]}) = Cardinality(s) - 1
    BY <1>1, <2>2, FS_RemoveElement
  <2>4. g[s \ {pick[s]}] = h[s \ {pick[s]}]
    BY <1>3, <2>3
  <2>5. /\ g[s] = step[<<pick[s], g[s \ {pick[s]}]>>]
        /\ h[s] = step[<<pick[s], h[s \ {pick[s]}]>>]
    BY <2>1 DEF IsFold
  <2> QED
    BY <2>4, <2>5
<1> HIDE DEF Same
<1>4. Nat \subseteq Same
  BY <1>2, <1>3, SetInduction
<1>5. \A s \in SUBSET U : g[s] = h[s]
  BY <1>1, <1>4 DEF Same
<1>6. g = [s \in SUBSET U |-> g[s]] /\ h = [s \in SUBSET U |-> h[s]]
  BY Zenon DEF IsFold
<1> QED
  BY <1>5, <1>6, Zenon

\* A step that maps elements and values to values has a fold, whose values they are.
LEMMA FoldExists ==
  ASSUME NEW U, IsFiniteSet(U), NEW pick, NEW V, NEW base \in V, NEW step \in [U \X V -> V],
         \A s \in SUBSET U : s # {} => pick[s] \in s
  PROVE  \E g \in [SUBSET U -> V] : IsFold(g, U, pick, base, step)
<1> DEFINE Up(n) == {s \in SUBSET U : Cardinality(s) <= n}
           Next(g, s) == IF s = {} THEN base ELSE step[<<pick[s], g[s \ {pick[s]}]>>]
           Good(g, n) == \A s \in Up(n) : g[s] = Next(g, s)
           Built == {n \in Nat : \E g \in [Up(n) -> V] : Good(g, n)}
<1>1. \A T \in SUBSET U : IsFiniteSet(T) /\ Cardinality(T) \in Nat
  BY FS_Subset, FS_CardinalityType
<1>2. 0 \in Built
  <2>1. \A s \in Up(0) : s = {}
    BY <1>1, FS_EmptySet
  <2>2. [s \in Up(0) |-> base] \in [Up(0) -> V]
    OBVIOUS
  <2> QED
    BY <2>1, <2>2
<1>3. ASSUME NEW n \in Nat, n \in Built PROVE n + 1 \in Built
  <2>1. PICK g \in [Up(n) -> V] : Good(g, n)
    BY <1>3
  <2> DEFINE h == [s \in Up(n + 1) |-> IF s \in Up(n) THEN g[s] ELSE Next(g, s)]
  <2>2. ASSUME NEW s \in Up(n + 1), s # {}
        PROVE  pick[s] \in U /\ s \ {pick[s]} \in Up(n)
    <3>1. pick[s] \in s
      BY <2>2
    <3>2. Cardinality(s \ {pick[s]}) = Cardinality(s) - 1
      BY <1>1, <3>1, FS_RemoveElement
    <3>3. Cardinality(s) \in Nat /\ Cardinality(s) <= n + 1
      BY <1>1
    <3> QED
      BY <3>1, <3>2, <3>3
  <2>3. \A s \in Up(n + 1) : Next(g, s) \in V
    <3> SUFFICES ASSUME NEW s \in Up(n + 1), s # {}
                 PROVE  step[<<pick[s], g[s \ {pick[s]}]>>] \in V
      OBVIOUS
    <3>1. pick[s] \in U /\ g[s \ {pick[s]}] \in V
      BY <2>2
    <3> QED
      BY <3>1
  <2>4. \A s \in Up(n) : s \in Up(n + 1)
    BY <1>1
  <2>5. h \in [Up(n + 1) -> V]
    BY <2>3
  <2>6. \A s \in Up(n) : h[s] = g[s]
    BY <2>4
  <2>7. ASSUME NEW s \in Up(n + 1) PROVE Next(h, s) = Next(g, s)
    <3>1. s # {} => h[s \ {pick[s]}] = g[s \ {pick[s]}]
      BY <2>2, <2>6
    <3> HIDE DEF h
    <3> QED
      BY <3>1
  <2>8. ASSUME NEW s \in Up(n + 1) PROVE h[s] = Next(g, s)
    BY <2>1
  <2>9. Good(h, n + 1)
    <3> HIDE DEF h, Next
    <3> QED
      BY <2>7, <2>8
  <2> QED
    <3> HIDE DEF h, Good, Up
    <3> QED
      BY <2>5, <2>9
<1> HIDE DEF Built
<1>4. Nat \subseteq Built
  BY <1>2, <1>3, SetInduction
<1>5. Up(Cardinality(U)) = SUBSET U
  BY FS_Subset, FS_CardinalityType
<1>6. PICK g \in [SUBSET U -> V] : Good(g, Cardinality(U))
  <2>1. Cardinality(U) \in Nat
    BY <1>1
  <2> HIDE DEF Up, Good
  <2> QED
    BY <2>1, <1>4, <1>5 DEF Built
<1>7. g = [s \in SUBSET U |-> Next(g, s)]
  BY <1>5, <1>6
<1>8. IsFold(g, U, pick, base, step)
  BY <1>7 DEF IsFold
<1> QED
  BY <1>8

----------------------------------------------------------------------------
(* Folds over sequences, from the left *)

\* A non-empty set of positions has a last one.
LEMMA LastElement ==
  ASSUME NEW n \in Nat, NEW T \in SUBSET (1..n), T # {}
  PROVE  Max(T) \in T /\ \A i \in T : i <= Max(T)
<1> DEFINE D == {n - i : i \in T}
<1>1. D \in SUBSET Nat /\ D # {}
  <2>1. \A i \in T : i \in 1..n /\ n - i \in Nat
    OBVIOUS
  <2> QED
    BY <2>1, Zenon DEF D
<1>2. PICK m \in D : \A d \in D : m <= d
  BY <1>1, LeastElement
<1>3. PICK t \in T : m = n - t
  BY <1>2
<1>4. ASSUME NEW i \in T PROVE t >= i
  <2>1. m <= n - i
    BY <1>2, Zenon
  <2>2. i \in 1..n /\ t \in 1..n
    BY Zenon
  <2> QED
    BY <1>3, <2>1, <2>2
<1>5. Max(T) \in T /\ \A i \in T : Max(T) >= i
  BY <1>3, <1>4, Zenon DEF Max
<1>6. \A i \in T : i \in Int
  <2>1. \A i \in 1..n : i \in Int
    OBVIOUS
  <2> QED
    BY <2>1, Zenon
<1> QED
  BY <1>5, <1>6

\* The last of the first k positions is k, which leaves the first k - 1.
LEMMA FirstPositions ==
  /\ 1..0 = {}
  /\ \A k \in Nat \ {0} : 1..k # {} /\ Max(1..k) = k /\ (1..k) \ {k} = 1..(k - 1)
<1>1. ASSUME NEW k \in Nat \ {0} PROVE Max(1..k) = k
  <2>1. 1..k \in SUBSET (1..k) /\ k \in 1..k
    OBVIOUS
  <2>2. Max(1..k) \in 1..k /\ \A i \in 1..k : i <= Max(1..k)
    BY <2>1, LastElement
  <2> QED
    BY <2>1, <2>2
<1>2. \A k \in Nat \ {0} : 1..k # {} /\ (1..k) \ {k} = 1..(k - 1)
  OBVIOUS
<1>3. 1..0 = {}
  OBVIOUS
<1> QED
  BY <1>1, <1>2, <1>3, Zenon

\* it folds step over s from the left, as the community module does: the last of a set
\* of positions is taken after the others.
IsLeftFold(it, s, base, step) ==
  it = [S \in SUBSET DOMAIN s |->
          IF S = {} THEN base ELSE step[<<it[S \ {Max(S)}], s[Max(S)]>>]]

\* The fold of a sequence from the left exists, for every step that stays in V.
LEMMA LeftFoldExists ==
  ASSUME NEW A, NEW s \in Seq(A), NEW V, NEW base \in V, NEW step \in [V \X A -> V]
  PROVE  \E it \in [SUBSET DOMAIN s -> V] : IsLeftFold(it, s, base, step)
<1> DEFINE U == DOMAIN s
           pick == [S \in SUBSET U |-> Max(S)]
           taken == [p \in U \X V |-> step[<<p[2], s[p[1]]>>]]
<1>1. U = 1..Len(s) /\ Len(s) \in Nat /\ \A i \in U : s[i] \in A
  BY LenProperties
<1>2. IsFiniteSet(U)
  BY <1>1, FS_Interval
<1>3. \A S \in SUBSET U : pick[S] = Max(S) /\ (S # {} => Max(S) \in S)
  BY <1>1, LastElement
<1>4. taken \in [U \X V -> V]
  BY <1>1
<1>5. \A i \in U, v \in V : taken[<<i, v>>] = step[<<v, s[i]>>]
  OBVIOUS
<1> HIDE DEF U, pick, taken
<1>6. PICK it \in [SUBSET U -> V] : IsFold(it, U, pick, base, taken)
  <2>1. \A S \in SUBSET U : S # {} => pick[S] \in S
    BY <1>3
  <2> QED
    BY <1>2, <1>4, <2>1, FoldExists
<1>7. ASSUME NEW S \in SUBSET U, S # {}
      PROVE  taken[<<pick[S], it[S \ {pick[S]}]>>] = step[<<it[S \ {Max(S)}], s[Max(S)]>>]
  BY <1>3, <1>5, <1>6, <1>7
<1>8. it = [S \in SUBSET U |->
              IF S = {} THEN base ELSE step[<<it[S \ {Max(S)}], s[Max(S)]>>]]
  BY <1>6, <1>7 DEF IsFold
<1> QED
  BY <1>6, <1>8 DEF U, IsLeftFold

----------------------------------------------------------------------------
(* Sums over finite sets *)

\* The element the community modules' folds take first.
Chosen(s) == CHOOSE x \in s : TRUE

\* g adds up f over each subset of U.
IsSum(g, U, f) ==
  g = [s \in SUBSET U |-> IF s = {} THEN 0 ELSE f[Chosen(s)] + g[s \ {Chosen(s)}]]

\* The chosen element of a non-empty set is one of its elements.
LEMMA ChosenIsOne == \A s : s # {} => Chosen(s) \in s
BY DEF Chosen

\* A sum of natural numbers exists, and is one.
LEMMA SumExists ==
  ASSUME NEW U, IsFiniteSet(U), NEW f, \A x \in U : f[x] \in Nat
  PROVE  \E g \in [SUBSET U -> Nat] : IsSum(g, U, f)
<1> DEFINE pick == [s \in SUBSET U |-> Chosen(s)]
           step == [p \in U \X Nat |-> f[p[1]] + p[2]]
<1>1. \A s \in SUBSET U : pick[s] = Chosen(s) /\ (s # {} => Chosen(s) \in s)
  BY ChosenIsOne
<1>2. step \in [U \X Nat -> Nat]
  OBVIOUS
<1>3. \A x \in U, n \in Nat : step[<<x, n>>] = f[x] + n
  OBVIOUS
<1> HIDE DEF pick, step
<1>4. PICK g \in [SUBSET U -> Nat] : IsFold(g, U, pick, 0, step)
  <2>1. \A s \in SUBSET U : s # {} => pick[s] \in s
    BY <1>1
  <2>2. 0 \in Nat
    OBVIOUS
  <2> QED
    BY <1>2, <2>1, <2>2, FoldExists
<1>5. ASSUME NEW s \in SUBSET U, s # {}
      PROVE  step[<<pick[s], g[s \ {pick[s]}]>>] = f[Chosen(s)] + g[s \ {Chosen(s)}]
  BY <1>1, <1>3, <1>5
<1>6. IsSum(g, U, f)
  BY <1>4, <1>5 DEF IsFold, IsSum
<1> QED
  BY <1>6

\* Two sums of functions that agree on a set agree on its subsets.
LEMMA SumsAgree ==
  ASSUME NEW U, IsFiniteSet(U), NEW W \in SUBSET U, NEW f, NEW e,
         \A x \in W : f[x] = e[x],
         NEW g, IsSum(g, U, f), NEW h, IsSum(h, W, e)
  PROVE  \A s \in SUBSET W : g[s] = h[s]
<1> DEFINE Same == {n \in Nat : \A s \in SUBSET W : Cardinality(s) = n => g[s] = h[s]}
<1>1. \A T \in SUBSET W : T \in SUBSET U /\ IsFiniteSet(T) /\ Cardinality(T) \in Nat
  BY FS_Subset, FS_CardinalityType
<1>2. 0 \in Same
  BY <1>1, FS_EmptySet DEF IsSum
<1>3. ASSUME NEW n \in Nat, n \in Same PROVE n + 1 \in Same
  <2> SUFFICES ASSUME NEW s \in SUBSET W, Cardinality(s) = n + 1 PROVE g[s] = h[s]
    OBVIOUS
  <2>1. s # {}
    BY EmptyHasNone
  <2>2. Chosen(s) \in s
    BY <2>1, ChosenIsOne
  <2>3. Cardinality(s \ {Chosen(s)}) = n
    <3>1. Cardinality(s \ {Chosen(s)}) = Cardinality(s) - 1
      BY <1>1, <2>2, FS_RemoveElement
    <3> QED
      BY <3>1
  <2>4. g[s \ {Chosen(s)}] = h[s \ {Chosen(s)}] /\ f[Chosen(s)] = e[Chosen(s)]
    BY <1>3, <2>2, <2>3
  <2>5. g[s] = f[Chosen(s)] + g[s \ {Chosen(s)}]
    BY <1>1, <2>1 DEF IsSum
  <2>6. h[s] = e[Chosen(s)] + h[s \ {Chosen(s)}]
    BY <2>1 DEF IsSum
  <2> QED
    BY <2>4, <2>5, <2>6
<1> HIDE DEF Same
<1>4. Nat \subseteq Same
  BY <1>2, <1>3, SetInduction
<1> QED
  BY <1>1, <1>4 DEF Same

\* The order of the elements is of no account: any of them can be added last.
LEMMA SumTakesAny ==
  ASSUME NEW U, IsFiniteSet(U), NEW f, \A x \in U : f[x] \in Nat,
         NEW g \in [SUBSET U -> Nat], IsSum(g, U, f)
  PROVE  \A s \in SUBSET U, x \in U : x \in s => g[s] = f[x] + g[s \ {x}]
<1> DEFINE Good(s) == \A x \in s : g[s] = f[x] + g[s \ {x}]
           Known == {n \in Nat : \A s \in SUBSET U : Cardinality(s) = n => Good(s)}
<1>1. \A T \in SUBSET U : IsFiniteSet(T) /\ Cardinality(T) \in Nat
  BY FS_Subset, FS_CardinalityType
<1>2. 0 \in Known
  BY <1>1, FS_EmptySet
<1>3. ASSUME NEW n \in Nat, n \in Known PROVE n + 1 \in Known
  <2> SUFFICES ASSUME NEW s \in SUBSET U, Cardinality(s) = n + 1, NEW x \in s
               PROVE  g[s] = f[x] + g[s \ {x}]
    OBVIOUS
  <2> DEFINE p == Chosen(s)
  <2>1. p \in s
    BY ChosenIsOne
  <2> HIDE DEF p
  <2>2. g[s] = f[p] + g[s \ {p}]
    BY DEF IsSum, p
  <2>3. CASE x = p
    BY <2>2, <2>3
  <2>4. CASE x # p
    <3>1. \A y \in s : Cardinality(s \ {y}) = n
      <4> SUFFICES ASSUME NEW y \in s PROVE Cardinality(s \ {y}) = n
        OBVIOUS
      <4>1. Cardinality(s \ {y}) = Cardinality(s) - 1
        BY <1>1, FS_RemoveElement
      <4> QED
        BY <4>1
    <3>2. Good(s \ {p}) /\ Good(s \ {x})
      BY <1>3, <2>1, <3>1
    <3>3. g[s \ {p}] = f[x] + g[(s \ {p}) \ {x}]
      BY <2>4, <3>2
    <3>4. g[s \ {x}] = f[p] + g[(s \ {x}) \ {p}]
      BY <2>1, <2>4, <3>2
    <3> DEFINE rest == g[(s \ {x}) \ {p}]
    <3>5. f[p] \in Nat /\ f[x] \in Nat /\ rest \in Nat
      BY <2>1
    <3>6. g[s \ {p}] = f[x] + rest /\ g[s \ {x}] = f[p] + rest
      BY <3>3, <3>4, (s \ {p}) \ {x} = (s \ {x}) \ {p}
    <3>7. g[s] = f[p] + (f[x] + rest)
      BY <2>2, <3>6
    <3>8. f[p] + (f[x] + rest) = f[x] + (f[p] + rest)
      <4> HIDE DEF rest
      <4> QED
        BY <3>5
    <3> QED
      BY <3>6, <3>7, <3>8
  <2> QED
    BY <2>3, <2>4
<1> HIDE DEF Known
<1>4. Nat \subseteq Known
  BY <1>2, <1>3, SetInduction
<1> QED
  BY <1>1, <1>4 DEF Known

----------------------------------------------------------------------------
\* The sum of f over S, as the community module defines it.
Sum(f, S) == MapThenSumSet(LAMBDA x : f[x], S)

\* That sum is the value of a function that adds up f over each subset.
LEMMA SumDef ==
  ASSUME NEW S, IsFiniteSet(S), NEW f, \A x \in S : f[x] \in Nat
  PROVE  \E g \in [SUBSET S -> Nat] : IsSum(g, S, f) /\ Sum(f, S) = g[S]
<1> DEFINE it == CHOOSE g : IsSum(g, S, f)
<1>1. PICK g \in [SUBSET S -> Nat] : IsSum(g, S, f)
  BY SumExists
<1>2. IsSum(it, S, f)
  BY <1>1
<1>3. Sum(f, S) = it[S]
  BY DEF Sum, MapThenSumSet, MapThenFoldSet, IsSum, Chosen
<1>4. \A s \in SUBSET S : it[s] = g[s]
  BY <1>1, <1>2, SumsAgree
<1> QED
  BY <1>1, <1>3, <1>4

\* A sum of natural numbers is one.
LEMMA SumNat ==
  ASSUME NEW S, IsFiniteSet(S), NEW f, \A x \in S : f[x] \in Nat
  PROVE  Sum(f, S) \in Nat
<1>1. PICK g \in [SUBSET S -> Nat] : IsSum(g, S, f) /\ Sum(f, S) = g[S]
  BY SumDef
<1> QED
  BY <1>1

\* The sum of nothing is zero.
LEMMA SumEmpty == \A f : Sum(f, {}) = 0
<1> SUFFICES ASSUME NEW f PROVE Sum(f, {}) = 0
  OBVIOUS
<1>1. IsFiniteSet({})
  BY FS_EmptySet
<1>2. PICK g : IsSum(g, {}, f) /\ Sum(f, {}) = g[{}]
  BY <1>1, SumDef
<1> QED
  BY <1>2 DEF IsSum

\* The sum depends on the values of f on S alone.
LEMMA SumEqual ==
  ASSUME NEW S, IsFiniteSet(S), NEW f, NEW e, \A x \in S : f[x] \in Nat /\ e[x] = f[x]
  PROVE  Sum(e, S) = Sum(f, S)
<1>1. PICK g : IsSum(g, S, f) /\ Sum(f, S) = g[S]
  BY SumDef
<1>2. PICK h : IsSum(h, S, e) /\ Sum(e, S) = h[S]
  BY SumDef
<1>3. \A s \in SUBSET S : g[s] = h[s]
  BY <1>1, <1>2, SumsAgree
<1> QED
  BY <1>1, <1>2, <1>3

\* One more element adds its value.
LEMMA SumAdd ==
  ASSUME NEW S, IsFiniteSet(S), NEW f, NEW x, x \notin S, \A y \in S \union {x} : f[y] \in Nat
  PROVE  Sum(f, S \union {x}) = f[x] + Sum(f, S)
<1> DEFINE U == S \union {x}
<1>1. IsFiniteSet(U) /\ S \in SUBSET U /\ U \ {x} = S
  BY FS_AddElement
<1> HIDE DEF U
<1>2. PICK g \in [SUBSET U -> Nat] : IsSum(g, U, f) /\ Sum(f, U) = g[U]
  BY <1>1, SumDef DEF U
<1>3. PICK h : IsSum(h, S, f) /\ Sum(f, S) = h[S]
  BY SumDef
<1>4. g[S] = h[S]
  BY <1>1, <1>2, <1>3, SumsAgree
<1>5. g[U] = f[x] + g[U \ {x}]
  <2>1. x \in U /\ U \in SUBSET U /\ \A y \in U : f[y] \in Nat
    BY DEF U
  <2> QED
    BY <1>1, <1>2, <2>1, SumTakesAny
<1> QED
  BY <1>1, <1>2, <1>3, <1>4, <1>5 DEF U

\* A part adds up to no more than the whole.
LEMMA SumMonotonic ==
  ASSUME NEW S, IsFiniteSet(S), NEW T \in SUBSET S, NEW f, \A x \in S : f[x] \in Nat
  PROVE  Sum(f, T) <= Sum(f, S)
<1> DEFINE R == {D \in SUBSET (S \ T) : Sum(f, T) <= Sum(f, T \union D)}
<1>1. IsFiniteSet(T) /\ IsFiniteSet(S \ T) /\ \A D \in SUBSET (S \ T) : IsFiniteSet(T \union D)
  <2>1. \A D \in SUBSET (S \ T) : T \union D \in SUBSET S
    OBVIOUS
  <2> QED
    BY <2>1, FS_Subset
<1>2. {} \in R
  <2>1. Sum(f, T) \in Nat
    BY <1>1, SumNat
  <2> QED
    BY <2>1, T \union {} = T
<1>3. ASSUME NEW D \in SUBSET (S \ T), NEW x \in S \ T, D \in R, x \notin D
      PROVE  D \union {x} \in R
  <2>1. Sum(f, (T \union D) \union {x}) = f[x] + Sum(f, T \union D)
    BY <1>1, <1>3, SumAdd
  <2>2. f[x] \in Nat /\ Sum(f, T) \in Nat /\ Sum(f, T \union D) \in Nat
    BY <1>1, SumNat
  <2>3. Sum(f, T) <= Sum(f, (T \union D) \union {x})
    BY <1>3, <2>1, <2>2
  <2> QED
    BY <2>3, (T \union D) \union {x} = T \union (D \union {x})
<1> HIDE DEF R
<1>4. S \ T \in R
  BY <1>1, <1>2, <1>3, FiniteInduction
<1> QED
  BY <1>4, T \union (S \ T) = S DEF R
=============================================================================
