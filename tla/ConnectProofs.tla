---------------------------- MODULE ConnectProofs ----------------------------
(***************************************************************************)
(* Proofs about Connection::connect, for any timeout and any longest wait  *)
(* for the user, any cap on the rounds, any preferences and any sizes of   *)
(* host keys: about Auth, about ConnectInner, which contains it, and about *)
(* ConnectDeadline, which is independent of both.  What holds of           *)
(* authenticate() holds in connect_inner, since every step of it is one of *)
(* authenticate() or none.                                                 *)
(***************************************************************************)
EXTENDS ConnectInner, ConnectDeadline, DataLemmas, FunctionTheorems

----------------------------------------------------------------------------
(* authenticate() *)

\* A success of the server is the reply in hand until authenticate() is done.
Acceptance ==
    /\ pc # "done" => (accepted <=> reply = Success)
    /\ pc \in {"checks", "first", "kbiStart"} => reply = None
    /\ pc = "asking" => reply # Success
    /\ AcceptanceReported

\* Before the first method was refused nobody answers prompts; the app does only
\* with a handler, the password only in the case documented for it.
Ways ==
    /\ pc \in {"checks", "first", "firstSent"} => way = "none"
    /\ way = "app" => setup.handler
    /\ way = "password" =>
         /\ setup = [auth |-> "password", handler |-> FALSE]
         /\ refused.kind = "failure" /\ ~refused.partial
         /\ refused.remaining = {"keyboard-interactive"}
    /\ filled # {} => way = "password"
    /\ "echo" \notin filled
    /\ pc = "asking" => way = "app"

IInv == TypeOK /\ Acceptance /\ Ways

\* The initial state satisfies the invariant.
LEMMA InitIInv == Init => IInv
<1> SUFFICES ASSUME Init PROVE IInv
  OBVIOUS
<1> USE RoundsAssumption DEF Init
<1>1. TypeOK
  <2>1. round \in 0..Rounds /\ filled \subseteq {"echo", "secret"}
    OBVIOUS
  <2>2. reply \in {None, Success, Lost} \union Failure \union Challenge
    OBVIOUS
  <2> QED
    BY <2>1, <2>2 DEF TypeOK, AuthPC
<1>2. Acceptance
  BY DEF Acceptance, AcceptanceReported, None, Success
<1>3. Ways
  BY DEF Ways
<1> QED
  BY <1>1, <1>2, <1>3 DEF IInv

\* Every step keeps the types.
LEMMA NextTypeOK == TypeOK /\ [Next]_vars => TypeOK'
<1> SUFFICES ASSUME TypeOK, [Next]_vars PROVE TypeOK'
  OBVIOUS
<1> USE RoundsAssumption DEF TypeOK, AuthPC, Goes, Finishes, Looks, None, Success, Lost, Failure,
    Challenge, SecondFactorAsked, PasswordNotTaken
<1>1. CASE ConnectRefuses BY <1>1 DEF ConnectRefuses
<1>2. CASE ConnectProceeds BY <1>2 DEF ConnectProceeds
<1>3. CASE KeyUnusable BY <1>3 DEF KeyUnusable
<1>4. CASE SendFirst BY <1>4 DEF SendFirst
<1>5. CASE FirstSucceeds BY <1>5 DEF FirstSucceeds
<1>6. CASE SecondFactor BY <1>6 DEF SecondFactor
<1>7. CASE FallsBack BY <1>7 DEF FallsBack
<1>8. CASE FirstFails BY <1>8 DEF FirstFails
<1>9. CASE KbiStart BY <1>9 DEF KbiStart
<1>10. CASE KbiSucceeds BY <1>10 DEF KbiSucceeds
<1>11. CASE KbiFails BY <1>11 DEF KbiFails
<1>12. CASE KbiAsks BY <1>12 DEF KbiAsks
<1>13. CASE KbiFills
  <2>1. reply \in Challenge
    BY <1>13 DEF KbiFills
  <2>2. filled' \subseteq {"echo", "secret"}
    BY <1>13, <2>1 DEF KbiFills
  <2>3. round' \in 0..Rounds
    BY <1>13 DEF KbiFills
  <2>4. reply' = None /\ UNCHANGED <<setup, pc, way, result, accepted, refused>>
    BY <1>13 DEF KbiFills
  <2> QED
    BY <2>2, <2>3, <2>4
<1>14. CASE KbiGivesUp BY <1>14 DEF KbiGivesUp
<1>15. CASE ReplyLost BY <1>15 DEF ReplyLost
<1>16. CASE KbiAnswered
  <2>1. result' \in {result, "cancelled", "invalid"}
    BY <1>16 DEF KbiAnswered
  <2>2. pc' \in {"kbiSent", "done"} /\ reply' = None
    BY <1>16 DEF KbiAnswered
  <2>3. UNCHANGED <<setup, way, round, accepted, refused, filled>>
    BY <1>16 DEF KbiAnswered
  <2> QED
    BY <2>1, <2>2, <2>3
<1>17. CASE ServerReplies BY <1>17 DEF ServerReplies
<1>18. CASE UNCHANGED vars BY <1>18 DEF vars
<1> QED
  BY <1>1, <1>2, <1>3, <1>4, <1>5, <1>6, <1>7, <1>8, <1>9, <1>10, <1>11, <1>12,
     <1>13, <1>14, <1>15, <1>16, <1>17, <1>18
  DEF Next, First, Kbi

\* A success ends the attempt, unless it answers the last round.
LEMMA NextAcceptance == TypeOK /\ Acceptance /\ [Next]_vars => Acceptance'
<1> SUFFICES ASSUME TypeOK /\ Acceptance, [Next]_vars PROVE Acceptance'
  OBVIOUS
<1> USE RoundsAssumption DEF Acceptance, AcceptanceReported, TypeOK, AuthPC, Goes,
    Finishes, Looks, None, Success, Lost, Failure,
    Challenge, SecondFactorAsked, PasswordNotTaken
<1>1. CASE ConnectRefuses BY <1>1 DEF ConnectRefuses
<1>2. CASE ConnectProceeds BY <1>2 DEF ConnectProceeds
<1>3. CASE KeyUnusable BY <1>3 DEF KeyUnusable
<1>4. CASE SendFirst BY <1>4 DEF SendFirst
<1>5. CASE FirstSucceeds BY <1>5 DEF FirstSucceeds
<1>6. CASE SecondFactor BY <1>6 DEF SecondFactor
<1>7. CASE FallsBack BY <1>7 DEF FallsBack
<1>8. CASE FirstFails BY <1>8 DEF FirstFails
<1>9. CASE KbiStart BY <1>9 DEF KbiStart
<1>10. CASE KbiSucceeds BY <1>10 DEF KbiSucceeds
<1>11. CASE KbiFails BY <1>11 DEF KbiFails
<1>12. CASE KbiAsks BY <1>12 DEF KbiAsks
<1>13. CASE KbiFills BY <1>13 DEF KbiFills
<1>14. CASE KbiGivesUp BY <1>14 DEF KbiGivesUp
<1>15. CASE ReplyLost BY <1>15 DEF ReplyLost
<1>16. CASE KbiAnswered BY <1>16 DEF KbiAnswered
<1>17. CASE ServerReplies BY <1>17 DEF ServerReplies
<1>18. CASE UNCHANGED vars BY <1>18 DEF vars
<1> QED
  BY <1>1, <1>2, <1>3, <1>4, <1>5, <1>6, <1>7, <1>8, <1>9, <1>10, <1>11, <1>12,
     <1>13, <1>14, <1>15, <1>16, <1>17, <1>18
  DEF Next, First, Kbi

\* Each way into the prompts checks what it needs.
LEMMA NextWays == TypeOK /\ Ways /\ [Next]_vars => Ways'
<1> SUFFICES ASSUME TypeOK /\ Ways, [Next]_vars PROVE Ways'
  OBVIOUS
<1> USE RoundsAssumption DEF Ways, TypeOK, AuthPC, Methods, Goes, Finishes, Looks, None,
    Success, Lost, Failure,
    Challenge, SecondFactorAsked, PasswordNotTaken
<1>1. CASE ConnectRefuses BY <1>1 DEF ConnectRefuses
<1>2. CASE ConnectProceeds BY <1>2 DEF ConnectProceeds
<1>3. CASE KeyUnusable BY <1>3 DEF KeyUnusable
<1>4. CASE SendFirst BY <1>4 DEF SendFirst
<1>5. CASE FirstSucceeds BY <1>5 DEF FirstSucceeds
<1>6. CASE SecondFactor BY <1>6 DEF SecondFactor
<1>7. CASE FallsBack BY <1>7 DEF FallsBack
<1>8. CASE FirstFails BY <1>8 DEF FirstFails
<1>9. CASE KbiStart BY <1>9 DEF KbiStart
<1>10. CASE KbiSucceeds BY <1>10 DEF KbiSucceeds
<1>11. CASE KbiFails BY <1>11 DEF KbiFails
<1>12. CASE KbiAsks BY <1>12 DEF KbiAsks
<1>13. CASE KbiFills BY <1>13 DEF KbiFills
<1>14. CASE KbiGivesUp BY <1>14 DEF KbiGivesUp
<1>15. CASE ReplyLost BY <1>15 DEF ReplyLost
<1>16. CASE KbiAnswered BY <1>16 DEF KbiAnswered
<1>17. CASE ServerReplies BY <1>17 DEF ServerReplies
<1>18. CASE UNCHANGED vars BY <1>18 DEF vars
<1> QED
  BY <1>1, <1>2, <1>3, <1>4, <1>5, <1>6, <1>7, <1>8, <1>9, <1>10, <1>11, <1>12,
     <1>13, <1>14, <1>15, <1>16, <1>17, <1>18
  DEF Next, First, Kbi

\* The invariant behind the theorems below holds in every run.
THEOREM Invariance == Spec => []IInv
<1>1. IInv /\ [Next]_vars => IInv'
  BY NextTypeOK, NextAcceptance, NextWays DEF IInv
<1> QED
  BY InitIInv, <1>1, PTL DEF Spec

\* Every variable keeps its type; the rounds stay within the cap.
THEOREM TypeCorrect == Spec => []TypeOK
<1>1. IInv => TypeOK
  BY DEF IInv
<1> QED
  BY Invariance, <1>1, PTL

\* authenticate() reports exactly what the server decided, but for a success in
\* reply to the answers of the last round.
THEOREM Reported == Spec => []AcceptanceReported
<1>1. IInv => AcceptanceReported
  BY DEF IInv, Acceptance
<1> QED
  BY Invariance, <1>1, PTL

\* The password is typed into prompts only by the documented fallback, and never
\* into one that echoes; the app is asked only if it has a handler.
THEOREM WellAnswered == Spec => []PromptsWellAnswered
<1>1. IInv => PromptsWellAnswered
  BY DEF IInv, Ways, PromptsWellAnswered, PasswordOnlyAsFallback, AskedOnlyIfAble
<1> QED
  BY Invariance, <1>1, PTL

----------------------------------------------------------------------------
(* The algorithms of the host key *)

Algorithms == {"ssh-ed25519", "ecdsa-sha2-nistp256", "ecdsa-sha2-nistp384",
               "ecdsa-sha2-nistp521", "rsa-sha2-512", "rsa-sha2-256"}

\* No algorithm is listed twice.
Distinct(list) == \A i, j \in 1..Len(list) : list[i] = list[j] => i = j

\* l is the list after the first k algorithms of the policy were considered.
Added(l, list, wanted, k) ==
    /\ l \in Seq(Algorithms)
    /\ Len(list) <= Len(l) /\ \A i \in 1..Len(list) : l[i] = list[i]
    /\ ToSet(l) = ToSet(list) \union (wanted \intersect {DefaultKeys[i] : i \in 1..k})
    /\ Distinct(list) => Distinct(l)
    /\ \A i \in (Len(list) + 1)..Len(l) : Place(l[i]) <= k
    /\ \A i \in (Len(list) + 2)..Len(l) : Place(l[i - 1]) < Place(l[i])

\* The algorithms of the policy are six different ones.
LEMMA Policy ==
  /\ DefaultKeys \in Seq(Algorithms) /\ Len(DefaultKeys) = 6
  /\ DOMAIN DefaultKeys = 1..6
  /\ ToSet(DefaultKeys) = Algorithms
  /\ {DefaultKeys[i] : i \in 1..6} = Algorithms
  /\ \A k \in 1..6 : DefaultKeys[k] \in Algorithms /\ Place(DefaultKeys[k]) = k
<1>1. DefaultKeys \in Seq(Algorithms) /\ Len(DefaultKeys) = 6
  BY DEF DefaultKeys, Algorithms
<1>2. DOMAIN DefaultKeys = 1..6
  BY <1>1, LenProperties
<1>3. 1..6 = {1, 2, 3, 4, 5, 6}
  OBVIOUS
<1>4. {DefaultKeys[i] : i \in 1..6} = Algorithms
  BY <1>3 DEF DefaultKeys, Algorithms
<1>5. \A k, i \in 1..6 : DefaultKeys[i] = DefaultKeys[k] => i = k
  BY <1>3 DEF DefaultKeys
<1>6. \A k \in 1..6 : DefaultKeys[k] \in Algorithms /\ Place(DefaultKeys[k]) = k
  BY <1>2, <1>4, <1>5 DEF Place
<1> QED
  BY <1>1, <1>2, <1>4, <1>6 DEF ToSet

\* One more element of a list is one more in its set.
LEMMA ToSetAppend ==
  \A S : \A l \in Seq(S), a \in S : ToSet(Append(l, a)) = ToSet(l) \union {a}
<1> SUFFICES ASSUME NEW S, NEW l \in Seq(S), NEW a \in S
             PROVE  ToSet(Append(l, a)) = ToSet(l) \union {a}
  OBVIOUS
<1> DEFINE m == Append(l, a)
<1>1. /\ DOMAIN l = 1..Len(l) /\ DOMAIN m = 1..(Len(l) + 1) /\ Len(l) \in Nat
      /\ \A i \in 1..Len(l) : m[i] = l[i]
      /\ m[Len(l) + 1] = a
  <2>1. m \in Seq(S) /\ Len(m) = Len(l) + 1
    BY AppendProperties
  <2> QED
    BY <2>1, AppendProperties, LenProperties
<1>2. 1..(Len(l) + 1) = 1..Len(l) \union {Len(l) + 1}
  BY <1>1
<1> HIDE DEF m
<1>3. {m[i] : i \in 1..(Len(l) + 1)} = {l[i] : i \in 1..Len(l)} \union {a}
  BY <1>1, <1>2
<1> QED
  BY <1>1, <1>3 DEF ToSet, m

\* AddNew goes through the policy, one algorithm after the other.
LEMMA AddNewFolds ==
  ASSUME NEW list \in Seq(Algorithms), NEW wanted
  PROVE  \E h : /\ h[0] = list /\ AddNew(list, wanted) = h[6]
                /\ \A k \in 1..6 :
                     h[k] = IF DefaultKeys[k] \in wanted \ ToSet(h[k - 1])
                            THEN Append(h[k - 1], DefaultKeys[k]) ELSE h[k - 1]
<1> DEFINE A == Algorithms
           V == Seq(A)
           step == [p \in V \X A |->
                      IF p[2] \in wanted \ ToSet(p[1]) THEN Append(p[1], p[2]) ELSE p[1]]
           Inline(it) == it = [S \in SUBSET DOMAIN DefaultKeys |->
                IF S = {} THEN list
                ELSE IF DefaultKeys[Max(S)] \in wanted \ ToSet(it[S \ {Max(S)}])
                     THEN Append(it[S \ {Max(S)}], DefaultKeys[Max(S)])
                     ELSE it[S \ {Max(S)}]]
           fold == CHOOSE it : Inline(it)
<1>1. step \in [V \X A -> V]
  BY AppendProperties
<1>2. \A l \in V, a \in A :
        step[<<l, a>>] = IF a \in wanted \ ToSet(l) THEN Append(l, a) ELSE l
  OBVIOUS
<1> HIDE DEF step
<1>3. \E it \in [SUBSET DOMAIN DefaultKeys -> V] : Inline(it)
  <2>1. PICK it \in [SUBSET DOMAIN DefaultKeys -> V] : IsLeftFold(it, DefaultKeys, list, step)
    <3>1. DefaultKeys \in Seq(A) /\ list \in V
      BY Policy
    <3> HIDE DEF A, V
    <3> QED
      BY <1>1, <3>1, LeftFoldExists
  <2>2. ASSUME NEW S \in SUBSET DOMAIN DefaultKeys, S # {}
        PROVE  it[S \ {Max(S)}] \in V /\ DefaultKeys[Max(S)] \in A
    BY <2>2, Policy, LastElement
  <2>3. ASSUME NEW S \in SUBSET DOMAIN DefaultKeys, S # {}
        PROVE  step[<<it[S \ {Max(S)}], DefaultKeys[Max(S)]>>] =
                 IF DefaultKeys[Max(S)] \in wanted \ ToSet(it[S \ {Max(S)}])
                 THEN Append(it[S \ {Max(S)}], DefaultKeys[Max(S)])
                 ELSE it[S \ {Max(S)}]
    BY <1>2, <2>2, <2>3
  <2> HIDE DEF A, V
  <2>4. Inline(it)
    BY <2>1, <2>3, Zenon DEF IsLeftFold
  <2> QED
    BY <2>4
<1>4. Inline(fold)
  BY <1>3
<1>5. \A S \in SUBSET DOMAIN DefaultKeys :
        fold[S] = IF S = {} THEN list
                  ELSE IF DefaultKeys[Max(S)] \in wanted \ ToSet(fold[S \ {Max(S)}])
                       THEN Append(fold[S \ {Max(S)}], DefaultKeys[Max(S)])
                       ELSE fold[S \ {Max(S)}]
  <2> HIDE DEF fold
  <2> QED
    BY <1>4
<1>6. AddNew(list, wanted) = fold[DOMAIN DefaultKeys]
  BY DEF AddNew, FoldLeft, MapThenFoldSet
<1> HIDE DEF fold, Inline
<1> DEFINE h == [k \in 0..6 |-> fold[1..k]]
<1>7. \A k \in 0..6 : 1..k \in SUBSET DOMAIN DefaultKeys /\ h[k] = fold[1..k]
  BY Policy
<1>8. h[0] = list /\ AddNew(list, wanted) = h[6]
  <2>1. h[0] = fold[{}] /\ h[6] = fold[DOMAIN DefaultKeys]
    BY <1>7, Policy, FirstPositions
  <2> QED
    BY <1>6, <1>5, <2>1
<1>9. ASSUME NEW k \in 1..6
      PROVE  h[k] = IF DefaultKeys[k] \in wanted \ ToSet(h[k - 1])
                    THEN Append(h[k - 1], DefaultKeys[k]) ELSE h[k - 1]
  <2>1. PICK S, R : S = 1..k /\ R = 1..(k - 1)
    OBVIOUS
  <2>2. S # {} /\ Max(S) = k /\ S \ {Max(S)} = R
    <3>1. k \in Nat \ {0}
      BY <1>1
    <3>2. 1..k # {} /\ Max(1..k) = k /\ (1..k) \ {k} = 1..(k - 1)
      BY <3>1, FirstPositions, Zenon
    <3> QED
      BY <2>1, <3>2, Zenon
  <2>3. S \in SUBSET DOMAIN DefaultKeys
    BY <1>7, <2>1
  <2>4. fold[S] = IF DefaultKeys[Max(S)] \in wanted \ ToSet(fold[S \ {Max(S)}])
                  THEN Append(fold[S \ {Max(S)}], DefaultKeys[Max(S)])
                  ELSE fold[S \ {Max(S)}]
    BY <1>5, <2>2, <2>3
  <2>5. h[k] = fold[S] /\ h[k - 1] = fold[R]
    BY <1>7, <2>1
  <2> HIDE DEF h
  <2> QED
    BY <2>2, <2>4, <2>5
<1> HIDE DEF h
<1> QED
  BY <1>8, <1>9

\* Considering one more algorithm.
LEMMA AddedStep ==
  \A list, l, m \in Seq(Algorithms), k \in 1..6 : \A wanted :
    /\ Added(l, list, wanted, k - 1)
    /\ m = IF DefaultKeys[k] \in wanted \ ToSet(l) THEN Append(l, DefaultKeys[k]) ELSE l
    => Added(m, list, wanted, k)
<1> SUFFICES ASSUME NEW list \in Seq(Algorithms), NEW l \in Seq(Algorithms),
                    NEW m \in Seq(Algorithms), NEW k \in 1..6, NEW wanted,
                    Added(l, list, wanted, k - 1),
                    m = IF DefaultKeys[k] \in wanted \ ToSet(l)
                        THEN Append(l, DefaultKeys[k]) ELSE l
             PROVE  Added(m, list, wanted, k)
  OBVIOUS
<1> DEFINE a == DefaultKeys[k]
           UpTo(n) == {DefaultKeys[i] : i \in 1..n}
<1>1. a \in Algorithms /\ Place(a) = k
  BY Policy
<1>2. UpTo(k) = UpTo(k - 1) \union {a}
  <2>1. 1..k = 1..(k - 1) \union {k}
    OBVIOUS
  <2> QED
    BY <2>1
<1>3. /\ Len(list) \in Nat /\ Len(l) \in Nat /\ Len(list) <= Len(l)
      /\ \A i \in 1..Len(list) : l[i] = list[i]
      /\ ToSet(l) = ToSet(list) \union (wanted \intersect UpTo(k - 1))
      /\ Distinct(list) => Distinct(l)
      /\ \A i \in (Len(list) + 1)..Len(l) : Place(l[i]) <= k - 1
      /\ \A i \in (Len(list) + 2)..Len(l) : Place(l[i - 1]) < Place(l[i])
  BY LenProperties DEF Added
<1>4. \A i \in (Len(list) + 1)..Len(l) : Place(l[i]) \in 1..6
  <2>1. \A x \in Algorithms : Place(x) \in 1..6
    BY Policy
  <2>2. \A i \in (Len(list) + 1)..Len(l) : l[i] \in Algorithms
    BY <1>3, ElementOfSeq
  <2> QED
    BY <2>1, <2>2
<1>5. CASE a \in wanted \ ToSet(l)
  <2>1. m = Append(l, a) /\ ToSet(m) = ToSet(l) \union {a}
    BY <1>1, <1>5, ToSetAppend
  <2>2. Len(m) = Len(l) + 1 /\ m[Len(m)] = a /\ \A i \in 1..Len(l) : m[i] = l[i]
    BY <1>1, <1>3, <2>1, AppendProperties
  <2>3. ToSet(m) = ToSet(list) \union (wanted \intersect UpTo(k))
    BY <1>2, <1>3, <1>5, <2>1
  <2>4. Distinct(list) => Distinct(m)
    <3>1. \A i \in 1..Len(l) : l[i] # a
      <4>1. DOMAIN l = 1..Len(l)
        BY LenProperties
      <4> QED
        BY <1>5, <4>1 DEF ToSet
    <3> QED
      BY <1>3, <2>2, <3>1 DEF Distinct
  <2> HIDE DEF a, UpTo
  <2>5. Len(list) <= Len(m) /\ \A i \in 1..Len(list) : m[i] = list[i]
    BY <1>3, <2>2
  <2>6. \A i \in (Len(list) + 1)..Len(m) : Place(m[i]) <= k
    <3> SUFFICES ASSUME NEW i \in (Len(list) + 1)..Len(m) PROVE Place(m[i]) <= k
      OBVIOUS
    <3>1. CASE i = Len(m)
      BY <1>1, <2>2, <3>1
    <3>2. CASE i \in (Len(list) + 1)..Len(l)
      <4>1. m[i] = l[i] /\ Place(l[i]) <= k - 1 /\ Place(l[i]) \in 1..6
        BY <1>3, <1>4, <2>2, <3>2
      <4> QED
        BY <4>1
    <3> QED
      BY <1>3, <2>2, <3>1, <3>2
  <2>7. \A i \in (Len(list) + 2)..Len(m) : Place(m[i - 1]) < Place(m[i])
    <3> SUFFICES ASSUME NEW i \in (Len(list) + 2)..Len(m)
                 PROVE  Place(m[i - 1]) < Place(m[i])
      OBVIOUS
    <3>1. CASE i = Len(m)
      <4>1. i - 1 \in (Len(list) + 1)..Len(l) /\ i - 1 \in 1..Len(l)
        BY <1>3, <2>2, <3>1
      <4>2. m[i - 1] = l[i - 1] /\ Place(l[i - 1]) <= k - 1 /\ Place(l[i - 1]) \in 1..6
        BY <1>3, <1>4, <2>2, <4>1
      <4> QED
        BY <1>1, <2>2, <3>1, <4>2
    <3>2. CASE i \in (Len(list) + 2)..Len(l)
      <4>1. m[i] = l[i] /\ m[i - 1] = l[i - 1]
        BY <1>3, <2>2, <3>2
      <4> QED
        BY <1>3, <3>2, <4>1
    <3> QED
      BY <1>3, <2>2, <3>1, <3>2
  <2> QED
    BY <2>3, <2>4, <2>5, <2>6, <2>7 DEF Added, UpTo
<1>6. CASE a \notin wanted \ ToSet(l)
  <2>1. m = l
    BY <1>6
  <2>2. ToSet(m) = ToSet(list) \union (wanted \intersect UpTo(k))
    BY <1>2, <1>3, <1>6, <2>1
  <2>3. \A i \in (Len(list) + 1)..Len(m) : Place(m[i]) <= k
    <3> SUFFICES ASSUME NEW i \in (Len(list) + 1)..Len(l) PROVE Place(l[i]) <= k
      BY <2>1
    <3>1. Place(l[i]) <= k - 1 /\ Place(l[i]) \in 1..6
      BY <1>3, <1>4
    <3> QED
      BY <3>1
  <2> QED
    BY <1>3, <2>1, <2>2, <2>3 DEF Added, UpTo
<1> QED
  BY <1>5, <1>6

\* AddNew adds what is wanted, in the order of the policy, behind what is there.
LEMMA AddNewAdds ==
  \A list \in Seq(Algorithms) : \A wanted : Added(AddNew(list, wanted), list, wanted, 6)
<1> SUFFICES ASSUME NEW list \in Seq(Algorithms), NEW wanted
             PROVE  Added(AddNew(list, wanted), list, wanted, 6)
  OBVIOUS
<1>1. PICK h : /\ h[0] = list /\ AddNew(list, wanted) = h[6]
               /\ \A k \in 1..6 :
                    h[k] = IF DefaultKeys[k] \in wanted \ ToSet(h[k - 1])
                           THEN Append(h[k - 1], DefaultKeys[k]) ELSE h[k - 1]
  BY AddNewFolds
<1> DEFINE Good == {k \in Nat : k <= 6 => Added(h[k], list, wanted, k)}
<1>2. 0 \in Good
  <2>1. Len(list) \in Nat /\ \A i \in 1..0 : FALSE
    BY LenProperties
  <2>2. {DefaultKeys[i] : i \in 1..0} = {}
    BY <2>1
  <2> QED
    BY <1>1, <2>1, <2>2 DEF Added
<1>3. ASSUME NEW n \in Nat, n \in Good PROVE n + 1 \in Good
  <2> SUFFICES ASSUME n + 1 <= 6 PROVE Added(h[n + 1], list, wanted, n + 1)
    OBVIOUS
  <2>1. n + 1 \in 1..6 /\ (n + 1) - 1 = n /\ Added(h[n], list, wanted, n)
    BY <1>3
  <2>2. h[n + 1] = IF DefaultKeys[n + 1] \in wanted \ ToSet(h[n])
                   THEN Append(h[n], DefaultKeys[n + 1]) ELSE h[n]
    BY <1>1, <2>1
  <2>3. h[n] \in Seq(Algorithms)
    BY <2>1 DEF Added
  <2>4. h[n + 1] \in Seq(Algorithms)
    BY <2>1, <2>2, <2>3, Policy, AppendProperties
  <2> HIDE DEF Good
  <2> QED
    BY <2>1, <2>2, <2>3, <2>4, AddedStep
<1> HIDE DEF Good
<1>4. 6 \in Good
  BY <1>2, <1>3, SetInduction
<1> QED
  BY <1>1, <1>4 DEF Good

Name == [base : STRING, cert : BOOLEAN]

\* The algorithms the first k names stand for.
PinnedBy(first, k) == UNION {Pinned(first[i]) : i \in 1..k}

\* A name stands for the algorithms that match it.
LEMMA NamedPins == \A name : Named(name) = Pinned(name) /\ Pinned(name) \subseteq Algorithms
<1> SUFFICES ASSUME NEW name
             PROVE  Named(name) = Pinned(name) /\ Pinned(name) \subseteq Algorithms
  OBVIOUS
<1>1. Named(name) = {alg \in Algorithms : Matches(alg, name)}
  BY Policy DEF Named
<1>2. Pinned(name) \subseteq Algorithms
  BY Policy DEF Pinned, Algorithms
<1>3. ASSUME NEW alg \in Algorithms PROVE Matches(alg, name) <=> alg \in Pinned(name)
  <2>1. CASE alg \in RsaAlgorithms
    BY <2>1, Policy DEF Matches, Pinned, RsaAlgorithms, Algorithms
  <2>2. CASE alg \notin RsaAlgorithms
    BY <2>2, Policy DEF Matches, Pinned, RsaAlgorithms, Algorithms
  <2> QED
    BY <2>1, <2>2
<1> QED
  BY <1>1, <1>2, <1>3

\* Preferred goes through the names in their order and then through the policy.
LEMMA PreferredFolds ==
  ASSUME NEW first \in Seq(Name)
  PROVE  \E h : /\ h[0] = <<>>
                /\ Preferred(first) = AddNew(h[Len(first)], Algorithms)
                /\ \A k \in 1..Len(first) : h[k] = AddNew(h[k - 1], Named(first[k]))
<1> DEFINE A == Name
           V == Seq(Algorithms)
           D == DOMAIN first
           step == [p \in V \X A |-> AddNew(p[1], Named(p[2]))]
           Inline(it) == it = [S \in SUBSET DOMAIN first |->
                IF S = {} THEN <<>>
                ELSE AddNew(it[S \ {Max(S)}], Named(first[Max(S)]))]
           fold == CHOOSE it : Inline(it)
           h == [k \in 0..Len(first) |-> fold[1..k]]
<1>1. step \in [V \X A -> V]
  BY AddNewAdds DEF Added
<1>2. \A l \in V, a \in A : step[<<l, a>>] = AddNew(l, Named(a))
  OBVIOUS
<1> HIDE DEF step
<1>3. Len(first) \in Nat /\ D = 1..Len(first)
  BY LenProperties
<1>4. \E it \in [SUBSET DOMAIN first -> V] : Inline(it)
  <2>1. PICK it \in [SUBSET DOMAIN first -> V] : IsLeftFold(it, first, <<>>, step)
    <3>1. first \in Seq(A) /\ <<>> \in V
      BY EmptySeq
    <3> HIDE DEF A, V
    <3> QED
      BY <1>1, <3>1, LeftFoldExists
  <2>2. ASSUME NEW S \in SUBSET DOMAIN first, S # {}
        PROVE  it[S \ {Max(S)}] \in V /\ first[Max(S)] \in A
    <3>1. Max(S) \in 1..Len(first)
      BY <1>3, <2>2, LastElement
    <3> QED
      BY <3>1, ElementOfSeq
  <2>3. Inline(it)
    BY <1>2, <2>1, <2>2 DEF IsLeftFold
  <2> QED
    BY <2>3
<1>5. Inline(fold)
  BY <1>4
<1>6. Preferred(first) = AddNew(fold[DOMAIN first], Algorithms)
  BY Policy DEF Preferred, FoldLeft, MapThenFoldSet
<1>7. \A S \in SUBSET DOMAIN first :
        fold[S] = IF S = {} THEN <<>>
                  ELSE AddNew(fold[S \ {Max(S)}], Named(first[Max(S)]))
  <2> HIDE DEF fold
  <2> QED
    BY <1>5
<1> HIDE DEF fold, Inline
<1>8. \A k \in 0..Len(first) : 1..k \in SUBSET DOMAIN first /\ h[k] = fold[1..k]
  BY <1>3
<1>9. h[0] = <<>> /\ h[Len(first)] = fold[DOMAIN first]
  <2>1. h[0] = fold[{}] /\ h[Len(first)] = fold[DOMAIN first]
    BY <1>3, <1>8, FirstPositions
  <2> QED
    BY <1>7, <2>1
<1>10. ASSUME NEW k \in 1..Len(first) PROVE h[k] = AddNew(h[k - 1], Named(first[k]))
  <2>1. PICK S, R : S = 1..k /\ R = 1..(k - 1)
    OBVIOUS
  <2>2. S # {} /\ Max(S) = k /\ S \ {Max(S)} = R
    <3>1. k \in Nat \ {0}
      BY <1>1
    <3>2. 1..k # {} /\ Max(1..k) = k /\ (1..k) \ {k} = 1..(k - 1)
      BY <3>1, FirstPositions, Zenon
    <3> QED
      BY <2>1, <3>2, Zenon
  <2>3. S \in SUBSET DOMAIN first
    BY <1>8, <2>1
  <2>4. fold[S] = AddNew(fold[S \ {Max(S)}], Named(first[Max(S)]))
    BY <1>7, <2>2, <2>3
  <2>5. h[k] = fold[S] /\ h[k - 1] = fold[R]
    BY <1>3, <1>8, <2>1
  <2> HIDE DEF h
  <2> QED
    BY <2>2, <2>4, <2>5
<1> HIDE DEF h
<1> QED
  BY <1>6, <1>9, <1>10

\* Where one list leads another.
Leads(l, m) == Len(l) <= Len(m) /\ \A i \in 1..Len(l) : m[i] = l[i]

\* What the names and then the policy make of the list.
LEMMA PreferredRanks ==
  ASSUME NEW first \in Seq(Name)
  PROVE  \E h : /\ Preferred(first) = AddNew(h[Len(first)], Algorithms)
                /\ \A k \in 0..Len(first) :
                     /\ h[k] \in Seq(Algorithms) /\ Distinct(h[k])
                     /\ ToSet(h[k]) = PinnedBy(first, k)
                     /\ Leads(h[k], Preferred(first))
<1>1. PICK h : /\ h[0] = <<>>
               /\ Preferred(first) = AddNew(h[Len(first)], Algorithms)
               /\ \A k \in 1..Len(first) : h[k] = AddNew(h[k - 1], Named(first[k]))
  BY PreferredFolds
<1>2. Len(first) \in Nat
  BY LenProperties
<1> DEFINE Fine(k) == /\ h[k] \in Seq(Algorithms) /\ Distinct(h[k])
                      /\ ToSet(h[k]) = PinnedBy(first, k)
                      /\ \A i \in 0..k : Leads(h[i], h[k])
           Good == {k \in Nat : k <= Len(first) => Fine(k)}
<1>3. 0 \in Good
  <2>1. <<>> \in Seq(Algorithms) /\ Len(<<>>) = 0
    BY EmptySeq
  <2>2. Distinct(<<>>) /\ Leads(<<>>, <<>>)
    BY <2>1 DEF Distinct, Leads
  <2>3. ToSet(<<>>) = {} /\ PinnedBy(first, 0) = {}
    BY FirstPositions DEF ToSet, PinnedBy
  <2>4. \A i \in 0..0 : i = 0
    OBVIOUS
  <2> QED
    BY <1>1, <2>1, <2>2, <2>3, <2>4
<1>4. ASSUME NEW n \in Nat, n \in Good PROVE n + 1 \in Good
  <2> SUFFICES ASSUME n + 1 <= Len(first) PROVE Fine(n + 1)
    OBVIOUS
  <2>1. Fine(n) /\ n + 1 \in 1..Len(first) /\ (n + 1) - 1 = n
    BY <1>2, <1>4
  <2>2. h[n + 1] = AddNew(h[n], Named(first[n + 1]))
    BY <1>1, <2>1
  <2>3. Added(h[n + 1], h[n], Named(first[n + 1]), 6)
    BY <2>1, <2>2, AddNewAdds
  <2>4. h[n + 1] \in Seq(Algorithms) /\ Distinct(h[n + 1]) /\ Leads(h[n], h[n + 1])
    BY <2>1, <2>3 DEF Added, Leads
  <2>5. ToSet(h[n + 1]) = ToSet(h[n]) \union Pinned(first[n + 1])
    BY <2>3, NamedPins, Policy DEF Added
  <2>6. PinnedBy(first, n + 1) = PinnedBy(first, n) \union Pinned(first[n + 1])
    <3>1. 1..(n + 1) = 1..n \union {n + 1}
      OBVIOUS
    <3> QED
      BY <3>1 DEF PinnedBy
  <2>7. ASSUME NEW i \in 0..(n + 1) PROVE Leads(h[i], h[n + 1])
    <3>1. CASE i = n + 1
      <4>1. Len(h[n + 1]) \in Nat
        BY <2>4, LenProperties
      <4> QED
        BY <3>1, <4>1 DEF Leads
    <3>2. CASE i \in 0..n
      <4>1. Leads(h[i], h[n]) /\ Leads(h[n], h[n + 1])
        BY <2>1, <2>4, <3>2
      <4>2. Len(h[n]) \in Nat /\ Len(h[n + 1]) \in Nat
        BY <2>1, <2>4, LenProperties
      <4>3. i \in Nat /\ i <= Len(first)
        BY <1>2, <3>2
      <4> QED
        BY <4>1, <4>2 DEF Leads
    <3> QED
      BY <3>1, <3>2
  <2> HIDE DEF Good
  <2> QED
    BY <2>1, <2>4, <2>5, <2>6, <2>7
<1> HIDE DEF Good
<1>5. Nat \subseteq Good
  BY <1>3, <1>4, SetInduction
<1>6. \A k \in 0..Len(first) : Fine(k)
  BY <1>2, <1>5 DEF Good
<1> DEFINE list == Preferred(first)
<1>7. Added(list, h[Len(first)], Algorithms, 6)
  <2>1. h[Len(first)] \in Seq(Algorithms)
    BY <1>2, <1>6
  <2> QED
    BY <1>1, <2>1, AddNewAdds
<1>8. ASSUME NEW k \in 0..Len(first) PROVE Leads(h[k], list)
  <2>1. Leads(h[k], h[Len(first)]) /\ Leads(h[Len(first)], list)
    <3>1. k \in 0..Len(first) /\ Len(first) \in 0..Len(first)
      BY <1>2
    <3>2. Leads(h[k], h[Len(first)])
      BY <1>6, <3>1 DEF Fine
    <3> QED
      BY <1>7, <3>2 DEF Added, Leads
  <2>2. Len(h[k]) \in Nat /\ Len(h[Len(first)]) \in Nat /\ Len(list) \in Nat
    BY <1>2, <1>6, <1>7, LenProperties DEF Added
  <2> HIDE DEF list
  <2> QED
    BY <2>1, <2>2 DEF Leads
<1> QED
  BY <1>1, <1>6, <1>8

\* A list without repetitions has as many places as elements.
LEMMA DistinctCounts ==
  ASSUME NEW S, NEW l \in Seq(S), Distinct(l)
  PROVE  IsFiniteSet(ToSet(l)) /\ Cardinality(ToSet(l)) = Len(l)
<1> DEFINE n == Len(l)
           T == ToSet(l)
           f == [i \in 1..n |-> l[i]]
<1>1. n \in Nat /\ DOMAIN l = 1..n
  BY LenProperties
<1>2. IsFiniteSet(1..n) /\ Cardinality(1..n) = n
  <2> HIDE DEF n
  <2>1. 1 \in Int /\ n \in Int
    BY <1>1
  <2>2. IsFiniteSet(1..n) /\ Cardinality(1..n) = IF 1 > n THEN 0 ELSE n - 1 + 1
    BY <2>1, FS_Interval
  <2> QED
    BY <1>1, <2>2
<1>3. f \in Bijection(1..n, T)
  <2>1. T = {l[i] : i \in 1..n}
    BY <1>1 DEF ToSet
  <2> HIDE DEF T, n
  <2>2. f \in [1..n -> T] /\ \A i \in 1..n : f[i] = l[i]
    BY <2>1
  <2>3. \A i, j \in 1..n : f[i] = f[j] => i = j
    BY <2>2 DEF Distinct, n
  <2>4. \A x \in T : \E i \in 1..n : f[i] = x
    BY <2>1, <2>2
  <2> HIDE DEF f
  <2> QED
    BY <2>2, <2>3, <2>4, Fun_IsBij
<1>4. ExistsBijection(1..n, T)
  BY <1>3 DEF ExistsBijection
<1> HIDE DEF n, T, f
<1>5. IsFiniteSet(T) /\ Cardinality(T) = Cardinality(1..n)
  BY <1>2, <1>4, FS_Bijection
<1> QED
  BY <1>2, <1>5 DEF n, T

\* Whatever the app names, the list of Preferred is the policy, reordered: each
\* algorithm once, those that are named first, the others behind them in their order.
THEOREM PolicyStays ==
  ASSUME NEW first \in Seq(Name)
  PROVE  PolicyKept(first)
<1> DEFINE list == Preferred(first)
           named == UNION {Pinned(first[i]) : i \in DOMAIN first}
           others == SubSeq(list, Cardinality(named) + 1, Len(list))
<1>1. PICK h : /\ Preferred(first) = AddNew(h[Len(first)], Algorithms)
               /\ \A k \in 0..Len(first) :
                    /\ h[k] \in Seq(Algorithms) /\ Distinct(h[k])
                    /\ ToSet(h[k]) = PinnedBy(first, k)
                    /\ Leads(h[k], Preferred(first))
  BY PreferredRanks
<1>2. PICK head : head = h[Len(first)]
  OBVIOUS
<1>3. /\ head \in Seq(Algorithms) /\ Distinct(head) /\ ToSet(head) = named
      /\ Added(list, head, Algorithms, 6)
  <2>1. Len(first) \in 0..Len(first) /\ DOMAIN first = 1..Len(first)
    BY LenProperties
  <2>2. head \in Seq(Algorithms) /\ Distinct(head) /\ ToSet(head) = named
    BY <1>1, <1>2, <2>1 DEF PinnedBy
  <2> QED
    BY <1>1, <1>2, <2>2, AddNewAdds
<1> HIDE DEF list, named
<1>4. /\ list \in Seq(Algorithms) /\ Len(head) \in Nat /\ Len(list) \in Nat
      /\ Len(head) <= Len(list) /\ Distinct(list) /\ ToSet(list) = Algorithms
      /\ \A i \in 1..Len(head) : list[i] = head[i]
      /\ \A i \in (Len(head) + 2)..Len(list) : Place(list[i - 1]) < Place(list[i])
  <2>1. list \in Seq(Algorithms) /\ Distinct(list) /\ Len(head) <= Len(list)
    BY <1>3 DEF Added
  <2>2. ToSet(head) \subseteq Algorithms
    BY <1>3, ElementOfSeq, LenProperties DEF ToSet
  <2>3. ToSet(list) = Algorithms
    BY <1>3, <2>2, Policy DEF Added
  <2> QED
    BY <1>3, <2>1, <2>3, LenProperties DEF Added
<1>5. Cardinality(named) = Len(head)
  BY <1>3, DistinctCounts
<1>6. Len(list) = Len(DefaultKeys)
  <2>1. Distinct(DefaultKeys)
    <3>1. \A i, j \in 1..6 : DefaultKeys[i] = DefaultKeys[j] => i = j
      BY Policy
    <3> QED
      BY <3>1, Policy DEF Distinct
  <2>2. Cardinality(Algorithms) = Len(DefaultKeys)
    BY <2>1, Policy, DistinctCounts
  <2> QED
    BY <1>4, <2>2, DistinctCounts
<1>7. PICK c \in Nat : c = Len(head)
  BY <1>4
<1>8. /\ \A i \in (c + 1)..Len(list) : list[i] \in Algorithms
      /\ Len(others) = Len(list) - c
      /\ others \in Seq(Algorithms)
      /\ \A i \in 1..(Len(list) - c) : others[i] = list[c + i]
  <2>1. \A i \in (c + 1)..Len(list) : list[i] \in Algorithms
    BY <1>4, <1>7, ElementOfSeq
  <2>2. others = SubSeq(list, c + 1, Len(list))
    BY <1>5, <1>7
  <2>3. c + 1 \in Int /\ Len(list) \in Int
    BY <1>4
  <2> HIDE DEF others
  <2>4. /\ others \in Seq(Algorithms)
        /\ Len(others) = IF c + 1 <= Len(list) THEN Len(list) - (c + 1) + 1 ELSE 0
        /\ \A i \in 1..(Len(list) - (c + 1) + 1) : others[i] = list[(c + 1) + i - 1]
    BY <2>1, <2>2, <2>3, SubSeqProperties
  <2>5. Len(list) - c \in Nat
    BY <1>4, <1>7
  <2>6. PICK d \in Nat : d = Len(list) - c
    BY <2>5
  <2>7. Len(list) - (c + 1) + 1 = d /\ (c + 1 <= Len(list) <=> d # 0) /\ Len(list) = c + d
    BY <1>4, <2>6
  <2>8. \A i \in 1..d : (c + 1) + i - 1 = c + i
    OBVIOUS
  <2>9. Len(others) = d /\ \A i \in 1..d : others[i] = list[c + i]
    BY <2>4, <2>7, <2>8
  <2> QED
    BY <2>1, <2>4, <2>6, <2>9
<1> HIDE DEF others
<1>9. ToSet(others) = Algorithms \ named
  <2>1. ToSet(others) = {others[i] : i \in 1..(Len(list) - c)}
    BY <1>8, LenProperties DEF ToSet
  <2>2. ToSet(others) = {list[i] : i \in (c + 1)..Len(list)}
    <3>1. \A i \in 1..(Len(list) - c) : c + i \in (c + 1)..Len(list)
      BY <1>4
    <3>2. \A i \in (c + 1)..Len(list) : i - c \in 1..(Len(list) - c) /\ c + (i - c) = i
      BY <1>4
    <3>3. \A x \in ToSet(others) : x \in {list[i] : i \in (c + 1)..Len(list)}
      BY <1>8, <2>1, <3>1
    <3>4. ASSUME NEW i \in (c + 1)..Len(list) PROVE list[i] \in ToSet(others)
      <4>1. i - c \in 1..(Len(list) - c) /\ others[i - c] = list[i]
        BY <1>8, <3>2
      <4> QED
        BY <2>1, <4>1
    <3> QED
      BY <3>3, <3>4
  <2>3. named = {list[i] : i \in 1..c}
    <3>1. ToSet(head) = {head[i] : i \in 1..c}
      BY <1>3, <1>7, LenProperties DEF ToSet
    <3> QED
      BY <1>3, <1>4, <1>7, <3>1
  <2>4. Algorithms = {list[i] : i \in 1..Len(list)}
    BY <1>4, LenProperties DEF ToSet
  <2>5. \A i \in 1..Len(list) : (i \in 1..c \/ i \in (c + 1)..Len(list))
                                /\ ~(i \in 1..c /\ i \in (c + 1)..Len(list))
    BY <1>4, <1>7
  <2>6. 1..c \subseteq 1..Len(list) /\ (c + 1)..Len(list) \subseteq 1..Len(list)
    BY <1>4, <1>7
  <2>7. \A i, j \in 1..Len(list) : list[i] = list[j] => i = j
    BY <1>4 DEF Distinct
  <2> QED
    BY <2>2, <2>3, <2>4, <2>5, <2>6, <2>7
<1>10. ASSUME NEW i \in 2..Len(others) PROVE Place(others[i - 1]) < Place(others[i])
  <2>1. i \in 1..(Len(list) - c) /\ i - 1 \in 1..(Len(list) - c)
    BY <1>4, <1>8
  <2>2. others[i] = list[c + i] /\ others[i - 1] = list[c + (i - 1)]
    BY <1>8, <2>1
  <2>3. c + i \in (c + 2)..Len(list) /\ c + (i - 1) = (c + i) - 1
    BY <1>4, <2>1
  <2> QED
    BY <1>4, <1>7, <2>2, <2>3
<1> QED
  BY <1>4, <1>6, <1>9, <1>10, Policy, Zenon DEF list, named, others, PolicyKept

\* The algorithm negotiated is the first of the list that the server has.
LEMMA FirstCommon ==
  ASSUME NEW list \in Seq(Algorithms), NEW offered
  PROVE  \/ /\ Negotiated(list, offered) = "none"
            /\ \A i \in 1..Len(list) : list[i] \notin offered
         \/ \E m \in 1..Len(list) :
              /\ Negotiated(list, offered) = list[m] /\ list[m] \in offered
              /\ \A i \in 1..Len(list) : list[i] \in offered => m <= i
<1> DEFINE common == {i \in DOMAIN list : list[i] \in offered}
<1>1. DOMAIN list = 1..Len(list) /\ Len(list) \in Nat
  BY LenProperties
<1>2. CASE common = {}
  BY <1>1, <1>2 DEF Negotiated
<1>3. CASE common # {}
  <2>1. common \in SUBSET Nat
    BY <1>1
  <2>2. Min(common) \in common /\ \A i \in common : Min(common) <= i
    BY <1>3, <2>1, LeastElement DEF Min
  <2>3. Negotiated(list, offered) = list[Min(common)]
    BY <1>3 DEF Negotiated
  <2>4. PICK m : m = Min(common)
    OBVIOUS
  <2> QED
    BY <1>1, <2>2, <2>3, <2>4
<1> QED
  BY <1>2, <1>3

\* The key a server presents is one of the first name it has a key for.
LEMMA PresentedIsPinned ==
  ASSUME NEW first \in Seq(Name), NEW offered, NEW i \in DOMAIN first,
         Pinned(first[i]) \intersect offered # {},
         \A j \in 1..(i - 1) : Pinned(first[j]) \intersect offered = {}
  PROVE  Negotiated(Preferred(first), offered) \in Pinned(first[i])
<1> DEFINE list == Preferred(first)
<1>1. PICK h : /\ Preferred(first) = AddNew(h[Len(first)], Algorithms)
               /\ \A k \in 0..Len(first) :
                    /\ h[k] \in Seq(Algorithms) /\ Distinct(h[k])
                    /\ ToSet(h[k]) = PinnedBy(first, k)
                    /\ Leads(h[k], Preferred(first))
  BY PreferredRanks
<1>2. DOMAIN first = 1..Len(first) /\ Len(first) \in Nat /\ i \in 1..Len(first)
  BY LenProperties
<1>3. PICK head : head = h[i]
  OBVIOUS
<1>4. /\ head \in Seq(Algorithms) /\ ToSet(head) = PinnedBy(first, i)
      /\ Leads(head, list)
  <2>1. i \in 0..Len(first)
    BY <1>2
  <2> QED
    BY <1>1, <1>3, <2>1
<1>5. list \in Seq(Algorithms)
  <2>1. Len(first) \in 0..Len(first)
    BY <1>2
  <2>2. h[Len(first)] \in Seq(Algorithms)
    BY <1>1, <2>1
  <2> QED
    BY <1>1, <2>2, AddNewAdds DEF Added
<1> HIDE DEF list
<1>6. DOMAIN head = 1..Len(head) /\ Len(head) \in Nat /\ Len(list) \in Nat
  BY <1>4, <1>5, LenProperties
<1>7. PICK n \in 1..Len(head) : head[n] \in offered
  <2>1. PICK alg \in Pinned(first[i]) : alg \in offered
    OBVIOUS
  <2>2. alg \in PinnedBy(first, i)
    BY <1>2, <2>1 DEF PinnedBy
  <2> QED
    BY <1>4, <1>6, <2>1, <2>2 DEF ToSet
<1>8. n \in 1..Len(list) /\ list[n] \in offered
  BY <1>4, <1>6, <1>7 DEF Leads
<1>9. PICK m \in 1..Len(list) :
         /\ Negotiated(list, offered) = list[m] /\ list[m] \in offered
         /\ \A k \in 1..Len(list) : list[k] \in offered => m <= k
  BY <1>5, <1>8, FirstCommon
<1>10. m \in 1..Len(head) /\ list[m] = head[m]
  <2>1. m <= n
    BY <1>8, <1>9
  <2> QED
    BY <1>4, <1>6, <1>7, <1>9, <2>1 DEF Leads
<1>11. PICK k \in 1..i : list[m] \in Pinned(first[k])
  <2>1. list[m] \in PinnedBy(first, i)
    BY <1>4, <1>6, <1>10 DEF ToSet
  <2> QED
    BY <2>1 DEF PinnedBy
<1>12. k = i
  <2>1. k \notin 1..(i - 1)
    BY <1>9, <1>11
  <2> QED
    BY <1>2, <1>11, <2>1
<1> QED
  BY <1>9, <1>11, <1>12 DEF list

----------------------------------------------------------------------------
(* connect() *)

Errors == {"none", "arguments", "IO", "NoCommonAlgo", "Disconnect", "HUP",
           "KeepaliveTimeout", "WrongServerSig", "Kex", "UnknownKey"}

\* The slot and the app's decision tell the two refusals of a key apart, and a
\* decision is only ever about a key that the policy lets through.
Refusals ==
    /\ phase \in Phases /\ fault \in Errors
    /\ weak \in BOOLEAN /\ decision \in {"none", "yes", "no"}
    /\ phase # "failed" => fault = "none"
    /\ phase \in {"idle", "kex", "presented", "shown"} => decision = "none"
    /\ decision = "no" => fault = "UnknownKey"
    /\ weak => fault = "UnknownKey" /\ decision = "none"
    /\ fault = "UnknownKey" => weak \/ decision = "no"
    /\ phase = "shown" \/ decision # "none" => ~WeakRsa(HostKey)

\* What connect() does before and after the handshake is a step of Auth or none.
LEMMA StepOfAuth == [InnerNext]_allVars => [Next]_vars
BY DEF InnerNext, allVars, AuthStep, Handshake, ArgumentsRefused, DialFails, Dials,
   NothingInCommon, Presents, HandshakeFails, RefusesWeakKey, ShowsKey, KeyRefused,
   KeyAccepted, Ends

\* No key is exchanged at first: none to be weak.
LEMMA NoKeyNotWeak == kex = NoKex => ~WeakRsa(HostKey)
BY DEF NoKex, WeakRsa, HostKey, KeyName, RsaAlgorithms

\* At first nothing is refused.
LEMMA InitRefusals == InnerInit => Refusals
BY NoKeyNotWeak DEF InnerInit, Refusals, Phases, Errors

\* A key is refused by the policy before it is shown, or by the app after.
LEMMA NextRefusals == Refusals /\ [InnerNext]_allVars => Refusals'
<1> SUFFICES ASSUME Refusals, [InnerNext]_allVars PROVE Refusals'
  OBVIOUS
<1> USE DEF Refusals, Phases, Errors, Ends
<1>0. kex' = kex => HostKey' = HostKey
  BY DEF HostKey
<1> HIDE DEF HostKey
<1>1. CASE ArgumentsRefused BY <1>0, <1>1 DEF ArgumentsRefused
<1>2. CASE DialFails BY <1>0, <1>2 DEF DialFails
<1>3. CASE Dials
  <2>1. phase = "idle" /\ phase' = "kex" /\ UNCHANGED <<weak, decision, fault>>
    BY <1>3 DEF Dials
  <2> QED
    BY <2>1
<1>4. CASE NothingInCommon BY <1>0, <1>4 DEF NothingInCommon
<1>5. CASE Presents BY <1>0, <1>5 DEF Presents
<1>6. CASE HandshakeFails BY <1>0, <1>6 DEF HandshakeFails
<1>7. CASE RefusesWeakKey BY <1>0, <1>7 DEF RefusesWeakKey
<1>8. CASE ShowsKey BY <1>0, <1>8 DEF ShowsKey
<1>9. CASE KeyRefused BY <1>0, <1>9 DEF KeyRefused
<1>10. CASE KeyAccepted
  <2>1. ~WeakRsa(HostKey)'
    BY <1>10 DEF KeyAccepted, NoKex, WeakRsa, HostKey, KeyName, RsaAlgorithms
  <2> QED
    BY <1>10, <2>1 DEF KeyAccepted
<1>11. CASE AuthStep BY <1>0, <1>11 DEF AuthStep, innerVars
<1>12. CASE UNCHANGED allVars BY <1>0, <1>12 DEF allVars, innerVars
<1> QED
  BY <1>1, <1>2, <1>3, <1>4, <1>5, <1>6, <1>7, <1>8, <1>9, <1>10, <1>11, <1>12
  DEF InnerNext, Handshake

\* The invariants of authenticate() hold with the handshake before it.
LEMMA InnerInvariance == InnerSpec => [](IInv /\ Refusals)
<1>1. InnerInit => IInv
  BY InitIInv DEF InnerInit
<1>2. IInv /\ [InnerNext]_allVars => IInv'
  BY StepOfAuth, NextTypeOK, NextAcceptance, NextWays DEF IInv
<1> QED
  BY <1>1, <1>2, InitRefusals, NextRefusals, PTL DEF InnerSpec

\* connect() reports a success exactly when the server sent one, but for a success
\* in reply to the answers of the last round.
THEOREM InnerReported == InnerSpec => []AcceptanceReported
<1>1. IInv => AcceptanceReported
  BY DEF IInv, Acceptance
<1> QED
  BY InnerInvariance, <1>1, PTL

\* Along every way through connect() prompts are answered by the app, if it can be
\* asked, or with the password in the one case that is documented.
THEOREM InnerWellAnswered == InnerSpec => []PromptsWellAnswered
<1>1. IInv => PromptsWellAnswered
  BY DEF IInv, Ways, PromptsWellAnswered, PasswordOnlyAsFallback, AskedOnlyIfAble
<1> QED
  BY InnerInvariance, <1>1, PTL

\* A key the policy refuses is never shown to the app, nor its refusal reported as
\* the user's, for any size of key and any preferences.
THEOREM PolicyIsNotTheUser == InnerSpec => []WeakIsPolicy
<1>1. Refusals => WeakIsPolicy
  <2> SUFFICES ASSUME Refusals PROVE WeakIsPolicy
    OBVIOUS
  <2>1. Code = "HostKeyRejected" <=> ~weak /\ fault \in {"UnknownKey", "WrongServerSig"}
    BY DEF Refusals, Errors, Code, HandshakeCode, CodeOf
  <2>2. Code = "HostKeyRejected" <=> decision = "no" \/ fault = "WrongServerSig"
    BY <2>1 DEF Refusals
  <2> QED
    BY <2>2 DEF Refusals, WeakIsPolicy
<1> QED
  BY InnerInvariance, <1>1, PTL

\* What was exchanged: the names, the list made of them and the key negotiated with it.
Exchanged ==
    /\ kex.first \in Seq(Name)
    /\ kex.list = Preferred(kex.first)
    /\ kex.offered \subseteq Algorithms
    /\ kex.presented = Negotiated(kex.list, kex.offered)

Negotiation ==
    /\ kex = NoKex \/ Exchanged
    /\ phase \in {"kex", "presented", "shown"} => Exchanged

\* Nothing is exchanged at first.
LEMMA InitNegotiation == InnerInit => Negotiation
BY DEF InnerInit, Negotiation

\* The lists are exchanged when the connection is up, and stay.
LEMMA NextNegotiation == Negotiation /\ [InnerNext]_allVars => Negotiation'
<1> SUFFICES ASSUME Negotiation, [InnerNext]_allVars PROVE Negotiation'
  OBVIOUS
<1>1. kex' = kex => Exchanged' = Exchanged
  BY DEF Exchanged
<1>2. CASE Dials
  <2>1. PICK first \in Firsts, offered \in SUBSET ToSet(DefaultKeys), bits \in HostBits :
          kex' = [first |-> first, list |-> Preferred(first), offered |-> offered,
                  bits |-> bits, presented |-> Negotiated(Preferred(first), offered)]
    BY <1>2 DEF Dials
  <2>2. first \in Seq(Name)
    BY FirstsAssumption DEF Name
  <2>3. Exchanged'
    BY <2>1, <2>2, Policy DEF Exchanged
  <2> QED
    BY <2>3 DEF Negotiation
<1>3. CASE KeyAccepted
  BY <1>3 DEF KeyAccepted, Negotiation
<1>4. CASE Presents \/ ShowsKey
  BY <1>1, <1>4 DEF Presents, ShowsKey, Negotiation
<1>5. CASE \/ ArgumentsRefused \/ DialFails \/ NothingInCommon \/ HandshakeFails
           \/ RefusesWeakKey \/ KeyRefused
  BY <1>1, <1>5 DEF ArgumentsRefused, DialFails, NothingInCommon, HandshakeFails,
     RefusesWeakKey, KeyRefused, Ends, Negotiation
<1>6. CASE AuthStep \/ UNCHANGED allVars
  BY <1>1, <1>6 DEF AuthStep, allVars, innerVars, Negotiation
<1> QED
  BY <1>2, <1>3, <1>4, <1>5, <1>6 DEF InnerNext, Handshake

\* That holds in every run.
LEMMA NegotiationHolds == InnerSpec => []Negotiation
BY InitNegotiation, NextNegotiation, PTL DEF InnerSpec

\* Every variable has its type, and every failure one of the codes of the C ABI.
THEOREM InnerTypeCorrect == InnerSpec => []InnerTypeOK
<1>1. IInv /\ Refusals /\ Negotiation => InnerTypeOK
  <2> SUFFICES ASSUME IInv, Refusals, Negotiation PROVE InnerTypeOK
    OBVIOUS
  <2>1. kex.offered \subseteq ToSet(DefaultKeys) /\ kex.presented \in kex.offered \union {"none"}
    <3>1. CASE kex = NoKex
      BY <3>1 DEF NoKex
    <3>2. CASE Exchanged
      <4>1. kex.list \in Seq(Algorithms)
        <5>1. Len(kex.first) \in 0..Len(kex.first)
          BY <3>2, LenProperties DEF Exchanged
        <5> QED
          BY <3>2, <5>1, PreferredRanks, AddNewAdds DEF Exchanged, Added
      <4> QED
        BY <3>2, <4>1, FirstCommon, Policy DEF Exchanged
    <3> QED
      BY <3>1, <3>2 DEF Negotiation
  <2>2. Code \in ErrorCode \union {"none"}
    BY DEF Refusals, Errors, Code, HandshakeCode, CodeOf, ErrorCode
  <2> QED
    BY <2>1, <2>2 DEF InnerTypeOK, IInv, Refusals
<1> QED
  BY InnerInvariance, NegotiationHolds, <1>1, PTL

\* A server that has a key of a name the app pinned presents it.
THEOREM PinnedIsPresented == InnerSpec => []PinnedPresented
<1>1. Negotiation => PinnedPresented
  BY PresentedIsPinned DEF Negotiation, Exchanged, PinnedPresented
<1> QED
  BY NegotiationHolds, <1>1, PTL

----------------------------------------------------------------------------
(* The deadline of connect() *)

\* The wait in progress, or done and not counted yet.
Running == IF since = Never THEN 0 ELSE now - since

\* Who is asked: since is set from begin() until end() counted, and the two
\* kinds of prompts exclude each other.
Asked ==
    /\ since # Never <=> hostKey \in {"begun", "asking", "ending"} \/ prompting
    /\ pending <=> hostKey = "asking" \/ prompting
    /\ prompting => hostKey = "decided"
    /\ since # Never => since <= now
    /\ hostKey = "begun" => since = now
    /\ hostKey = "ending" => answered = now

\* UserWait accounts for exactly the time the user was asked.
Accounted == userTime = completed + Running

\* Reads of total() lag behind, but only by a wait that ended just now.
Lagging ==
    /\ loop \in {"armTotal", "wokenTotal"} =>
         /\ total <= completed
         /\ total < completed => answered = now
    /\ loop \in {"check", "timeout"} => total = userTime \/ answered = now

\* The deadline stays behind the time accounted for, and a wait never begins
\* later than the deadline without it, plus the lateness of the timer.
Bounded ==
    /\ deadline <= Timeout + AtMost(userTime, MaxWait)
    /\ now <= Timeout + MaxWait + Late
    /\ since = Never => now <= Timeout + completed + Late
    /\ since # Never => since <= Timeout + completed + Late

\* A timeout is a fact about the total that was read last.
Decided ==
    loop = "timeout" =>
        now >= Timeout + AtMost(total, MaxWait) \/ answered = now

DeadlineInv == DeadlineTypeOK /\ Asked /\ Accounted /\ Lagging /\ Bounded /\ Decided

\* The initial state satisfies the invariant.
LEMMA InitDeadlineInv == DeadlineInit => DeadlineInv
<1> SUFFICES ASSUME DeadlineInit PROVE DeadlineInv
  OBVIOUS
<1> USE TimesAssumption, PromptsAssumption DEF DeadlineInit
<1>1. DeadlineTypeOK
  <2>1. prompts \in 0..MaxPrompts
    OBVIOUS
  <2> QED
    BY <2>1 DEF DeadlineTypeOK, LoopPC, HostKeyPC
<1>2. Asked
  <2>1. /\ since = Never
        /\ hostKey = "unseen"
        /\ ~prompting /\ ~pending
    OBVIOUS
  <2> QED
    BY <2>1 DEF Asked
<1>3. Accounted /\ Lagging /\ Bounded /\ Decided
  BY DEF Accounted, Lagging, Bounded, Decided, Running, AtMost
<1> QED
  BY <1>1, <1>2, <1>3 DEF DeadlineInv

\* begin() and end() keep who is asked, the flag and the instant in step.
LEMMA NextAsked ==
  DeadlineTypeOK /\ Asked /\ [DeadlineNext]_deadlineVars => Asked'
<1> SUFFICES ASSUME DeadlineTypeOK /\ Asked,
                    [DeadlineNext]_deadlineVars
             PROVE Asked'
  OBVIOUS
<1> USE TimesAssumption, PromptsAssumption
    DEF DeadlineTypeOK, Asked, Accounted, Lagging, Bounded, Decided, Running, AtMost,
        WithPending, Never, LoopPC, HostKeyPC, Ended, LoopGoes, HostKeyGoes,
        AddWaited, GoesRound, StillWaiting, waitVars, loopVars, keyVars, kbiVars
<1>1. CASE ReadsCompleted BY <1>1 DEF ReadsCompleted
<1>2. CASE Arms BY <1>2 DEF Arms
<1>3. CASE TimerFires BY <1>3 DEF TimerFires
<1>4. CASE ReadsPending BY <1>4 DEF ReadsPending
<1>5. CASE Continues BY <1>5 DEF Continues
<1>6. CASE TimesOut BY <1>6 DEF TimesOut
<1>7. CASE FutureReturns BY <1>7 DEF FutureReturns
<1>8. CASE HostKeyBegins BY <1>8 DEF HostKeyBegins
<1>9. CASE HostKeyAsks BY <1>9 DEF HostKeyAsks
<1>10. CASE HostKeyAnswered BY <1>10 DEF HostKeyAnswered
<1>11. CASE HostKeyCounts BY <1>11 DEF HostKeyCounts
<1>12. CASE KbiBegins BY <1>12 DEF KbiBegins
<1>13. CASE KbiEnds BY <1>13 DEF KbiEnds
<1>14. CASE Tick BY <1>14 DEF Tick
<1>15. CASE UNCHANGED deadlineVars BY <1>15 DEF deadlineVars
<1> QED
  BY <1>1, <1>2, <1>3, <1>4, <1>5, <1>6, <1>7, <1>8, <1>9, <1>10, <1>11, <1>12,
     <1>13, <1>14, <1>15
  DEF DeadlineNext, LoopSteps, UserWaitSteps

\* Every step keeps the types; no wait is negative.
LEMMA NextDeadlineTypeOK ==
  DeadlineTypeOK /\ Asked /\ [DeadlineNext]_deadlineVars => DeadlineTypeOK'
<1> SUFFICES ASSUME DeadlineTypeOK /\ Asked,
                    [DeadlineNext]_deadlineVars
             PROVE DeadlineTypeOK'
  OBVIOUS
<1> USE TimesAssumption, PromptsAssumption
    DEF DeadlineTypeOK, Asked, Accounted, Lagging, Bounded, Decided, Running, AtMost,
        WithPending, Never, LoopPC, HostKeyPC, Ended, LoopGoes, HostKeyGoes,
        AddWaited, GoesRound, StillWaiting, waitVars, loopVars, keyVars, kbiVars
<1>1. CASE ReadsCompleted BY <1>1 DEF ReadsCompleted
<1>2. CASE Arms BY <1>2 DEF Arms
<1>3. CASE TimerFires BY <1>3 DEF TimerFires
<1>4. CASE ReadsPending BY <1>4 DEF ReadsPending
<1>5. CASE Continues BY <1>5 DEF Continues
<1>6. CASE TimesOut BY <1>6 DEF TimesOut
<1>7. CASE FutureReturns BY <1>7 DEF FutureReturns
<1>8. CASE HostKeyBegins BY <1>8 DEF HostKeyBegins
<1>9. CASE HostKeyAsks BY <1>9 DEF HostKeyAsks
<1>10. CASE HostKeyAnswered BY <1>10 DEF HostKeyAnswered
<1>11. CASE HostKeyCounts BY <1>11 DEF HostKeyCounts
<1>12. CASE KbiBegins BY <1>12 DEF KbiBegins
<1>13. CASE KbiEnds
  <2>1. since # Never /\ since \in Nat /\ since <= now
    BY <1>13 DEF KbiEnds
  <2>2. completed' = completed + (now - since) /\ since' = Never
    BY <1>13, <2>1 DEF KbiEnds
  <2>3. completed' \in Nat
    BY <2>1, <2>2
  <2> QED
    BY <1>13, <2>2, <2>3 DEF KbiEnds
<1>14. CASE Tick BY <1>14 DEF Tick
<1>15. CASE UNCHANGED deadlineVars BY <1>15 DEF deadlineVars
<1> QED
  BY <1>1, <1>2, <1>3, <1>4, <1>5, <1>6, <1>7, <1>8, <1>9, <1>10, <1>11, <1>12,
     <1>13, <1>14, <1>15
  DEF DeadlineNext, LoopSteps, UserWaitSteps

\* Time is accounted for as it passes, and end() only moves it.
LEMMA NextAccounted ==
  DeadlineTypeOK /\ Asked /\ Accounted /\ [DeadlineNext]_deadlineVars => Accounted'
<1> SUFFICES ASSUME DeadlineTypeOK /\ Asked /\ Accounted,
                    [DeadlineNext]_deadlineVars
             PROVE Accounted'
  OBVIOUS
<1> USE TimesAssumption, PromptsAssumption
    DEF DeadlineTypeOK, Asked, Accounted, Lagging, Bounded, Decided, Running, AtMost,
        WithPending, Never, LoopPC, HostKeyPC, Ended, LoopGoes, HostKeyGoes,
        AddWaited, GoesRound, StillWaiting, waitVars, loopVars, keyVars, kbiVars
<1>1. CASE ReadsCompleted BY <1>1 DEF ReadsCompleted
<1>2. CASE Arms BY <1>2 DEF Arms
<1>3. CASE TimerFires BY <1>3 DEF TimerFires
<1>4. CASE ReadsPending BY <1>4 DEF ReadsPending
<1>5. CASE Continues BY <1>5 DEF Continues
<1>6. CASE TimesOut BY <1>6 DEF TimesOut
<1>7. CASE FutureReturns BY <1>7 DEF FutureReturns
<1>8. CASE HostKeyBegins BY <1>8 DEF HostKeyBegins
<1>9. CASE HostKeyAsks BY <1>9 DEF HostKeyAsks
<1>10. CASE HostKeyAnswered BY <1>10 DEF HostKeyAnswered
<1>11. CASE HostKeyCounts BY <1>11 DEF HostKeyCounts
<1>12. CASE KbiBegins BY <1>12 DEF KbiBegins
<1>13. CASE KbiEnds BY <1>13 DEF KbiEnds
<1>14. CASE Tick BY <1>14 DEF Tick
<1>15. CASE UNCHANGED deadlineVars BY <1>15 DEF deadlineVars
<1> QED
  BY <1>1, <1>2, <1>3, <1>4, <1>5, <1>6, <1>7, <1>8, <1>9, <1>10, <1>11, <1>12,
     <1>13, <1>14, <1>15
  DEF DeadlineNext, LoopSteps, UserWaitSteps

\* A read of total() misses nothing but a wait that ends at that instant.
LEMMA NextLagging ==
  DeadlineTypeOK /\ Asked /\ Accounted /\ Lagging /\ [DeadlineNext]_deadlineVars => Lagging'
<1> SUFFICES ASSUME DeadlineTypeOK /\ Asked /\ Accounted /\ Lagging,
                    [DeadlineNext]_deadlineVars
             PROVE Lagging'
  OBVIOUS
<1> USE TimesAssumption, PromptsAssumption
    DEF DeadlineTypeOK, Asked, Accounted, Lagging, Bounded, Decided, Running, AtMost,
        WithPending, Never, LoopPC, HostKeyPC, Ended, LoopGoes, HostKeyGoes,
        AddWaited, GoesRound, StillWaiting, waitVars, loopVars, keyVars, kbiVars
<1>1. CASE ReadsCompleted BY <1>1 DEF ReadsCompleted
<1>2. CASE Arms BY <1>2 DEF Arms
<1>3. CASE TimerFires BY <1>3 DEF TimerFires
<1>4. CASE ReadsPending BY <1>4 DEF ReadsPending
<1>5. CASE Continues BY <1>5 DEF Continues
<1>6. CASE TimesOut BY <1>6 DEF TimesOut
<1>7. CASE FutureReturns BY <1>7 DEF FutureReturns
<1>8. CASE HostKeyBegins BY <1>8 DEF HostKeyBegins
<1>9. CASE HostKeyAsks BY <1>9 DEF HostKeyAsks
<1>10. CASE HostKeyAnswered BY <1>10 DEF HostKeyAnswered
<1>11. CASE HostKeyCounts BY <1>11 DEF HostKeyCounts
<1>12. CASE KbiBegins BY <1>12 DEF KbiBegins
<1>13. CASE KbiEnds BY <1>13 DEF KbiEnds
<1>14. CASE Tick BY <1>14 DEF Tick
<1>15. CASE UNCHANGED deadlineVars BY <1>15 DEF deadlineVars
<1> QED
  BY <1>1, <1>2, <1>3, <1>4, <1>5, <1>6, <1>7, <1>8, <1>9, <1>10, <1>11, <1>12,
     <1>13, <1>14, <1>15
  DEF DeadlineNext, LoopSteps, UserWaitSteps

\* Neither a step of the loop nor time moves anything beyond the ceiling.
LEMMA NextBounded ==
  DeadlineTypeOK /\ Asked /\ Accounted /\ Lagging /\ Bounded /\
    [DeadlineNext]_deadlineVars => Bounded'
<1> SUFFICES ASSUME DeadlineTypeOK /\ Asked /\ Accounted /\ Lagging /\ Bounded,
                    [DeadlineNext]_deadlineVars
             PROVE Bounded'
  OBVIOUS
<1> USE TimesAssumption, PromptsAssumption
    DEF DeadlineTypeOK, Asked, Accounted, Lagging, Bounded, Decided, Running, AtMost,
        WithPending, Never, LoopPC, HostKeyPC, Ended, LoopGoes, HostKeyGoes,
        AddWaited, GoesRound, StillWaiting, waitVars, loopVars, keyVars, kbiVars
<1>1. CASE ReadsCompleted BY <1>1 DEF ReadsCompleted
<1>2. CASE Arms BY <1>2 DEF Arms
<1>3. CASE TimerFires BY <1>3 DEF TimerFires
<1>4. CASE ReadsPending BY <1>4 DEF ReadsPending
<1>5. CASE Continues BY <1>5 DEF Continues
<1>6. CASE TimesOut BY <1>6 DEF TimesOut
<1>7. CASE FutureReturns BY <1>7 DEF FutureReturns
<1>8. CASE HostKeyBegins BY <1>8 DEF HostKeyBegins
<1>9. CASE HostKeyAsks BY <1>9 DEF HostKeyAsks
<1>10. CASE HostKeyAnswered BY <1>10 DEF HostKeyAnswered
<1>11. CASE HostKeyCounts BY <1>11 DEF HostKeyCounts
<1>12. CASE KbiBegins BY <1>12 DEF KbiBegins
<1>13. CASE KbiEnds BY <1>13 DEF KbiEnds
<1>14. CASE Tick BY <1>14 DEF Tick
<1>15. CASE UNCHANGED deadlineVars BY <1>15 DEF deadlineVars
<1> QED
  BY <1>1, <1>2, <1>3, <1>4, <1>5, <1>6, <1>7, <1>8, <1>9, <1>10, <1>11, <1>12,
     <1>13, <1>14, <1>15
  DEF DeadlineNext, LoopSteps, UserWaitSteps

\* A timeout is decided by the total that was read, and stays so.
LEMMA NextDecided ==
  DeadlineTypeOK /\ Asked /\ Decided /\ [DeadlineNext]_deadlineVars => Decided'
<1> SUFFICES ASSUME DeadlineTypeOK /\ Asked /\ Decided,
                    [DeadlineNext]_deadlineVars
             PROVE Decided'
  OBVIOUS
<1> USE TimesAssumption, PromptsAssumption
    DEF DeadlineTypeOK, Asked, Accounted, Lagging, Bounded, Decided, Running, AtMost,
        WithPending, Never, LoopPC, HostKeyPC, Ended, LoopGoes, HostKeyGoes,
        AddWaited, GoesRound, StillWaiting, waitVars, loopVars, keyVars, kbiVars
<1>1. CASE ReadsCompleted BY <1>1 DEF ReadsCompleted
<1>2. CASE Arms BY <1>2 DEF Arms
<1>3. CASE TimerFires BY <1>3 DEF TimerFires
<1>4. CASE ReadsPending BY <1>4 DEF ReadsPending
<1>5. CASE Continues BY <1>5 DEF Continues
<1>6. CASE TimesOut BY <1>6 DEF TimesOut
<1>7. CASE FutureReturns BY <1>7 DEF FutureReturns
<1>8. CASE HostKeyBegins BY <1>8 DEF HostKeyBegins
<1>9. CASE HostKeyAsks BY <1>9 DEF HostKeyAsks
<1>10. CASE HostKeyAnswered BY <1>10 DEF HostKeyAnswered
<1>11. CASE HostKeyCounts BY <1>11 DEF HostKeyCounts
<1>12. CASE KbiBegins BY <1>12 DEF KbiBegins
<1>13. CASE KbiEnds BY <1>13 DEF KbiEnds
<1>14. CASE Tick BY <1>14 DEF Tick
<1>15. CASE UNCHANGED deadlineVars BY <1>15 DEF deadlineVars
<1> QED
  BY <1>1, <1>2, <1>3, <1>4, <1>5, <1>6, <1>7, <1>8, <1>9, <1>10, <1>11, <1>12,
     <1>13, <1>14, <1>15
  DEF DeadlineNext, LoopSteps, UserWaitSteps

\* The invariant behind the theorems below holds in every run.
THEOREM DeadlineInvariance == DeadlineSpec => []DeadlineInv
<1>1. DeadlineInv /\ [DeadlineNext]_deadlineVars => DeadlineInv'
  BY NextDeadlineTypeOK, NextAsked, NextAccounted, NextLagging, NextBounded, NextDecided
  DEF DeadlineInv
<1> QED
  BY InitDeadlineInv, <1>1, PTL DEF DeadlineSpec

\* Every variable keeps its type; in particular no wait of the user is negative.
THEOREM DeadlineTypeCorrect == DeadlineSpec => []DeadlineTypeOK
<1>1. DeadlineInv => DeadlineTypeOK
  BY DEF DeadlineInv
<1> QED
  BY DeadlineInvariance, <1>1, PTL

\* No attempt of connect() is open later than its timeout plus the longest wait
\* for the user, plus the lateness of a timer, whatever is asked when.
THEOREM CeilingHolds == DeadlineSpec => []HardCeiling
<1>1. DeadlineInv => HardCeiling
  BY DEF DeadlineInv, Bounded, HardCeiling
<1> QED
  BY DeadlineInvariance, <1>1, PTL

\* The deadline never moves by more than the user was really asked: no interleaving
\* of total() with begin() and end() counts a wait twice.
THEOREM NothingCountedTwice == DeadlineSpec => []NoOvercount
<1>1. DeadlineInv => NoOvercount
  BY DEF DeadlineInv, Bounded, NoOvercount
<1> QED
  BY DeadlineInvariance, <1>1, PTL

\* An attempt that times out early does so in the instant the host key is decided:
\* the gap between the two reads of total() is the only one.
THEOREM EarlyOnlyThen == DeadlineSpec => []EarlyOnlyAtAnswer
<1>1. DeadlineInv => EarlyOnlyAtAnswer
  BY TimesAssumption DEF DeadlineInv, DeadlineTypeOK, Lagging, Decided,
     EarlyOnlyAtAnswer, AtMost
<1> QED
  BY DeadlineInvariance, <1>1, PTL
=============================================================================
