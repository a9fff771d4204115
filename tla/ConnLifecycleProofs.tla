------------------------ MODULE ConnLifecycleProofs ------------------------
(***************************************************************************)
(* Proofs about ConnLifecycle, for any set of app calls and any cap on the *)
(* rounds of prompts.                                                      *)
(***************************************************************************)
EXTENDS ConnLifecycle, TLAPS

----------------------------------------------------------------------------
(* Type correctness *)

\* TypeOK bounds the rounds; it is inductive with the guard a prompt passed.
RoundsOpen == task \in {"kbiStored", "kbiWait"} => local.rounds < KbiRounds
TypeInv == TypeOK /\ RoundsOpen

\* The initial state has the types and opens the first round.
LEMMA InitTypeInv == Init => TypeInv
<1> SUFFICES ASSUME Init PROVE TypeInv
  OBVIOUS
<1>1. local \in [result : {"none", "ok", "err"}, wanted : BOOLEAN,
                raced : BOOLEAN, rounds : 0..KbiRounds]
  BY KbiRoundsAssumption DEF Init
<1>2. call \in [Calls -> CallPC]
  BY DEF Init, CallPC
<1>3. task \in TaskPC /\ session \in SessionPC
  BY DEF Init, TaskPC, SessionPC
<1>4. cb \in [Callbacks -> Nat]
  BY DEF Init
<1>5. rx \in [Prompts -> {"none", "waiting", "answer", "refuse"}]
  BY DEF Init
<1> QED
  BY <1>1, <1>2, <1>3, <1>4, <1>5 DEF Init, TypeInv, TypeOK, RoundsOpen

\* Every step of the task of rnssh_connect keeps the types.
LEMMA ConnectTaskTypeInv == TypeInv /\ ConnectTask => TypeInv'
<1> SUFFICES ASSUME TypeInv, ConnectTask PROVE TypeInv'
  OBVIOUS
<1> USE KbiRoundsAssumption
    DEF TypeInv, RoundsOpen, TypeOK, Maps, Prompts, Callbacks, TaskPC, Awaiting, SessionPC, CallPC,
        CancelOwns, Evicting, regVars, taskVars, wireVars, appVars, Polled,
        Return, Deliver, Store
<1>1. CASE DialOk BY <1>1 DEF DialOk
<1>2. CASE HandshakeOk BY <1>2 DEF HandshakeOk
<1>3. CASE AuthOk BY <1>3 DEF AuthOk
<1>4. CASE KbiStore BY <1>4 DEF KbiStore
<1>5. CASE KbiCall BY <1>5 DEF KbiCall
<1>6. CASE KbiAnswered BY <1>6 DEF KbiAnswered
<1>7. CASE ConnectFails BY <1>7 DEF ConnectFails
<1>8. CASE ConnectTimeout BY <1>8 DEF ConnectTimeout
<1>9. CASE ConnectStores BY <1>9 DEF ConnectStores
<1>10. CASE TaskAborted BY <1>10 DEF TaskAborted
<1>11. CASE TaskUnlists BY <1>11 DEF TaskUnlists
<1>12. CASE TaskClaims
  <2> DEFINE w == "connecting" \in reg
  <2>1. w \in BOOLEAN
    OBVIOUS
  <2>2. local' = [local EXCEPT !.wanted = w]
    BY <1>12 DEF TaskClaims
  <2> HIDE DEF w
  <2> QED
    BY <1>12, <2>1, <2>2 DEF TaskClaims
<1>13. CASE TaskReadsCancel
  <2> DEFINE r == "cancelled" \in reg
  <2>1. r \in BOOLEAN
    OBVIOUS
  <2>2. local' = [local EXCEPT !.raced = r]
    BY <1>13 DEF TaskReadsCancel
  <2> HIDE DEF r
  <2> QED
    BY <1>13, <2>1, <2>2 DEF TaskReadsCancel
<1>14. CASE TaskGivesUp BY <1>14 DEF TaskGivesUp
<1>15. CASE TaskUnwanted BY <1>15 DEF TaskUnwanted
<1>16. CASE TaskInserts BY <1>16 DEF TaskInserts
<1>17. CASE TaskAnnounces BY <1>17 DEF TaskAnnounces
<1>18. CASE TaskFails BY <1>18 DEF TaskFails
<1>19. CASE TaskByeSwap BY <1>19, ZenonT(60) DEF TaskByeSwap, AfterBye
<1>20. CASE TaskByeSend BY <1>20 DEF TaskByeSend, AfterBye
<1> QED
  BY <1>1, <1>2, <1>3, <1>4, <1>5, <1>6, <1>7, <1>8, <1>9, <1>10, <1>11,
     <1>12, <1>13, <1>14, <1>15, <1>16, <1>17, <1>18, <1>19, <1>20
  DEF ConnectTask

\* Every step of the session task (Handler) keeps the types.
LEMMA SessionTaskTypeInv == TypeInv /\ SessionTask => TypeInv'
<1> SUFFICES ASSUME TypeInv, SessionTask PROVE TypeInv'
  OBVIOUS
<1> USE DEF TypeInv, RoundsOpen, TypeOK, Prompts, Callbacks, SessionPC, regVars,
        taskVars, appVars, Deliver, Store, SessionGoes
<1>1. CASE KeyRefusedUnseen BY <1>1 DEF KeyRefusedUnseen
<1>2. CASE KeyStore BY <1>2 DEF KeyStore
<1>3. CASE KeyCall BY <1>3 DEF KeyCall
<1>4. CASE KeyDecided BY <1>4 DEF KeyDecided
<1>5. CASE TransportLost BY <1>5 DEF TransportLost
<1>6. CASE SessionDismissed BY <1>6 DEF SessionDismissed
<1>7. CASE SessionSwap BY <1>7 DEF SessionSwap
<1>8. CASE SessionUnregisters BY <1>8 DEF SessionUnregisters
<1>9. CASE SessionReports BY <1>9 DEF SessionReports
<1> QED
  BY <1>1, <1>2, <1>3, <1>4, <1>5, <1>6, <1>7, <1>8, <1>9 DEF SessionTask

\* Every step of a cancel or disconnect of the app keeps the types.
LEMMA AppCallTypeInv == ASSUME TypeInv, NEW c \in Calls, AppCall(c) PROVE TypeInv'
<1> USE DEF TypeInv, RoundsOpen, TypeOK, Maps, Prompts, Callbacks, CallPC, CancelOwns,
        Evicting, regVars, taskVars, wireVars, CallGoes, Deliver, Resolve
<1>1. CASE CancelFlags(c) BY <1>1 DEF CancelFlags
<1>2. CASE CancelClaims(c) BY <1>2 DEF CancelClaims
<1>3. CASE CancelUnflags(c) BY <1>3 DEF CancelUnflags
<1>4. CASE CancelUnblocks(c)
  <2>1. CASE "pending" \in reg
    <3>1. rx' \in [Prompts -> {"none", "waiting", "answer", "refuse"}]
      BY <1>4, <2>1 DEF CancelUnblocks
    <3>2. slots' \in SUBSET Prompts /\ aborted' = TRUE
      BY <1>4, <2>1 DEF CancelUnblocks
    <3> QED
      BY <1>4, <3>1, <3>2 DEF CancelUnblocks
  <2>2. CASE "pending" \notin reg
    BY <1>4, <2>2 DEF CancelUnblocks
  <2> QED
    BY <2>1, <2>2
<1>5. CASE CancelReports(c) BY <1>5 DEF CancelReports
<1>6. CASE CancelDrops(c) BY <1>6 DEF CancelDrops
<1>7. CASE CancelEvicts(c) BY <1>7 DEF CancelEvicts
<1>8. CASE CancelSpawnsBye(c) BY <1>8 DEF CancelSpawnsBye
<1>9. CASE DisconnectEvicts(c) BY <1>9 DEF DisconnectEvicts
<1>10. CASE DisconnectUnlists(c) BY <1>10 DEF DisconnectUnlists
<1>11. CASE ByeSwap(c) BY <1>11 DEF ByeSwap
<1>12. CASE ByeSend(c) BY <1>12 DEF ByeSend
<1>13. CASE ByeDrop(c) BY <1>13 DEF ByeDrop
<1> QED
  BY <1>1, <1>2, <1>3, <1>4, <1>5, <1>6, <1>7, <1>8, <1>9, <1>10, <1>11,
     <1>12, <1>13
  DEF AppCall, CallSteps

\* Every step of the system keeps the types.
LEMMA NextTypeInv == TypeInv /\ [Next]_vars => TypeInv'
<1> SUFFICES ASSUME TypeInv, [Next]_vars PROVE TypeInv'
  OBVIOUS
<1>1. CASE Connect
  BY <1>1 DEF Connect, TypeInv, RoundsOpen, TypeOK, Maps, TaskPC, Awaiting,
      wireVars, appVars
<1>2. ASSUME NEW p \in Prompts, Respond(p) PROVE TypeInv'
  BY <1>2 DEF Respond, Resolve, TypeInv, RoundsOpen, TypeOK, Prompts, taskVars,
      wireVars, appVars
<1>3. CASE UNCHANGED vars
  BY <1>3 DEF vars, TypeInv, RoundsOpen, TypeOK, regVars, taskVars, wireVars, appVars
<1> QED
  BY <1>1, <1>2, <1>3, ConnectTaskTypeInv, SessionTaskTypeInv, AppCallTypeInv DEF Next

\* The inductive form of type correctness holds in every run.
THEOREM TypeInvariant == Spec => []TypeInv
<1> QED
  BY InitTypeInv, NextTypeInv, PTL DEF Spec

\* Every variable keeps its type in every run, for any set of overlapping app
\* calls and any cap on the prompt rounds.
THEOREM TypeCorrect == Spec => []TypeOK
<1>1. TypeInv => TypeOK
  BY DEF TypeInv
<1> QED
  BY <1>1, TypeInvariant, PTL

----------------------------------------------------------------------------
(* The terminal callback: a right that exactly one actor holds             *)

Terminals == cb["connected"] + cb["error"]

\* The connect task removed the connecting entry and has not called back yet.
TaskOwns ==
    /\ local.wanted
    /\ task \in {"claimed", "decide", "byeSwap", "byeSend", "raceError", "announce"}

CallOwns(c) == call[c] \in CancelOwns

\* Whoever removes the connecting entry holds the right; before Connect nobody
\* does; while anybody does, no terminal callback was delivered.
Arbiter ==
    /\ task = "idle" => Terminals = 0 /\ reg = {} /\ \A c \in Calls : call[c] = "idle"
    /\ task \in {"raceError", "announce"} => local.wanted
    /\ "connecting" \in reg => ~TaskOwns /\ \A c \in Calls : ~CallOwns(c)
    /\ TaskOwns => \A c \in Calls : ~CallOwns(c)
    /\ \A c, d \in Calls : CallOwns(c) /\ CallOwns(d) => c = d
    /\ ("connecting" \in reg \/ TaskOwns \/ \E c \in Calls : CallOwns(c)) => Terminals = 0
    /\ Terminals <= 1

----------------------------------------------------------------------------
(* The connected flag: whoever swaps it from true speaks for the transport *)

\* Connection::connect has not stored the flag yet.
Early == Awaiting \union {"idle", "kbiStored", "authed"}

\* An app-side disconnect won the swap.
AppWon == byeSent \/ task = "byeSend" \/ \E c \in Calls : call[c] = "byeSend"
\* The session won the swap.
SessionWon == session \in {"reporting", "announcing"} \/ cb["disconnected"] > 0

FlagRight ==
    /\ task \in Early \union {"returned", "unlisted", "claimed", "decide",
                              "byeSwap", "byeSend", "raceError"}
         => /\ "connections" \notin reg
            /\ cb["connected"] = 0
            /\ \A c \in Calls : call[c] \notin Evicting \union {"noEntry"}
    /\ task \in Early => ~connected /\ ~AppWon /\ ~SessionWon
    /\ connected => ~AppWon /\ ~SessionWon
    /\ ~(AppWon /\ SessionWon)
    /\ cb["disconnected"] > 0 => session = "gone"
    /\ cb["disconnected"] <= 1
    /\ task = "byeSend" => ~byeSent /\ \A c \in Calls : call[c] # "byeSend"

----------------------------------------------------------------------------
(* Prompts *)

\* A receiver that waits has its sender in the slot, and until connect()
\* returned only a cancel that claimed the attempt unlists the id.
PromptRight ==
    /\ \A p \in Prompts : rx[p] = "waiting" => p \in slots
    /\ task \in Awaiting \union {"kbiStored", "authed"} /\ "connecting" \in reg
         => "pending" \in reg

\* The task of rnssh_connect keeps Arbiter: it speaks only with the entry claimed.
LEMMA ConnectTaskArbiter == TypeInv /\ Arbiter /\ ConnectTask => Arbiter'
<1> SUFFICES ASSUME TypeInv /\ Arbiter, ConnectTask PROVE Arbiter'
  OBVIOUS
<1> USE DEF Arbiter, Terminals, TaskOwns, CallOwns, CancelOwns, TypeInv, TypeOK, Maps, Prompts, Callbacks, regVars, taskVars, wireVars, appVars,
        Polled, Return, Deliver, SessionGoes, CallGoes
<1>1. CASE DialOk BY <1>1 DEF DialOk
<1>2. CASE HandshakeOk BY <1>2 DEF HandshakeOk
<1>3. CASE AuthOk BY <1>3 DEF AuthOk
<1>4. CASE KbiStore BY <1>4 DEF KbiStore
<1>5. CASE KbiCall BY <1>5 DEF KbiCall
<1>6. CASE KbiAnswered BY <1>6 DEF KbiAnswered
<1>7. CASE ConnectFails BY <1>7 DEF ConnectFails
<1>8. CASE ConnectTimeout BY <1>8 DEF ConnectTimeout
<1>9. CASE ConnectStores BY <1>9 DEF ConnectStores
<1>10. CASE TaskAborted BY <1>10 DEF TaskAborted
<1>11. CASE TaskUnlists BY <1>11 DEF TaskUnlists
<1>12. CASE TaskClaims BY <1>12 DEF TaskClaims
<1>13. CASE TaskReadsCancel BY <1>13 DEF TaskReadsCancel
<1>14. CASE TaskGivesUp BY <1>14 DEF TaskGivesUp
<1>15. CASE TaskUnwanted BY <1>15 DEF TaskUnwanted
<1>16. CASE TaskInserts BY <1>16 DEF TaskInserts
<1>17. CASE TaskAnnounces BY <1>17 DEF TaskAnnounces
<1>18. CASE TaskFails BY <1>18 DEF TaskFails
<1>19. CASE TaskByeSwap BY <1>19 DEF TaskByeSwap, AfterBye
<1>20. CASE TaskByeSend BY <1>20 DEF TaskByeSend, AfterBye
<1> QED
  BY <1>1, <1>2, <1>3, <1>4, <1>5, <1>6, <1>7, <1>8, <1>9, <1>10, <1>11,
     <1>12, <1>13, <1>14, <1>15, <1>16, <1>17, <1>18, <1>19, <1>20
  DEF ConnectTask

\* The session task does not touch what Arbiter relates.
LEMMA SessionTaskArbiter == TypeInv /\ Arbiter /\ SessionTask => Arbiter'
<1> SUFFICES ASSUME TypeInv /\ Arbiter, SessionTask PROVE Arbiter'
  OBVIOUS
<1> USE DEF Arbiter, Terminals, TaskOwns, CallOwns, CancelOwns, TypeInv, TypeOK, Maps, Prompts, Callbacks, regVars, taskVars, wireVars, appVars,
        Polled, Return, Deliver, SessionGoes, CallGoes
<1>1. CASE KeyRefusedUnseen BY <1>1 DEF KeyRefusedUnseen
<1>2. CASE KeyStore BY <1>2 DEF KeyStore
<1>3. CASE KeyCall BY <1>3 DEF KeyCall
<1>4. CASE KeyDecided BY <1>4 DEF KeyDecided
<1>5. CASE TransportLost BY <1>5 DEF TransportLost
<1>6. CASE SessionDismissed BY <1>6 DEF SessionDismissed
<1>7. CASE SessionSwap BY <1>7 DEF SessionSwap
<1>8. CASE SessionUnregisters BY <1>8 DEF SessionUnregisters
<1>9. CASE SessionReports BY <1>9 DEF SessionReports
<1> QED
  BY <1>1, <1>2, <1>3, <1>4, <1>5, <1>6, <1>7, <1>8, <1>9
  DEF SessionTask

\* A cancel keeps Arbiter: it speaks only with the entry claimed.
LEMMA AppCallArbiter == ASSUME TypeInv /\ Arbiter, NEW c \in Calls, AppCall(c) PROVE Arbiter'
<1> USE DEF Arbiter, Terminals, TaskOwns, CallOwns, CancelOwns, TypeInv, TypeOK, Maps, Prompts, Callbacks, regVars, taskVars, wireVars, appVars,
        Polled, Return, Deliver, SessionGoes, CallGoes
<1>1. CASE CancelFlags(c) BY <1>1 DEF CancelFlags
<1>2. CASE CancelClaims(c) BY <1>2 DEF CancelClaims
<1>3. CASE CancelUnflags(c) BY <1>3 DEF CancelUnflags
<1>4. CASE CancelUnblocks(c) BY <1>4 DEF CancelUnblocks
<1>5. CASE CancelReports(c) BY <1>5 DEF CancelReports
<1>6. CASE CancelDrops(c) BY <1>6 DEF CancelDrops
<1>7. CASE CancelEvicts(c) BY <1>7 DEF CancelEvicts
<1>8. CASE CancelSpawnsBye(c) BY <1>8 DEF CancelSpawnsBye
<1>9. CASE DisconnectEvicts(c) BY <1>9 DEF DisconnectEvicts
<1>10. CASE DisconnectUnlists(c) BY <1>10 DEF DisconnectUnlists
<1>11. CASE ByeSwap(c) BY <1>11 DEF ByeSwap
<1>12. CASE ByeSend(c) BY <1>12 DEF ByeSend
<1>13. CASE ByeDrop(c) BY <1>13 DEF ByeDrop
<1> QED
  BY <1>1, <1>2, <1>3, <1>4, <1>5, <1>6, <1>7, <1>8, <1>9, <1>10, <1>11,
     <1>12, <1>13
  DEF AppCall, CallSteps

\* Every step keeps Arbiter.
LEMMA NextArbiter == TypeInv /\ Arbiter /\ [Next]_vars => Arbiter'
<1> SUFFICES ASSUME TypeInv /\ Arbiter, [Next]_vars PROVE Arbiter'
  OBVIOUS
<1> USE DEF Arbiter, Terminals, TaskOwns, CallOwns, CancelOwns, TypeInv, TypeOK, Maps, Prompts, Callbacks, regVars, taskVars, wireVars, appVars,
        Polled, Return, Deliver, SessionGoes, CallGoes
<1>1. CASE Connect BY <1>1 DEF Connect
<1>2. ASSUME NEW p \in Prompts, Respond(p) PROVE Arbiter'
  BY <1>2 DEF Respond
<1>3. CASE UNCHANGED vars BY <1>3 DEF vars
<1> QED
  BY <1>1, <1>2, <1>3, ConnectTaskArbiter, SessionTaskArbiter, AppCallArbiter DEF Next

\* The task of rnssh_connect keeps FlagRight: it stores the flag once and swaps it to say good-bye.
LEMMA ConnectTaskFlagRight == TypeInv /\ FlagRight /\ ConnectTask => FlagRight'
<1> SUFFICES ASSUME TypeInv /\ FlagRight, ConnectTask PROVE FlagRight'
  OBVIOUS
<1> USE DEF FlagRight, Early, AppWon, SessionWon, Awaiting, Evicting, TypeInv, TypeOK, Maps, Prompts, Callbacks, regVars, taskVars, wireVars, appVars,
        Polled, Return, Deliver, SessionGoes, CallGoes
<1>1. CASE DialOk BY <1>1 DEF DialOk
<1>2. CASE HandshakeOk BY <1>2 DEF HandshakeOk
<1>3. CASE AuthOk BY <1>3 DEF AuthOk
<1>4. CASE KbiStore BY <1>4 DEF KbiStore
<1>5. CASE KbiCall BY <1>5 DEF KbiCall
<1>6. CASE KbiAnswered BY <1>6 DEF KbiAnswered
<1>7. CASE ConnectFails BY <1>7 DEF ConnectFails
<1>8. CASE ConnectTimeout BY <1>8 DEF ConnectTimeout
<1>9. CASE ConnectStores BY <1>9 DEF ConnectStores
<1>10. CASE TaskAborted BY <1>10 DEF TaskAborted
<1>11. CASE TaskUnlists BY <1>11 DEF TaskUnlists
<1>12. CASE TaskClaims BY <1>12 DEF TaskClaims
<1>13. CASE TaskReadsCancel BY <1>13 DEF TaskReadsCancel
<1>14. CASE TaskGivesUp BY <1>14 DEF TaskGivesUp
<1>15. CASE TaskUnwanted BY <1>15 DEF TaskUnwanted
<1>16. CASE TaskInserts BY <1>16 DEF TaskInserts
<1>17. CASE TaskAnnounces BY <1>17 DEF TaskAnnounces
<1>18. CASE TaskFails BY <1>18 DEF TaskFails
<1>19. CASE TaskByeSwap BY <1>19 DEF TaskByeSwap, AfterBye
<1>20. CASE TaskByeSend BY <1>20 DEF TaskByeSend, AfterBye
<1> QED
  BY <1>1, <1>2, <1>3, <1>4, <1>5, <1>6, <1>7, <1>8, <1>9, <1>10, <1>11,
     <1>12, <1>13, <1>14, <1>15, <1>16, <1>17, <1>18, <1>19, <1>20
  DEF ConnectTask

\* The session task keeps FlagRight: it reports only what its swap took.
LEMMA SessionTaskFlagRight == TypeInv /\ FlagRight /\ SessionTask => FlagRight'
<1> SUFFICES ASSUME TypeInv /\ FlagRight, SessionTask PROVE FlagRight'
  OBVIOUS
<1> USE DEF FlagRight, Early, AppWon, SessionWon, Awaiting, Evicting, TypeInv, TypeOK, Maps, Prompts, Callbacks, regVars, taskVars, wireVars, appVars,
        Polled, Return, Deliver, SessionGoes, CallGoes
<1>1. CASE KeyRefusedUnseen BY <1>1 DEF KeyRefusedUnseen
<1>2. CASE KeyStore BY <1>2 DEF KeyStore
<1>3. CASE KeyCall BY <1>3 DEF KeyCall
<1>4. CASE KeyDecided BY <1>4 DEF KeyDecided
<1>5. CASE TransportLost BY <1>5 DEF TransportLost
<1>6. CASE SessionDismissed BY <1>6 DEF SessionDismissed
<1>7. CASE SessionSwap BY <1>7 DEF SessionSwap
<1>8. CASE SessionUnregisters BY <1>8 DEF SessionUnregisters
<1>9. CASE SessionReports BY <1>9 DEF SessionReports
<1> QED
  BY <1>1, <1>2, <1>3, <1>4, <1>5, <1>6, <1>7, <1>8, <1>9
  DEF SessionTask

\* A disconnect of the app keeps FlagRight: its good-bye takes the flag.
LEMMA AppCallFlagRight == ASSUME TypeInv /\ FlagRight, NEW c \in Calls, AppCall(c) PROVE FlagRight'
<1> USE DEF FlagRight, Early, AppWon, SessionWon, Awaiting, Evicting, TypeInv, TypeOK, Maps, Prompts, Callbacks, regVars, taskVars, wireVars, appVars,
        Polled, Return, Deliver, SessionGoes, CallGoes
<1>1. CASE CancelFlags(c) BY <1>1 DEF CancelFlags
<1>2. CASE CancelClaims(c) BY <1>2 DEF CancelClaims
<1>3. CASE CancelUnflags(c) BY <1>3 DEF CancelUnflags
<1>4. CASE CancelUnblocks(c) BY <1>4 DEF CancelUnblocks
<1>5. CASE CancelReports(c) BY <1>5 DEF CancelReports
<1>6. CASE CancelDrops(c) BY <1>6 DEF CancelDrops
<1>7. CASE CancelEvicts(c) BY <1>7 DEF CancelEvicts
<1>8. CASE CancelSpawnsBye(c) BY <1>8 DEF CancelSpawnsBye
<1>9. CASE DisconnectEvicts(c) BY <1>9 DEF DisconnectEvicts
<1>10. CASE DisconnectUnlists(c) BY <1>10 DEF DisconnectUnlists
<1>11. CASE ByeSwap(c) BY <1>11 DEF ByeSwap
<1>12. CASE ByeSend(c) BY <1>12 DEF ByeSend
<1>13. CASE ByeDrop(c) BY <1>13 DEF ByeDrop
<1> QED
  BY <1>1, <1>2, <1>3, <1>4, <1>5, <1>6, <1>7, <1>8, <1>9, <1>10, <1>11,
     <1>12, <1>13
  DEF AppCall, CallSteps

\* Every step keeps FlagRight.
LEMMA NextFlagRight == TypeInv /\ FlagRight /\ [Next]_vars => FlagRight'
<1> SUFFICES ASSUME TypeInv /\ FlagRight, [Next]_vars PROVE FlagRight'
  OBVIOUS
<1> USE DEF FlagRight, Early, AppWon, SessionWon, Awaiting, Evicting, TypeInv, TypeOK, Maps, Prompts, Callbacks, regVars, taskVars, wireVars, appVars,
        Polled, Return, Deliver, SessionGoes, CallGoes
<1>1. CASE Connect BY <1>1 DEF Connect
<1>2. ASSUME NEW p \in Prompts, Respond(p) PROVE FlagRight'
  BY <1>2 DEF Respond
<1>3. CASE UNCHANGED vars BY <1>3 DEF vars
<1> QED
  BY <1>1, <1>2, <1>3, ConnectTaskFlagRight, SessionTaskFlagRight, AppCallFlagRight DEF Next

\* The task of rnssh_connect keeps PromptRight: it stores a sender before it waits.
LEMMA ConnectTaskPromptRight == TypeInv /\ Arbiter /\ FlagRight /\ PromptRight /\ ConnectTask => PromptRight'
<1> SUFFICES ASSUME TypeInv /\ Arbiter /\ FlagRight /\ PromptRight, ConnectTask PROVE PromptRight'
  OBVIOUS
<1> USE DEF PromptRight, Awaiting, Store, Resolve, TypeInv, TypeOK, Maps, Prompts, Callbacks, regVars, taskVars, wireVars, appVars,
        Polled, Return, Deliver, SessionGoes, CallGoes
<1>1. CASE DialOk BY <1>1 DEF DialOk
<1>2. CASE HandshakeOk BY <1>2 DEF HandshakeOk
<1>3. CASE AuthOk BY <1>3 DEF AuthOk
<1>4. CASE KbiStore BY <1>4 DEF KbiStore
<1>5. CASE KbiCall BY <1>5 DEF KbiCall
<1>6. CASE KbiAnswered BY <1>6 DEF KbiAnswered
<1>7. CASE ConnectFails BY <1>7 DEF ConnectFails
<1>8. CASE ConnectTimeout BY <1>8 DEF ConnectTimeout
<1>9. CASE ConnectStores BY <1>9 DEF ConnectStores
<1>10. CASE TaskAborted BY <1>10 DEF TaskAborted
<1>11. CASE TaskUnlists BY <1>11 DEF TaskUnlists
<1>12. CASE TaskClaims BY <1>12 DEF TaskClaims
<1>13. CASE TaskReadsCancel BY <1>13 DEF TaskReadsCancel
<1>14. CASE TaskGivesUp BY <1>14 DEF TaskGivesUp
<1>15. CASE TaskUnwanted BY <1>15 DEF TaskUnwanted
<1>16. CASE TaskInserts BY <1>16 DEF TaskInserts
<1>17. CASE TaskAnnounces BY <1>17 DEF TaskAnnounces
<1>18. CASE TaskFails BY <1>18 DEF TaskFails
<1>19. CASE TaskByeSwap BY <1>19 DEF TaskByeSwap, AfterBye
<1>20. CASE TaskByeSend BY <1>20 DEF TaskByeSend, AfterBye
<1> QED
  BY <1>1, <1>2, <1>3, <1>4, <1>5, <1>6, <1>7, <1>8, <1>9, <1>10, <1>11,
     <1>12, <1>13, <1>14, <1>15, <1>16, <1>17, <1>18, <1>19, <1>20
  DEF ConnectTask

\* The session task keeps PromptRight: it stores a sender before it waits.
LEMMA SessionTaskPromptRight == TypeInv /\ Arbiter /\ FlagRight /\ PromptRight /\ SessionTask => PromptRight'
<1> SUFFICES ASSUME TypeInv /\ Arbiter /\ FlagRight /\ PromptRight, SessionTask PROVE PromptRight'
  OBVIOUS
<1> USE DEF PromptRight, Awaiting, Store, Resolve, TypeInv, TypeOK, Maps, Prompts, Callbacks, regVars, taskVars, wireVars, appVars,
        Polled, Return, Deliver, SessionGoes, CallGoes
<1>1. CASE KeyRefusedUnseen BY <1>1 DEF KeyRefusedUnseen
<1>2. CASE KeyStore BY <1>2 DEF KeyStore
<1>3. CASE KeyCall BY <1>3 DEF KeyCall
<1>4. CASE KeyDecided BY <1>4 DEF KeyDecided
<1>5. CASE TransportLost BY <1>5 DEF TransportLost
<1>6. CASE SessionDismissed BY <1>6 DEF SessionDismissed
<1>7. CASE SessionSwap BY <1>7 DEF SessionSwap
<1>8. CASE SessionUnregisters
  <2>1. task \notin Awaiting \union {"kbiStored", "authed"}
    BY <1>8 DEF SessionUnregisters, FlagRight, SessionWon, Early
  <2> QED
    BY <1>8, <2>1 DEF SessionUnregisters
<1>9. CASE SessionReports BY <1>9 DEF SessionReports
<1> QED
  BY <1>1, <1>2, <1>3, <1>4, <1>5, <1>6, <1>7, <1>8, <1>9
  DEF SessionTask

\* A cancel that drops the senders has claimed the entry, which keeps PromptRight.
LEMMA AppCallPromptRight == ASSUME TypeInv /\ Arbiter /\ FlagRight /\ PromptRight, NEW c \in Calls, AppCall(c) PROVE PromptRight'
<1> USE DEF PromptRight, Awaiting, Store, Resolve, TypeInv, TypeOK, Maps, Prompts, Callbacks, regVars, taskVars, wireVars, appVars,
        Polled, Return, Deliver, SessionGoes, CallGoes
<1>1. CASE CancelFlags(c) BY <1>1 DEF CancelFlags
<1>2. CASE CancelClaims(c) BY <1>2 DEF CancelClaims
<1>3. CASE CancelUnflags(c) BY <1>3 DEF CancelUnflags
<1>4. CASE CancelUnblocks(c)
  <2>1. "connecting" \notin reg
    BY <1>4 DEF CancelUnblocks, Arbiter, CallOwns, CancelOwns
  <2>2. \A p \in Prompts : rx'[p] = "waiting" => p \in slots'
    BY <1>4 DEF CancelUnblocks
  <2> QED
    BY <1>4, <2>1, <2>2 DEF CancelUnblocks
<1>5. CASE CancelReports(c) BY <1>5 DEF CancelReports
<1>6. CASE CancelDrops(c) BY <1>6 DEF CancelDrops
<1>7. CASE CancelEvicts(c) BY <1>7 DEF CancelEvicts
<1>8. CASE CancelSpawnsBye(c) BY <1>8 DEF CancelSpawnsBye
<1>9. CASE DisconnectEvicts(c) BY <1>9 DEF DisconnectEvicts
<1>10. CASE DisconnectUnlists(c)
  <2>1. task \notin Awaiting \union {"kbiStored", "authed"}
    BY <1>10 DEF DisconnectUnlists, FlagRight, Early, Evicting
  <2> QED
    BY <1>10, <2>1 DEF DisconnectUnlists
<1>11. CASE ByeSwap(c) BY <1>11 DEF ByeSwap
<1>12. CASE ByeSend(c) BY <1>12 DEF ByeSend
<1>13. CASE ByeDrop(c) BY <1>13 DEF ByeDrop
<1> QED
  BY <1>1, <1>2, <1>3, <1>4, <1>5, <1>6, <1>7, <1>8, <1>9, <1>10, <1>11,
     <1>12, <1>13
  DEF AppCall, CallSteps

\* Every step keeps PromptRight.
LEMMA NextPromptRight == TypeInv /\ Arbiter /\ FlagRight /\ PromptRight /\ [Next]_vars => PromptRight'
<1> SUFFICES ASSUME TypeInv /\ Arbiter /\ FlagRight /\ PromptRight, [Next]_vars PROVE PromptRight'
  OBVIOUS
<1> USE DEF PromptRight, Awaiting, Store, Resolve, TypeInv, TypeOK, Maps, Prompts, Callbacks, regVars, taskVars, wireVars, appVars,
        Polled, Return, Deliver, SessionGoes, CallGoes
<1>1. CASE Connect BY <1>1 DEF Connect
<1>2. ASSUME NEW p \in Prompts, Respond(p) PROVE PromptRight'
  BY <1>2 DEF Respond
<1>3. CASE UNCHANGED vars BY <1>3 DEF vars
<1> QED
  BY <1>1, <1>2, <1>3, ConnectTaskPromptRight, SessionTaskPromptRight, AppCallPromptRight DEF Next

----------------------------------------------------------------------------
(* What the abstract contract asks for beyond the invariant above          *)

\* A terminal callback is owed until it was delivered: somebody holds the right
\* to it.  An aborted task holds none, so that dropping it loses nothing.
Owed ==
    /\ aborted => task # "idle" /\ "connecting" \notin reg /\ ~TaskOwns
    /\ \/ task = "idle" \/ "connecting" \in reg \/ TaskOwns
       \/ \E c \in Calls : CallOwns(c)
       \/ Terminals = 1

\* The app was asked about the host key before anything it enables.
KeyFirst ==
    \/ cb["hostKey"] > 0
    \/ /\ session \notin {"parked", "up", "reporting", "announcing"}
       /\ task \notin {"auth", "kbiStored", "kbiWait", "authed", "announce"}
       /\ local.result # "ok"
       /\ ~connected

\* The connect task keeps Owed: it gives its right up by calling back, or leaves it to the cancel that claimed it.
LEMMA ConnectTaskOwed == TypeInv /\ Arbiter /\ Owed /\ ConnectTask => Owed'
<1> SUFFICES ASSUME TypeInv /\ Arbiter /\ Owed, ConnectTask PROVE Owed'
  OBVIOUS
<1> USE DEF Owed, Arbiter, Awaiting, Terminals, TaskOwns, CallOwns, CancelOwns, Evicting, TypeInv, TypeOK, Maps, Prompts, Callbacks, regVars, taskVars, wireVars, appVars,
        Polled, Return, Deliver, SessionGoes, CallGoes
<1>1. CASE DialOk BY <1>1 DEF DialOk
<1>2. CASE HandshakeOk BY <1>2 DEF HandshakeOk
<1>3. CASE AuthOk BY <1>3 DEF AuthOk
<1>4. CASE KbiStore BY <1>4 DEF KbiStore
<1>5. CASE KbiCall BY <1>5 DEF KbiCall
<1>6. CASE KbiAnswered BY <1>6 DEF KbiAnswered
<1>7. CASE ConnectFails BY <1>7 DEF ConnectFails
<1>8. CASE ConnectTimeout BY <1>8 DEF ConnectTimeout
<1>9. CASE ConnectStores BY <1>9 DEF ConnectStores
<1>10. CASE TaskAborted BY <1>10 DEF TaskAborted
<1>11. CASE TaskUnlists BY <1>11 DEF TaskUnlists
<1>12. CASE TaskClaims BY <1>12 DEF TaskClaims
<1>13. CASE TaskReadsCancel BY <1>13 DEF TaskReadsCancel
<1>14. CASE TaskGivesUp BY <1>14 DEF TaskGivesUp
<1>15. CASE TaskUnwanted BY <1>15 DEF TaskUnwanted
<1>16. CASE TaskInserts BY <1>16 DEF TaskInserts
<1>17. CASE TaskAnnounces BY <1>17 DEF TaskAnnounces
<1>18. CASE TaskFails BY <1>18 DEF TaskFails
<1>19. CASE TaskByeSwap BY <1>19 DEF TaskByeSwap, AfterBye
<1>20. CASE TaskByeSend BY <1>20 DEF TaskByeSend, AfterBye
<1> QED
  BY <1>1, <1>2, <1>3, <1>4, <1>5, <1>6, <1>7, <1>8, <1>9, <1>10, <1>11, <1>12, <1>13,
     <1>14, <1>15, <1>16, <1>17, <1>18, <1>19, <1>20
  DEF ConnectTask

\* The session task does not touch what Owed relates.
LEMMA SessionTaskOwed == TypeInv /\ Arbiter /\ Owed /\ SessionTask => Owed'
<1> SUFFICES ASSUME TypeInv /\ Arbiter /\ Owed, SessionTask PROVE Owed'
  OBVIOUS
<1> USE DEF Owed, Arbiter, Awaiting, Terminals, TaskOwns, CallOwns, CancelOwns, Evicting, TypeInv, TypeOK, Maps, Prompts, Callbacks, regVars, taskVars, wireVars, appVars,
        Polled, Return, Deliver, SessionGoes, CallGoes
<1>1. CASE KeyRefusedUnseen BY <1>1 DEF KeyRefusedUnseen
<1>2. CASE KeyStore BY <1>2 DEF KeyStore
<1>3. CASE KeyCall BY <1>3 DEF KeyCall
<1>4. CASE KeyDecided BY <1>4 DEF KeyDecided
<1>5. CASE TransportLost BY <1>5 DEF TransportLost
<1>6. CASE SessionDismissed BY <1>6 DEF SessionDismissed
<1>7. CASE SessionSwap BY <1>7 DEF SessionSwap
<1>8. CASE SessionUnregisters BY <1>8 DEF SessionUnregisters
<1>9. CASE SessionReports BY <1>9 DEF SessionReports
<1> QED
  BY <1>1, <1>2, <1>3, <1>4, <1>5, <1>6, <1>7, <1>8, <1>9
  DEF SessionTask

\* A cancel keeps Owed: it calls back before it is done, and aborts the task only with the right in hand.
LEMMA AppCallOwed == ASSUME TypeInv /\ Arbiter /\ Owed, NEW c \in Calls, AppCall(c) PROVE Owed'
<1> USE DEF Owed, Arbiter, Awaiting, Terminals, TaskOwns, CallOwns, CancelOwns, Evicting, TypeInv, TypeOK, Maps, Prompts, Callbacks, regVars, taskVars, wireVars, appVars,
        Polled, Return, Deliver, SessionGoes, CallGoes
<1>1. CASE CancelFlags(c) BY <1>1 DEF CancelFlags
<1>2. CASE CancelClaims(c) BY <1>2 DEF CancelClaims
<1>3. CASE CancelUnflags(c) BY <1>3 DEF CancelUnflags
<1>4. CASE CancelUnblocks(c) BY <1>4 DEF CancelUnblocks
<1>5. CASE CancelReports(c) BY <1>5 DEF CancelReports
<1>6. CASE CancelDrops(c) BY <1>6 DEF CancelDrops
<1>7. CASE CancelEvicts(c) BY <1>7 DEF CancelEvicts
<1>8. CASE CancelSpawnsBye(c) BY <1>8 DEF CancelSpawnsBye
<1>9. CASE DisconnectEvicts(c) BY <1>9 DEF DisconnectEvicts
<1>10. CASE DisconnectUnlists(c) BY <1>10 DEF DisconnectUnlists
<1>11. CASE ByeSwap(c) BY <1>11 DEF ByeSwap
<1>12. CASE ByeSend(c) BY <1>12 DEF ByeSend
<1>13. CASE ByeDrop(c) BY <1>13 DEF ByeDrop
<1> QED
  BY <1>1, <1>2, <1>3, <1>4, <1>5, <1>6, <1>7, <1>8, <1>9, <1>10, <1>11, <1>12, <1>13
  DEF AppCall, CallSteps

\* Every step keeps Owed.
LEMMA NextOwed == TypeInv /\ Arbiter /\ Owed /\ [Next]_vars => Owed'
<1> SUFFICES ASSUME TypeInv /\ Arbiter /\ Owed, [Next]_vars PROVE Owed'
  OBVIOUS
<1> USE DEF Owed, Arbiter, Awaiting, Terminals, TaskOwns, CallOwns, CancelOwns, Evicting, TypeInv, TypeOK, Maps, Prompts, Callbacks, regVars, taskVars, wireVars, appVars,
        Polled, Return, Deliver, SessionGoes, CallGoes
<1>1. CASE Connect BY <1>1 DEF Connect
<1>2. ASSUME NEW p \in Prompts, Respond(p) PROVE Owed'
  BY <1>2 DEF Respond
<1>3. CASE UNCHANGED vars BY <1>3 DEF vars
<1> QED
  BY <1>1, <1>2, <1>3, ConnectTaskOwed, SessionTaskOwed, AppCallOwed DEF Next

\* The connect task keeps KeyFirst: it authenticates over a session that came up.
LEMMA ConnectTaskKeyFirst == TypeInv /\ KeyFirst /\ ConnectTask => KeyFirst'
<1> SUFFICES ASSUME TypeInv /\ KeyFirst, ConnectTask PROVE KeyFirst'
  OBVIOUS
<1> USE DEF KeyFirst, Awaiting, TypeInv, TypeOK, Maps, Prompts, Callbacks, regVars, taskVars, wireVars, appVars,
        Polled, Return, Deliver, SessionGoes, CallGoes
<1>1. CASE DialOk BY <1>1 DEF DialOk
<1>2. CASE HandshakeOk BY <1>2 DEF HandshakeOk
<1>3. CASE AuthOk BY <1>3 DEF AuthOk
<1>4. CASE KbiStore BY <1>4 DEF KbiStore
<1>5. CASE KbiCall BY <1>5 DEF KbiCall
<1>6. CASE KbiAnswered BY <1>6 DEF KbiAnswered
<1>7. CASE ConnectFails BY <1>7 DEF ConnectFails
<1>8. CASE ConnectTimeout BY <1>8 DEF ConnectTimeout
<1>9. CASE ConnectStores BY <1>9 DEF ConnectStores
<1>10. CASE TaskAborted BY <1>10 DEF TaskAborted
<1>11. CASE TaskUnlists BY <1>11 DEF TaskUnlists
<1>12. CASE TaskClaims BY <1>12 DEF TaskClaims
<1>13. CASE TaskReadsCancel BY <1>13 DEF TaskReadsCancel
<1>14. CASE TaskGivesUp BY <1>14 DEF TaskGivesUp
<1>15. CASE TaskUnwanted BY <1>15 DEF TaskUnwanted
<1>16. CASE TaskInserts BY <1>16 DEF TaskInserts
<1>17. CASE TaskAnnounces BY <1>17 DEF TaskAnnounces
<1>18. CASE TaskFails BY <1>18 DEF TaskFails
<1>19. CASE TaskByeSwap BY <1>19 DEF TaskByeSwap, AfterBye
<1>20. CASE TaskByeSend BY <1>20 DEF TaskByeSend, AfterBye
<1> QED
  BY <1>1, <1>2, <1>3, <1>4, <1>5, <1>6, <1>7, <1>8, <1>9, <1>10, <1>11, <1>12, <1>13,
     <1>14, <1>15, <1>16, <1>17, <1>18, <1>19, <1>20
  DEF ConnectTask

\* The session task keeps KeyFirst: it comes up only after the app was asked.
LEMMA SessionTaskKeyFirst == TypeInv /\ KeyFirst /\ SessionTask => KeyFirst'
<1> SUFFICES ASSUME TypeInv /\ KeyFirst, SessionTask PROVE KeyFirst'
  OBVIOUS
<1> USE DEF KeyFirst, Awaiting, TypeInv, TypeOK, Maps, Prompts, Callbacks, regVars, taskVars, wireVars, appVars,
        Polled, Return, Deliver, SessionGoes, CallGoes
<1>1. CASE KeyRefusedUnseen BY <1>1 DEF KeyRefusedUnseen
<1>2. CASE KeyStore BY <1>2 DEF KeyStore
<1>3. CASE KeyCall BY <1>3 DEF KeyCall
<1>4. CASE KeyDecided BY <1>4 DEF KeyDecided
<1>5. CASE TransportLost BY <1>5 DEF TransportLost
<1>6. CASE SessionDismissed BY <1>6 DEF SessionDismissed
<1>7. CASE SessionSwap BY <1>7 DEF SessionSwap
<1>8. CASE SessionUnregisters BY <1>8 DEF SessionUnregisters
<1>9. CASE SessionReports BY <1>9 DEF SessionReports
<1> QED
  BY <1>1, <1>2, <1>3, <1>4, <1>5, <1>6, <1>7, <1>8, <1>9
  DEF SessionTask

\* The app's calls set no flag and open no session.
LEMMA AppCallKeyFirst == ASSUME TypeInv /\ KeyFirst, NEW c \in Calls, AppCall(c) PROVE KeyFirst'
<1> USE DEF KeyFirst, Awaiting, TypeInv, TypeOK, Maps, Prompts, Callbacks, regVars, taskVars, wireVars, appVars,
        Polled, Return, Deliver, SessionGoes, CallGoes
<1>1. CASE CancelFlags(c) BY <1>1 DEF CancelFlags
<1>2. CASE CancelClaims(c) BY <1>2 DEF CancelClaims
<1>3. CASE CancelUnflags(c) BY <1>3 DEF CancelUnflags
<1>4. CASE CancelUnblocks(c) BY <1>4 DEF CancelUnblocks
<1>5. CASE CancelReports(c) BY <1>5 DEF CancelReports
<1>6. CASE CancelDrops(c) BY <1>6 DEF CancelDrops
<1>7. CASE CancelEvicts(c) BY <1>7 DEF CancelEvicts
<1>8. CASE CancelSpawnsBye(c) BY <1>8 DEF CancelSpawnsBye
<1>9. CASE DisconnectEvicts(c) BY <1>9 DEF DisconnectEvicts
<1>10. CASE DisconnectUnlists(c) BY <1>10 DEF DisconnectUnlists
<1>11. CASE ByeSwap(c) BY <1>11 DEF ByeSwap
<1>12. CASE ByeSend(c) BY <1>12 DEF ByeSend
<1>13. CASE ByeDrop(c) BY <1>13 DEF ByeDrop
<1> QED
  BY <1>1, <1>2, <1>3, <1>4, <1>5, <1>6, <1>7, <1>8, <1>9, <1>10, <1>11, <1>12, <1>13
  DEF AppCall, CallSteps

\* Every step keeps KeyFirst.
LEMMA NextKeyFirst == TypeInv /\ KeyFirst /\ [Next]_vars => KeyFirst'
<1> SUFFICES ASSUME TypeInv /\ KeyFirst, [Next]_vars PROVE KeyFirst'
  OBVIOUS
<1> USE DEF KeyFirst, Awaiting, TypeInv, TypeOK, Maps, Prompts, Callbacks, regVars, taskVars, wireVars, appVars,
        Polled, Return, Deliver, SessionGoes, CallGoes
<1>1. CASE Connect BY <1>1 DEF Connect
<1>2. ASSUME NEW p \in Prompts, Respond(p) PROVE KeyFirst'
  BY <1>2 DEF Respond
<1>3. CASE UNCHANGED vars BY <1>3 DEF vars
<1> QED
  BY <1>1, <1>2, <1>3, ConnectTaskKeyFirst, SessionTaskKeyFirst, AppCallKeyFirst DEF Next

----------------------------------------------------------------------------
(* The invariant of the specification, and what follows from it            *)

IInv == TypeInv /\ Arbiter /\ FlagRight /\ PromptRight /\ Owed /\ KeyFirst

\* The initial state satisfies the strengthened invariant.
LEMMA InitIInv == Init => IInv
<1> SUFFICES ASSUME Init PROVE IInv
  OBVIOUS
<1>1. TypeInv
  BY InitTypeInv
<1>2. Arbiter
  BY DEF Init, Arbiter, Terminals, TaskOwns, CallOwns, CancelOwns, Callbacks, Prompts
<1>3. FlagRight
  BY DEF Init, FlagRight, Early, AppWon, SessionWon, Awaiting, Evicting,
      Callbacks, Prompts
<1>4. PromptRight
  BY DEF Init, PromptRight, Prompts
<1>5. Owed
  BY DEF Init, Owed
<1>6. KeyFirst
  BY DEF Init, KeyFirst
<1> QED
  BY <1>1, <1>2, <1>3, <1>4, <1>5, <1>6 DEF IInv

\* The strengthened invariant behind the safety theorems holds in every run.
THEOREM Invariance == Spec => []IInv
<1>1. IInv /\ [Next]_vars => IInv'
  BY NextTypeInv, NextArbiter, NextFlagRight, NextPromptRight, NextOwed, NextKeyFirst
  DEF IInv
<1> QED
  BY InitIInv, <1>1, PTL DEF Spec

\* on_connected and on_error together fire at most once, for any number of
\* overlapping cancels: the connecting entry is removed by one actor only.
THEOREM TerminalOnce == Spec => []OneTerminal
<1>1. IInv => OneTerminal
  BY DEF IInv, Arbiter, Terminals, OneTerminal
<1> QED
  BY <1>1, Invariance, PTL

\* on_disconnected fires at most once, and never when an app-side disconnect
\* won the swap of the connected flag.
THEOREM ReportXorBye == Spec => []NoReportForAppDisconnect
<1>1. IInv => NoReportForAppDisconnect
  BY DEF IInv, TypeInv, TypeOK, Callbacks, Prompts, FlagRight, AppWon, SessionWon,
      NoReportForAppDisconnect
<1> QED
  BY <1>1, Invariance, PTL

\* While connect() runs unclaimed, a waiting prompt is listed and its sender is
\* in the slot, so that the app's answer reaches it.
THEOREM PromptsAnswerable == Spec => []PromptAnswerable
<1>1. IInv => PromptAnswerable
  BY DEF IInv, PromptRight, PromptAnswerable
<1> QED
  BY <1>1, Invariance, PTL

\* Once no clone of the bridge is left, no step delivers a callback, says
\* good-bye or obtains a clone.
LEMMA ReleasedStays ==
    TypeInv /\ [Next]_vars /\ Released => Released' /\ UNCHANGED <<cb, byeSent>>
<1> SUFFICES ASSUME TypeInv, [Next]_vars, Released
             PROVE  Released' /\ UNCHANGED <<cb, byeSent>>
  OBVIOUS
<1>1. /\ task = "done"
      /\ "connecting" \notin reg /\ "connections" \notin reg
      /\ session \in {"none", "gone"}
      /\ \A c \in Calls : call[c] \notin CancelOwns \union Evicting \union {"dropping"}
  BY DEF Released, EventsHeld
<1> USE DEF Released, EventsHeld, TypeInv, TypeOK, regVars, taskVars, wireVars, appVars
<1>2. ~ConnectTask
  BY <1>1 DEF ConnectTask, DialOk, HandshakeOk, AuthOk, KbiStore, KbiCall,
      KbiAnswered, ConnectFails, ConnectTimeout, ConnectStores, TaskAborted,
      TaskUnlists, TaskClaims, TaskReadsCancel, TaskGivesUp, TaskUnwanted,
      TaskInserts, TaskAnnounces, TaskFails, TaskByeSwap, TaskByeSend, Polled,
      Awaiting
<1>3. ~SessionTask
  BY <1>1 DEF SessionTask, KeyRefusedUnseen, KeyStore, KeyCall, KeyDecided,
      TransportLost, SessionDismissed, SessionSwap, SessionUnregisters,
      SessionReports, SessionGoes
<1>4. ASSUME NEW c \in Calls, AppCall(c) PROVE Released' /\ UNCHANGED <<cb, byeSent>>
  <2> USE <1>1, <1>4 DEF CallGoes, CallPC, CancelOwns, Evicting
  <2>1. \/ CancelFlags(c) \/ CancelClaims(c) \/ CancelEvicts(c)
        \/ DisconnectEvicts(c) \/ DisconnectUnlists(c)
    BY DEF AppCall, CallSteps, CancelUnflags, CancelUnblocks, CancelReports,
        CancelDrops, CancelSpawnsBye, ByeSwap, ByeSend, ByeDrop
  <2>2. CASE CancelFlags(c) BY <2>2 DEF CancelFlags
  <2>3. CASE CancelClaims(c) BY <2>3 DEF CancelClaims
  <2>4. CASE CancelEvicts(c) BY <2>4 DEF CancelEvicts
  <2>5. CASE DisconnectEvicts(c) BY <2>5 DEF DisconnectEvicts
  <2>6. CASE DisconnectUnlists(c) BY <2>6 DEF DisconnectUnlists
  <2> QED BY <2>1, <2>2, <2>3, <2>4, <2>5, <2>6
<1>5. ~Connect
  BY <1>1 DEF Connect
<1>6. ASSUME NEW p \in Prompts, Respond(p) PROVE Released' /\ UNCHANGED <<cb, byeSent>>
  BY <1>1, <1>6 DEF Respond
<1>7. CASE UNCHANGED vars
  BY <1>1, <1>7 DEF vars
<1> QED
  BY <1>2, <1>3, <1>4, <1>5, <1>6, <1>7 DEF Next

\* release(user) is final: once no clone of the bridge is left, no step delivers
\* a callback or obtains a clone.
THEOREM ReleaseFinal == Spec => ReleaseIsFinal
<1>1. TypeInv /\ [Next]_vars => (Released => Released' /\ cb' = cb)
  BY ReleasedStays
<1> QED
  BY <1>1, TypeInvariant, PTL DEF Spec, ReleaseIsFinal

----------------------------------------------------------------------------
(* ConnLifecycle implements ConnectionContract                             *)

\* Before release nothing has been delivered that the contract forbids: the
\* initial state of the protocol is one of the contract.
LEMMA ContractInit == Init => C!Init
<1> SUFFICES ASSUME Init PROVE C!Init
  OBVIOUS
<1>1. cb = [k \in C!Callbacks |-> 0]
  BY DEF Init, Callbacks, Prompts, C!Callbacks, C!Prompts
<1>2. ~Released
  BY DEF Init, Released
<1> QED
  BY <1>1, <1>2 DEF Init, C!Init, Released

\* A step of the contract that is no release: one callback it may deliver, or
\* the app's good-bye, or nothing the app sees.
Allowed ==
    \/ \E k \in C!Callbacks : C!Delivers(k)
    \/ C!HangsUp
    \/ UNCHANGED <<cb, byeSent>>

\* A delivery the contract allows is a step of the contract.
LEMMA DeliverAllowed ==
    ASSUME NEW k \in Callbacks, C!May(k), Deliver(k), UNCHANGED byeSent PROVE Allowed
<1>1. C!Delivers(k)
  BY DEF C!Delivers, Deliver
<1> QED
  BY <1>1 DEF Allowed, Callbacks, Prompts, C!Callbacks, C!Prompts

\* Every step calls the app as the contract allows.
LEMMA NextAllowed == IInv /\ [Next]_vars => Allowed
<1> SUFFICES ASSUME IInv, [Next]_vars PROVE Allowed
  OBVIOUS
<1> USE DEF IInv, TypeInv, TypeOK, Callbacks, Prompts, regVars, taskVars, wireVars, appVars,
        C!May, C!Terminals
<1>1. CASE KbiCall
  <2>1. C!May("kbi")
    BY <1>1 DEF KbiCall, KeyFirst
  <2> QED
    BY <1>1, <2>1, DeliverAllowed DEF KbiCall
<1>2. CASE TaskAnnounces
  <2>1. C!May("connected")
    BY <1>2 DEF TaskAnnounces, KeyFirst, Arbiter, Terminals, TaskOwns
  <2> QED
    BY <1>2, <2>1, DeliverAllowed DEF TaskAnnounces
<1>3. CASE TaskFails
  <2>1. C!May("error")
    BY <1>3 DEF TaskFails, Arbiter, Terminals, TaskOwns
  <2> QED
    BY <1>3, <2>1, DeliverAllowed DEF TaskFails
<1>4. CASE KeyCall
  <2>1. C!May("hostKey")
    OBVIOUS
  <2> QED
    BY <1>4, <2>1, DeliverAllowed DEF KeyCall
<1>5. CASE SessionReports
  <2>1. C!May("disconnected")
    BY <1>5 DEF SessionReports, SessionGoes, KeyFirst, FlagRight, AppWon, SessionWon
  <2> QED
    BY <1>5, <2>1, DeliverAllowed DEF SessionReports
<1>6. ASSUME NEW c \in Calls, CancelReports(c) PROVE Allowed
  <2>1. C!May("error")
    BY <1>6 DEF CancelReports, CallGoes, Arbiter, Terminals, CallOwns, CancelOwns
  <2> QED
    BY <1>6, <2>1, DeliverAllowed DEF CancelReports
<1>7. ASSUME TaskByeSend \/ \E c \in Calls : ByeSend(c) PROVE Allowed
  <2>1. AppWon
    BY <1>7 DEF TaskByeSend, ByeSend, CallGoes, AppWon
  <2>2. C!HangsUp
    BY <1>7, <2>1 DEF TaskByeSend, ByeSend, FlagRight, SessionWon, C!HangsUp
  <2> QED
    BY <2>2 DEF Allowed
<1>8. CASE ConnectTask
  <2>1. \/ KbiCall \/ TaskAnnounces \/ TaskFails \/ TaskByeSend
        \/ UNCHANGED <<cb, byeSent>>
    BY <1>8 DEF ConnectTask, DialOk, HandshakeOk, AuthOk, KbiStore, KbiAnswered,
        ConnectFails, ConnectTimeout, ConnectStores, TaskAborted, TaskUnlists,
        TaskClaims, TaskReadsCancel, TaskGivesUp, TaskUnwanted, TaskInserts, TaskByeSwap
  <2> QED
    BY <1>1, <1>2, <1>3, <1>7, <2>1 DEF Allowed
<1>9. CASE SessionTask
  <2>1. KeyCall \/ SessionReports \/ UNCHANGED <<cb, byeSent>>
    BY <1>9 DEF SessionTask, KeyRefusedUnseen, KeyStore, KeyDecided, TransportLost,
        SessionDismissed, SessionSwap, SessionUnregisters
  <2> QED
    BY <1>4, <1>5, <2>1 DEF Allowed
<1>10. ASSUME NEW c \in Calls, AppCall(c) PROVE Allowed
  <2>1. CancelReports(c) \/ ByeSend(c) \/ UNCHANGED <<cb, byeSent>>
    BY <1>10 DEF AppCall, CallSteps, CancelFlags, CancelClaims, CancelUnflags,
        CancelUnblocks, CancelDrops, CancelEvicts, CancelSpawnsBye, DisconnectEvicts,
        DisconnectUnlists, ByeSwap, ByeDrop
  <2> QED
    BY <1>6, <1>7, <2>1 DEF Allowed
<1>11. ASSUME Connect \/ (\E p \in Prompts : Respond(p)) \/ UNCHANGED vars PROVE Allowed
  BY <1>11 DEF Connect, Respond, vars, Allowed
<1> QED
  BY <1>8, <1>9, <1>10, <1>11 DEF Next

\* The context is released only after a terminal callback.
ReleaseOwesNothing == Released => Terminals = 1

\* The right to the terminal callback was used up by whoever held it.
LEMMA ReleasedLate == IInv => ReleaseOwesNothing
<1> SUFFICES ASSUME IInv, Released PROVE Terminals = 1
  BY DEF ReleaseOwesNothing
<1> QED
  BY DEF IInv, Owed, Released, EventsHeld, TaskOwns, CallOwns, TypeInv, TypeOK

\* rnssh-ffi keeps the contract of RnsshConnectionCallbacks, for any number of
\* overlapping cancels and disconnects and whatever server, user and timer do:
\* every step of the protocol is a step of ConnectionContract or invisible to it.
THEOREM Implements == Spec => Contract
<1>0. IInv' => ReleaseOwesNothing'
  BY ReleasedLate, PTL
<1>1. IInv /\ IInv' /\ [Next]_vars => [C!Next]_(C!vars)
  <2> SUFFICES ASSUME IInv, IInv', [Next]_vars PROVE [C!Next]_(C!vars)
    OBVIOUS
  <2>1. CASE Released
    <3>1. Released' /\ UNCHANGED <<cb, byeSent>>
      BY <2>1, ReleasedStays DEF IInv
    <3> QED
      BY <2>1, <3>1 DEF C!vars, Released, EventsHeld
  <2>2. CASE ~Released
    <3>1. Released' => Terminals' = 1
      BY <1>0 DEF ReleaseOwesNothing
    <3>2. Released' \in BOOLEAN
      BY DEF Released
    <3>3. Allowed
      BY NextAllowed
    <3> QED
      BY <2>2, <3>1, <3>2, <3>3 DEF C!Next, C!Releasing, C!Terminals, Terminals, Allowed
  <2> QED
    BY <2>1, <2>2
<1> QED
  BY <1>1, ContractInit, Invariance, PTL DEF Spec, C!Spec, Contract
=============================================================================
