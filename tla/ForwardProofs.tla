--------------------------- MODULE ForwardProofs ---------------------------
(***************************************************************************)
(* Proofs about Forward, for any clients, any close calls and any cap.     *)
(***************************************************************************)
EXTENDS Forward, FiniteSetTheorems, TLAPS

\* The counter counts the guards; an Integer that never goes below zero for it.
Counts == active = Cardinality(Guarded)

\* The app has been told exactly when the loop, which runs once, is past announcing.
Told ==
    /\ cb["closed"] = IF loop \in {"notify", "done"} THEN 1 ELSE 0
    /\ finished => loop = "done"
    /\ opener = "start" => loop = "none"

Winner(c) == closer[c] \in {"won", "waiting", "woken"}

\* The flag is swapped once; its winner alone waits.
OneWinner ==
    /\ open => \A c \in Closers : ~Winner(c)
    /\ \A c, d \in Closers : Winner(c) /\ Winner(d) => c = d
    /\ \A c \in Closers : closer[c] = "woken" => cb["closed"] = 1

\* A permit to shut down, or a loop that stopped for no reason of its own, is
\* the work of a close call that won.
AppClosed == \E c \in Closers : closer[c] \in {"waiting", "woken", "done"}
Reasoned ==
    /\ shutdown => AppClosed
    /\ loop \notin {"none", "select", "counting"} /\ reason = "none" => AppClosed

\* The flag is cleared for good before the id leaves the registry; a close call
\* that is past the swap has found it cleared or cleared it.
Shut ==
    /\ loop \notin {"none", "select", "counting", "stopping"} => ~open
    /\ opener \in {"start", "bound"} => cb["opened"] = 0
    /\ opener \in {"inserted", "done"} /\ cb["failed"] = 0 /\ ~registered => ~open
    /\ cb["opened"] > 0 => opener = "done" /\ cb["failed"] = 0
    /\ opener # "done" => cb["failed"] = 0
    /\ \A c \in Closers : closer[c] \notin {"idle", "found"} => ~open

IInv ==
    /\ TypeOK /\ Counts /\ active <= MaxConnections /\ Told
    /\ OneWinner /\ Reasoned /\ Shut

\* The guards of a forward are finitely many, since its clients are.
LEMMA GuardedFinite == IsFiniteSet(Guarded) /\ Cardinality(Guarded) \in Nat
BY PeersAssumption, FS_Subset, FS_CardinalityType DEF Guarded

\* The initial state satisfies the invariant.
LEMMA InitIInv == Init => IInv
<1> SUFFICES ASSUME Init PROVE IInv
  OBVIOUS
<1>1. TypeOK
  BY CapAssumption DEF Init, TypeOK, OpenerPC, LoopPC, TunnelPC, CloserPC
<1>2. Guarded = {}
  BY DEF Init, Guarded
<1>3. Counts /\ active <= MaxConnections
  BY <1>2, FS_EmptySet, CapAssumption DEF Init, Counts
<1>4. Told /\ OneWinner /\ Reasoned /\ Shut
  BY DEF Init, Told, OneWinner, Winner, Reasoned, Shut
<1> QED
  BY <1>1, <1>3, <1>4 DEF IInv

\* Only LoopAccepts adds a guard and only the end of a tunnel drops one, and each
\* moves the counter by one.
LEMMA NextCounts == TypeOK /\ Counts /\ active <= MaxConnections /\ [Next]_vars => Counts' /\ active' <= MaxConnections
<1> SUFFICES ASSUME TypeOK /\ Counts /\ active <= MaxConnections, [Next]_vars PROVE Counts' /\ active' <= MaxConnections
  OBVIOUS
<1> USE DEF Counts, TypeOK, Guarded, vars, openVars, loopVars, tunVars, noteVars, LoopGoes, CloserGoes, Deliver
<1>1. CASE OpenFails BY <1>1 DEF OpenFails
<1>2. CASE OpenBinds BY <1>2 DEF OpenBinds
<1>3. CASE OpenInserts BY <1>3 DEF OpenInserts
<1>4. CASE OpenReports BY <1>4 DEF OpenReports
<1>5. CASE LoopShutdown BY <1>5 DEF LoopShutdown
<1>6. CASE LoopLiveness BY <1>6 DEF LoopLiveness
<1>7. CASE LoopAcceptError BY <1>7 DEF LoopAcceptError
<1>8. CASE LoopStops BY <1>8 DEF LoopStops
<1>9. CASE LoopUnlistens BY <1>9 DEF LoopUnlistens
<1>10. CASE LoopAborts BY <1>10 DEF LoopAborts
<1>11. CASE LoopUnregisters BY <1>11 DEF LoopUnregisters
<1>12. CASE LoopAnnounces BY <1>12 DEF LoopAnnounces
<1>13. CASE LoopNotifies BY <1>13 DEF LoopNotifies
<1>14. CASE UpstreamDies BY <1>14 DEF UpstreamDies
<1>15. ASSUME NEW p \in Peers, LoopRefuses(p) PROVE Counts' /\ active' <= MaxConnections
  BY <1>15 DEF LoopRefuses
<1>16. ASSUME NEW p \in Peers, LoopAccepts(p) PROVE Counts' /\ active' <= MaxConnections
  <2>1. Guarded' = Guarded \union {p} /\ p \notin Guarded
    BY <1>16 DEF LoopAccepts
  <2>2. active' = active + 1 /\ active < MaxConnections
    BY <1>16 DEF LoopAccepts
  <2> HIDE DEF Guarded
  <2>3. Cardinality(Guarded') = Cardinality(Guarded) + 1
    BY <2>1, GuardedFinite, FS_AddElement
  <2> QED
    BY <2>2, <2>3, CapAssumption
<1>17. ASSUME NEW p \in Peers, LoopSpawns(p) PROVE Counts' /\ active' <= MaxConnections
  BY <1>17 DEF LoopSpawns
<1>18. ASSUME NEW p \in Peers, PeerConnects(p) PROVE Counts' /\ active' <= MaxConnections
  BY <1>18 DEF PeerConnects
<1>19. ASSUME NEW p \in Peers, TunnelEnds(p) PROVE Counts' /\ active' <= MaxConnections
  <2>1. Guarded' = Guarded \ {p} /\ p \in Guarded
    BY <1>19 DEF TunnelEnds
  <2>2. active' = active - 1
    BY <1>19 DEF TunnelEnds
  <2> HIDE DEF Guarded
  <2>3. Cardinality(Guarded') = Cardinality(Guarded) - 1
    BY <2>1, GuardedFinite, FS_RemoveElement
  <2> QED
    BY <2>2, <2>3, CapAssumption
<1>20. ASSUME NEW c \in Closers, CloseLooksUp(c) PROVE Counts' /\ active' <= MaxConnections
  BY <1>20 DEF CloseLooksUp
<1>21. ASSUME NEW c \in Closers, CloseSwaps(c) PROVE Counts' /\ active' <= MaxConnections
  BY <1>21 DEF CloseSwaps
<1>22. ASSUME NEW c \in Closers, CloseNotifies(c) PROVE Counts' /\ active' <= MaxConnections
  BY <1>22 DEF CloseNotifies
<1>23. ASSUME NEW c \in Closers, CloseWakes(c) PROVE Counts' /\ active' <= MaxConnections
  BY <1>23 DEF CloseWakes
<1>24. ASSUME NEW c \in Closers, CloseCompletes(c) PROVE Counts' /\ active' <= MaxConnections
  BY <1>24 DEF CloseCompletes
<1>25. CASE UNCHANGED vars BY <1>25 DEF vars
<1> QED
  BY <1>1, <1>2, <1>3, <1>4, <1>5, <1>6, <1>7, <1>8, <1>9, <1>10, <1>11, <1>12,
     <1>13, <1>14, <1>15, <1>16, <1>17, <1>18, <1>19, <1>20, <1>21, <1>22,
     <1>23, <1>24, <1>25
  DEF Next, Opener, AcceptLoop, LoopTeardown, CloseSteps

\* Every step keeps the types; the counter never goes below zero.
LEMMA NextTypeOK == TypeOK /\ Counts /\ [Next]_vars => TypeOK'
<1> SUFFICES ASSUME TypeOK /\ Counts, [Next]_vars PROVE TypeOK'
  OBVIOUS
<1> USE DEF TypeOK, OpenerPC, LoopPC, TunnelPC, CloserPC, vars, openVars, loopVars, tunVars, noteVars, LoopGoes, CloserGoes, Deliver
<1>1. CASE OpenFails BY <1>1 DEF OpenFails
<1>2. CASE OpenBinds BY <1>2 DEF OpenBinds
<1>3. CASE OpenInserts BY <1>3 DEF OpenInserts
<1>4. CASE OpenReports BY <1>4 DEF OpenReports
<1>5. CASE LoopShutdown BY <1>5 DEF LoopShutdown
<1>6. CASE LoopLiveness BY <1>6 DEF LoopLiveness
<1>7. CASE LoopAcceptError BY <1>7 DEF LoopAcceptError
<1>8. CASE LoopStops BY <1>8 DEF LoopStops
<1>9. CASE LoopUnlistens BY <1>9 DEF LoopUnlistens
<1>10. CASE LoopAborts BY <1>10 DEF LoopAborts
<1>11. CASE LoopUnregisters BY <1>11 DEF LoopUnregisters
<1>12. CASE LoopAnnounces BY <1>12 DEF LoopAnnounces
<1>13. CASE LoopNotifies BY <1>13 DEF LoopNotifies
<1>14. CASE UpstreamDies BY <1>14, ZenonT(60) DEF UpstreamDies
<1>15. ASSUME NEW p \in Peers, LoopRefuses(p) PROVE TypeOK'
  BY <1>15 DEF LoopRefuses
<1>16. ASSUME NEW p \in Peers, LoopAccepts(p) PROVE TypeOK'
  BY <1>16 DEF LoopAccepts
<1>17. ASSUME NEW p \in Peers, LoopSpawns(p) PROVE TypeOK'
  BY <1>17 DEF LoopSpawns
<1>18. ASSUME NEW p \in Peers, PeerConnects(p) PROVE TypeOK'
  BY <1>18 DEF PeerConnects
<1>19. ASSUME NEW p \in Peers, TunnelEnds(p) PROVE TypeOK'
  <2>1. p \in Guarded /\ active = Cardinality(Guarded)
    BY <1>19 DEF TunnelEnds, Guarded, Counts
  <2>2. active - 1 \in Nat
    <3>1. Cardinality(Guarded \ {p}) = Cardinality(Guarded) - 1
      BY <2>1, GuardedFinite, FS_RemoveElement
    <3>2. IsFiniteSet(Guarded \ {p})
      BY GuardedFinite, FS_RemoveElement
    <3> QED
      BY <2>1, <3>1, <3>2, FS_CardinalityType
  <2> QED
    BY <1>19, <2>2 DEF TunnelEnds
<1>20. ASSUME NEW c \in Closers, CloseLooksUp(c) PROVE TypeOK'
  <2>1. \E to \in {"found", "late"} : closer' = [closer EXCEPT ![c] = to]
    BY <1>20 DEF CloseLooksUp
  <2>2. closer' \in [Closers -> CloserPC]
    BY <2>1
  <2>3. UNCHANGED <<ssh, upstreamUp, openVars, loopVars, tunVars, noteVars, cb>> /\ open' = open
    BY <1>20 DEF CloseLooksUp
  <2> QED
    BY <2>2, <2>3
<1>21. ASSUME NEW c \in Closers, CloseSwaps(c) PROVE TypeOK'
  <2>1. \E to \in {"won", "late"} : closer' = [closer EXCEPT ![c] = to]
    BY <1>21 DEF CloseSwaps
  <2>2. closer' \in [Closers -> CloserPC]
    BY <2>1
  <2>3. UNCHANGED <<ssh, upstreamUp, openVars, loopVars, tunVars, noteVars, cb>>
    BY <1>21 DEF CloseSwaps
  <2>4. open' \in BOOLEAN
    BY <1>21 DEF CloseSwaps
  <2> QED
    BY <2>2, <2>3, <2>4
<1>22. ASSUME NEW c \in Closers, CloseNotifies(c) PROVE TypeOK'
  BY <1>22 DEF CloseNotifies
<1>23. ASSUME NEW c \in Closers, CloseWakes(c) PROVE TypeOK'
  <2>1. closer' \in [Closers -> CloserPC]
    BY <1>23 DEF CloseWakes
  <2>2. UNCHANGED <<ssh, upstreamUp, openVars, open, loopVars, tunVars, shutdown, cb>>
    BY <1>23 DEF CloseWakes
  <2>3. finished' \in BOOLEAN
    BY <1>23 DEF CloseWakes
  <2> QED
    BY <2>1, <2>2, <2>3
<1>24. ASSUME NEW c \in Closers, CloseCompletes(c) PROVE TypeOK'
  BY <1>24 DEF CloseCompletes
<1>25. CASE UNCHANGED vars BY <1>25 DEF vars
<1> QED
  BY <1>1, <1>2, <1>3, <1>4, <1>5, <1>6, <1>7, <1>8, <1>9, <1>10, <1>11, <1>12,
     <1>13, <1>14, <1>15, <1>16, <1>17, <1>18, <1>19, <1>20, <1>21, <1>22,
     <1>23, <1>24, <1>25
  DEF Next, Opener, AcceptLoop, LoopTeardown, CloseSteps

\* The loop announces once, and signals those who wait only afterwards.
LEMMA NextTold == TypeOK /\ Told /\ [Next]_vars => Told'
<1> SUFFICES ASSUME TypeOK /\ Told, [Next]_vars PROVE Told'
  OBVIOUS
<1> USE DEF Told, TypeOK, LoopPC, vars, openVars, loopVars, tunVars, noteVars, LoopGoes, CloserGoes, Deliver
<1>1. CASE OpenFails BY <1>1 DEF OpenFails
<1>2. CASE OpenBinds BY <1>2 DEF OpenBinds
<1>3. CASE OpenInserts BY <1>3 DEF OpenInserts
<1>4. CASE OpenReports BY <1>4 DEF OpenReports
<1>5. CASE LoopShutdown BY <1>5 DEF LoopShutdown
<1>6. CASE LoopLiveness BY <1>6 DEF LoopLiveness
<1>7. CASE LoopAcceptError BY <1>7 DEF LoopAcceptError
<1>8. CASE LoopStops BY <1>8 DEF LoopStops
<1>9. CASE LoopUnlistens BY <1>9 DEF LoopUnlistens
<1>10. CASE LoopAborts BY <1>10 DEF LoopAborts
<1>11. CASE LoopUnregisters BY <1>11 DEF LoopUnregisters
<1>12. CASE LoopAnnounces
  <2>1. cb["closed"] = 0 /\ ~finished
    BY <1>12 DEF LoopAnnounces
  <2>2. cb'["closed"] = cb["closed"] + 1
    BY <1>12 DEF LoopAnnounces
  <2> QED
    BY <1>12, <2>1, <2>2 DEF LoopAnnounces
<1>13. CASE LoopNotifies BY <1>13 DEF LoopNotifies
<1>14. CASE UpstreamDies BY <1>14 DEF UpstreamDies
<1>15. ASSUME NEW p \in Peers, LoopRefuses(p) PROVE Told'
  BY <1>15 DEF LoopRefuses
<1>16. ASSUME NEW p \in Peers, LoopAccepts(p) PROVE Told'
  BY <1>16 DEF LoopAccepts
<1>17. ASSUME NEW p \in Peers, LoopSpawns(p) PROVE Told'
  BY <1>17 DEF LoopSpawns
<1>18. ASSUME NEW p \in Peers, PeerConnects(p) PROVE Told'
  BY <1>18 DEF PeerConnects
<1>19. ASSUME NEW p \in Peers, TunnelEnds(p) PROVE Told'
  BY <1>19 DEF TunnelEnds
<1>20. ASSUME NEW c \in Closers, CloseLooksUp(c) PROVE Told'
  BY <1>20 DEF CloseLooksUp
<1>21. ASSUME NEW c \in Closers, CloseSwaps(c) PROVE Told'
  BY <1>21 DEF CloseSwaps
<1>22. ASSUME NEW c \in Closers, CloseNotifies(c) PROVE Told'
  BY <1>22 DEF CloseNotifies
<1>23. ASSUME NEW c \in Closers, CloseWakes(c) PROVE Told'
  BY <1>23 DEF CloseWakes
<1>24. ASSUME NEW c \in Closers, CloseCompletes(c) PROVE Told'
  BY <1>24 DEF CloseCompletes
<1>25. CASE UNCHANGED vars BY <1>25 DEF vars
<1> QED
  BY <1>1, <1>2, <1>3, <1>4, <1>5, <1>6, <1>7, <1>8, <1>9, <1>10, <1>11, <1>12,
     <1>13, <1>14, <1>15, <1>16, <1>17, <1>18, <1>19, <1>20, <1>21, <1>22,
     <1>23, <1>24, <1>25
  DEF Next, Opener, AcceptLoop, LoopTeardown, CloseSteps

\* Only a close call that finds the flag set becomes a winner, and clears it.
LEMMA NextOneWinner == TypeOK /\ Told /\ OneWinner /\ [Next]_vars => OneWinner'
<1> SUFFICES ASSUME TypeOK /\ Told /\ OneWinner, [Next]_vars PROVE OneWinner'
  OBVIOUS
<1> USE DEF OneWinner, Winner, Told, TypeOK, LoopPC, vars, openVars, loopVars, tunVars, noteVars, LoopGoes, CloserGoes, Deliver
<1>1. CASE OpenFails BY <1>1 DEF OpenFails
<1>2. CASE OpenBinds BY <1>2 DEF OpenBinds
<1>3. CASE OpenInserts BY <1>3 DEF OpenInserts
<1>4. CASE OpenReports BY <1>4 DEF OpenReports
<1>5. CASE LoopShutdown BY <1>5 DEF LoopShutdown
<1>6. CASE LoopLiveness BY <1>6 DEF LoopLiveness
<1>7. CASE LoopAcceptError BY <1>7 DEF LoopAcceptError
<1>8. CASE LoopStops BY <1>8 DEF LoopStops
<1>9. CASE LoopUnlistens BY <1>9 DEF LoopUnlistens
<1>10. CASE LoopAborts BY <1>10 DEF LoopAborts
<1>11. CASE LoopUnregisters BY <1>11 DEF LoopUnregisters
<1>12. CASE LoopAnnounces BY <1>12 DEF LoopAnnounces
<1>13. CASE LoopNotifies BY <1>13 DEF LoopNotifies
<1>14. CASE UpstreamDies BY <1>14 DEF UpstreamDies
<1>15. ASSUME NEW p \in Peers, LoopRefuses(p) PROVE OneWinner'
  BY <1>15 DEF LoopRefuses
<1>16. ASSUME NEW p \in Peers, LoopAccepts(p) PROVE OneWinner'
  BY <1>16 DEF LoopAccepts
<1>17. ASSUME NEW p \in Peers, LoopSpawns(p) PROVE OneWinner'
  BY <1>17 DEF LoopSpawns
<1>18. ASSUME NEW p \in Peers, PeerConnects(p) PROVE OneWinner'
  BY <1>18 DEF PeerConnects
<1>19. ASSUME NEW p \in Peers, TunnelEnds(p) PROVE OneWinner'
  BY <1>19 DEF TunnelEnds
<1>20. ASSUME NEW c \in Closers, CloseLooksUp(c) PROVE OneWinner'
  BY <1>20 DEF CloseLooksUp
<1>21. ASSUME NEW c \in Closers, CloseSwaps(c) PROVE OneWinner'
  BY <1>21 DEF CloseSwaps
<1>22. ASSUME NEW c \in Closers, CloseNotifies(c) PROVE OneWinner'
  BY <1>22 DEF CloseNotifies
<1>23. ASSUME NEW c \in Closers, CloseWakes(c) PROVE OneWinner'
  BY <1>23 DEF CloseWakes
<1>24. ASSUME NEW c \in Closers, CloseCompletes(c) PROVE OneWinner'
  BY <1>24 DEF CloseCompletes
<1>25. CASE UNCHANGED vars BY <1>25 DEF vars
<1> QED
  BY <1>1, <1>2, <1>3, <1>4, <1>5, <1>6, <1>7, <1>8, <1>9, <1>10, <1>11, <1>12,
     <1>13, <1>14, <1>15, <1>16, <1>17, <1>18, <1>19, <1>20, <1>21, <1>22,
     <1>23, <1>24, <1>25
  DEF Next, Opener, AcceptLoop, LoopTeardown, CloseSteps

\* A winner never goes back, so that a stop without a reason keeps its witness.
LEMMA NextReasoned == TypeOK /\ Reasoned /\ [Next]_vars => Reasoned'
<1> SUFFICES ASSUME TypeOK /\ Reasoned, [Next]_vars PROVE Reasoned'
  OBVIOUS
<1> USE DEF Reasoned, AppClosed, TypeOK, LoopPC, vars, openVars, loopVars, tunVars, noteVars, LoopGoes, CloserGoes, Deliver
<1>1. CASE OpenFails BY <1>1 DEF OpenFails
<1>2. CASE OpenBinds BY <1>2 DEF OpenBinds
<1>3. CASE OpenInserts BY <1>3 DEF OpenInserts
<1>4. CASE OpenReports BY <1>4 DEF OpenReports
<1>5. CASE LoopShutdown BY <1>5 DEF LoopShutdown
<1>6. CASE LoopLiveness BY <1>6 DEF LoopLiveness
<1>7. CASE LoopAcceptError BY <1>7 DEF LoopAcceptError
<1>8. CASE LoopStops BY <1>8 DEF LoopStops
<1>9. CASE LoopUnlistens BY <1>9 DEF LoopUnlistens
<1>10. CASE LoopAborts BY <1>10 DEF LoopAborts
<1>11. CASE LoopUnregisters BY <1>11 DEF LoopUnregisters
<1>12. CASE LoopAnnounces BY <1>12 DEF LoopAnnounces
<1>13. CASE LoopNotifies BY <1>13 DEF LoopNotifies
<1>14. CASE UpstreamDies BY <1>14 DEF UpstreamDies
<1>15. ASSUME NEW p \in Peers, LoopRefuses(p) PROVE Reasoned'
  BY <1>15 DEF LoopRefuses
<1>16. ASSUME NEW p \in Peers, LoopAccepts(p) PROVE Reasoned'
  BY <1>16 DEF LoopAccepts
<1>17. ASSUME NEW p \in Peers, LoopSpawns(p) PROVE Reasoned'
  BY <1>17 DEF LoopSpawns
<1>18. ASSUME NEW p \in Peers, PeerConnects(p) PROVE Reasoned'
  BY <1>18 DEF PeerConnects
<1>19. ASSUME NEW p \in Peers, TunnelEnds(p) PROVE Reasoned'
  BY <1>19 DEF TunnelEnds
<1>20. ASSUME NEW c \in Closers, CloseLooksUp(c) PROVE Reasoned'
  BY <1>20 DEF CloseLooksUp
<1>21. ASSUME NEW c \in Closers, CloseSwaps(c) PROVE Reasoned'
  BY <1>21 DEF CloseSwaps
<1>22. ASSUME NEW c \in Closers, CloseNotifies(c) PROVE Reasoned'
  BY <1>22 DEF CloseNotifies
<1>23. ASSUME NEW c \in Closers, CloseWakes(c) PROVE Reasoned'
  BY <1>23 DEF CloseWakes
<1>24. ASSUME NEW c \in Closers, CloseCompletes(c) PROVE Reasoned'
  BY <1>24 DEF CloseCompletes
<1>25. CASE UNCHANGED vars BY <1>25 DEF vars
<1> QED
  BY <1>1, <1>2, <1>3, <1>4, <1>5, <1>6, <1>7, <1>8, <1>9, <1>10, <1>11, <1>12,
     <1>13, <1>14, <1>15, <1>16, <1>17, <1>18, <1>19, <1>20, <1>21, <1>22,
     <1>23, <1>24, <1>25
  DEF Next, Opener, AcceptLoop, LoopTeardown, CloseSteps

\* No step sets the flag again, and the loop clears it before it unregisters.
LEMMA NextShut == TypeOK /\ Shut /\ [Next]_vars => Shut'
<1> SUFFICES ASSUME TypeOK /\ Shut, [Next]_vars PROVE Shut'
  OBVIOUS
<1> USE DEF Shut, TypeOK, LoopPC, OpenerPC, CloserPC, vars, openVars, loopVars, tunVars, noteVars, LoopGoes, CloserGoes, Deliver
<1>1. CASE OpenFails BY <1>1 DEF OpenFails
<1>2. CASE OpenBinds BY <1>2 DEF OpenBinds
<1>3. CASE OpenInserts BY <1>3 DEF OpenInserts
<1>4. CASE OpenReports BY <1>4 DEF OpenReports
<1>5. CASE LoopShutdown BY <1>5 DEF LoopShutdown
<1>6. CASE LoopLiveness BY <1>6 DEF LoopLiveness
<1>7. CASE LoopAcceptError BY <1>7 DEF LoopAcceptError
<1>8. CASE LoopStops BY <1>8 DEF LoopStops
<1>9. CASE LoopUnlistens BY <1>9 DEF LoopUnlistens
<1>10. CASE LoopAborts BY <1>10 DEF LoopAborts
<1>11. CASE LoopUnregisters BY <1>11 DEF LoopUnregisters
<1>12. CASE LoopAnnounces BY <1>12 DEF LoopAnnounces
<1>13. CASE LoopNotifies BY <1>13 DEF LoopNotifies
<1>14. CASE UpstreamDies BY <1>14 DEF UpstreamDies
<1>15. ASSUME NEW p \in Peers, LoopRefuses(p) PROVE Shut'
  BY <1>15 DEF LoopRefuses
<1>16. ASSUME NEW p \in Peers, LoopAccepts(p) PROVE Shut'
  BY <1>16 DEF LoopAccepts
<1>17. ASSUME NEW p \in Peers, LoopSpawns(p) PROVE Shut'
  BY <1>17 DEF LoopSpawns
<1>18. ASSUME NEW p \in Peers, PeerConnects(p) PROVE Shut'
  BY <1>18 DEF PeerConnects
<1>19. ASSUME NEW p \in Peers, TunnelEnds(p) PROVE Shut'
  BY <1>19 DEF TunnelEnds
<1>20. ASSUME NEW c \in Closers, CloseLooksUp(c) PROVE Shut'
  BY <1>20 DEF CloseLooksUp
<1>21. ASSUME NEW c \in Closers, CloseSwaps(c) PROVE Shut'
  BY <1>21 DEF CloseSwaps
<1>22. ASSUME NEW c \in Closers, CloseNotifies(c) PROVE Shut'
  BY <1>22 DEF CloseNotifies
<1>23. ASSUME NEW c \in Closers, CloseWakes(c) PROVE Shut'
  BY <1>23 DEF CloseWakes
<1>24. ASSUME NEW c \in Closers, CloseCompletes(c) PROVE Shut'
  BY <1>24 DEF CloseCompletes
<1>25. CASE UNCHANGED vars BY <1>25 DEF vars
<1> QED
  BY <1>1, <1>2, <1>3, <1>4, <1>5, <1>6, <1>7, <1>8, <1>9, <1>10, <1>11, <1>12,
     <1>13, <1>14, <1>15, <1>16, <1>17, <1>18, <1>19, <1>20, <1>21, <1>22,
     <1>23, <1>24, <1>25
  DEF Next, Opener, AcceptLoop, LoopTeardown, CloseSteps

\* The invariant behind the theorems below holds in every run.
THEOREM Invariance == Spec => []IInv
<1>1. IInv /\ [Next]_vars => IInv'
  BY NextCounts, NextTypeOK, NextTold, NextOneWinner, NextReasoned, NextShut DEF IInv
<1> QED
  BY InitIInv, <1>1, PTL DEF Spec

\* Every variable keeps its type: in particular the counter of tunnels, an unsigned
\* integer in the code, never wraps below zero.
THEOREM TypeCorrect == Spec => []TypeOK
<1>1. IInv => TypeOK
  BY DEF IInv
<1> QED
  BY Invariance, <1>1, PTL

\* The counter of live tunnels is exact and within the cap, for any number of
\* clients: no refusal, end or abort makes it drift.
THEOREM CounterExact == Spec => []CountExact
<1>1. IInv => CountExact
  BY DEF IInv, Counts, CountExact
<1> QED
  BY Invariance, <1>1, PTL

\* However many close calls overlap, one at most stops the forward, and it returns
\* only after on_closed.
THEOREM OneWinnerWaits == Spec => []WinnerWaits
<1>1. IInv => WinnerWaits
  BY DEF IInv, OneWinner, Winner, WinnerWaits
<1> QED
  BY Invariance, <1>1, PTL

\* on_closed comes once, and without a reason only if the app closed the forward.
THEOREM ReasonIsTrue == Spec => []ReasonTruthful
<1>1. IInv => ReasonTruthful
  BY DEF IInv, Told, Reasoned, AppClosed, ReasonTruthful, TypeOK
<1> QED
  BY Invariance, <1>1, PTL

\* A forward that is closed looks closed, in whatever order the loop's end and the
\* insertion of its handle come.
THEOREM LooksClosed == Spec => []ClosedLooksClosed
<1>1. IInv => ClosedLooksClosed
  BY DEF IInv, Told, Shut, IsOpen, ClosedLooksClosed, TypeOK
<1> QED
  BY Invariance, <1>1, PTL

\* No tunnel starts once the app was told that the forward is closed.
THEOREM NothingAfterClosed == Spec => NoTunnelAfterClosed
<1>1. IInv /\ [Next]_vars => [cb["closed"] = 1 => Guarded' \subseteq Guarded]_vars
  <2> SUFFICES ASSUME IInv, [Next]_vars, cb["closed"] = 1 PROVE Guarded' \subseteq Guarded
    OBVIOUS
  <2>1. loop \in {"notify", "done"}
    BY DEF IInv, Told
  <2>2. tunnel' = tunnel \/ \E p \in Peers : PeerConnects(p) \/ TunnelEnds(p)
    BY <2>1 DEF Next, vars, Opener, OpenFails, OpenBinds, OpenInserts, OpenReports,
       AcceptLoop, LoopShutdown, LoopLiveness, LoopAcceptError, LoopTeardown, LoopStops,
       LoopUnlistens, LoopAborts, LoopUnregisters, LoopAnnounces, LoopNotifies,
       LoopRefuses, LoopAccepts, LoopSpawns, LoopGoes, UpstreamDies, CloseLooksUp,
       CloseSteps, CloseSwaps, CloseNotifies, CloseWakes, CloseCompletes, tunVars
  <2>3. ASSUME NEW p \in Peers, PeerConnects(p) PROVE Guarded' \subseteq Guarded
    BY <2>3 DEF IInv, TypeOK, PeerConnects, Guarded
  <2>4. ASSUME NEW p \in Peers, TunnelEnds(p) PROVE Guarded' \subseteq Guarded
    BY <2>4 DEF IInv, TypeOK, TunnelEnds, Guarded
  <2> QED
    BY <2>2, <2>3, <2>4 DEF Guarded
<1> QED
  BY Invariance, <1>1, PTL DEF Spec, NoTunnelAfterClosed
=============================================================================
