SPECIFICATION Spec
CONSTANTS
    p1 = p1
    p2 = p2
    p3 = p3
    k1 = k1
    k2 = k2
    Peers = {p1, p2, p3}
    Closers = {k1, k2}
    MaxConnections = 2
CHECK_DEADLOCK FALSE
INVARIANTS TypeOK CountExact ReasonTruthful WinnerWaits ClosedLooksClosed
PROPERTIES CloseCompletesEventually TunnelsDrain LostUpstreamCloses
