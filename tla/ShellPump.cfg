SPECIFICATION ReadingSpec
CONSTANTS
    w1 = w1
    w2 = w2
    w3 = w3
    k1 = k1
    k2 = k2
    Writers = {w1, w2, w3}
    Closers = {k1, k2}
    Size <- MCSize
    MaxPending = 4
    QueueLen = 2
CHECK_DEADLOCK FALSE
INVARIANTS TypeOK Accounting CloseWaits
PROPERTIES WritesSettle CloseCompletesEventually
