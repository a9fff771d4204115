SPECIFICATION ReadingSpec
CONSTANTS
    out = out
    err = err
    Kinds = {out, err}
    Sizes = {1, 2, 5}
    Interactive = 2
    MaxCoalesced = 4
    MaxChunks = 4
CHECK_DEADLOCK FALSE
INVARIANTS Inv
PROPERTIES StreamKept HeldIsDelivered
