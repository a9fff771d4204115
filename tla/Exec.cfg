SPECIFICATION Spec
CONSTANTS
    Chunks <- MCChunks
    Statuses = {0, 3}
    Limit = 4
    MaxSent = 3
CHECK_DEADLOCK FALSE
INVARIANTS ResultFaithful TextRepaired
PROPERTY LossEnds
