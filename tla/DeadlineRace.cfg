SPECIFICATION DeadlineSpec
CONSTANTS
    Timeout = 3
    MaxWait = 4
    Late = 1
    MaxPrompts = 2
CHECK_DEADLOCK FALSE
INVARIANT NobodyRushed
