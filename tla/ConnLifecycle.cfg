SPECIFICATION Spec
CONSTANTS
    c1 = c1
    c2 = c2
    Calls = {c1, c2}
    KbiRounds = 2
CHECK_DEADLOCK FALSE
INVARIANTS TypeOK PromptAnswerable
PROPERTIES Contract AttemptTerminates Releases
