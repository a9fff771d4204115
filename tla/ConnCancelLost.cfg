SPECIFICATION Spec
CONSTANTS
    c1 = c1
    c2 = c2
    Calls = {c1}
    KbiRounds = 1
CHECK_DEADLOCK FALSE
PROPERTY CancelHonoured
