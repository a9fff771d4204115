SPECIFICATION InnerSpec
CONSTANTS
    Rounds = 16
    Firsts <- MCFirsts
    HostBits = {1024, 2048}
    Passphrases = {"none", "p", "q"}
    NoPassphrase = "none"
CHECK_DEADLOCK FALSE
INVARIANTS InnerTypeOK AcceptanceReported PromptsWellAnswered PinnedPresented WeakIsPolicy
PROPERTY AttemptEnds
