SPECIFICATION Spec
CONSTANTS
    Topic = {a, b}
    Card = {c}
    Handler = {p, q}
    MaxSessions = 2
    Ttl = 1
    MaxNow = 1
    MaxCommands = 2
    MaxEvents = 1
    None = None
INVARIANTS ApprovalIsEarned PermanentIsDurable
PROPERTIES CutIsReal
SYMMETRY Symmetry
CHECK_DEADLOCK FALSE
