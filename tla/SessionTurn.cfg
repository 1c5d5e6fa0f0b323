SPECIFICATION Spec
CONSTANTS
    Turn = {t1, t2, t3}
    Note = {n1}
    None = None
    Keep = 2
    MaxReplies = 1
    MaxShrinks = 0
    MaxAborts = 0
    MaxCrashes = 1
INVARIANTS OneTurn SavedTurnsKept
PROPERTIES SaveIsFaithful BusyEnds
\* every turn may have ended
CHECK_DEADLOCK FALSE
