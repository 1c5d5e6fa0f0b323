SPECIFICATION Spec
CONSTANTS
    Turn = {t1, t2}
    Note = {}
    None = None
    Keep = 2
    MaxReplies = 1
    MaxShrinks = 0
    MaxAborts = 1
    MaxCrashes = 0
INVARIANTS
    SavedTurnsKept
\* every turn may have ended
CHECK_DEADLOCK FALSE
