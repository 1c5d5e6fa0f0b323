SPECIFICATION Spec
CONSTANTS
    Turn = {t1, t2}
    Note = {}
    None = None
    Keep = 1
    MaxReplies = 2
    MaxShrinks = 1
    MaxAborts = 1
    MaxCrashes = 1
INVARIANTS StuckFree DiskCount
PROPERTIES AbortReachesLoop
SYMMETRY TurnSymmetry
\* every turn may have ended
CHECK_DEADLOCK FALSE
