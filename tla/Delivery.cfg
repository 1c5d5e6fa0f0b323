SPECIFICATION StreamSpec
CONSTANTS
    Chat = {"a", "b"}
    Thread = {1, 2}
    MessageId = {1, 2, 3, 4}
    Session = {1, 2}
    SourceRef = {}
    RequestedId = {1, 2}
    None = None
    Cap = 1
    MirrorCap = 1
    MaxGenerated = 1
    Home <- MCHome
    Plans <- MCPlans
    Overlap = FALSE
    Neighbours <- MCNeighbours
    MaxFaults = 1
INVARIANTS StopIsRight MirrorsGetFinal
PROPERTIES EverythingEnds
CHECK_DEADLOCK FALSE
