SPECIFICATION Spec
CONSTANTS
    Chat = {c1, c2}
    Thread = {t1}
    MessageId = {m1}
    Session = {s1, s2, s3}
    SourceRef = {src}
    RequestedId = {a}
    None = None
    Cap = 2
    MirrorCap = 1
    MaxGenerated = 2
INVARIANTS IndexesMatch Capacity
PROPERTIES ImplementsLiveRuns
SYMMETRY Symmetry
CHECK_DEADLOCK FALSE
