SPECIFICATION ProviderSpec
CONSTANTS
    N = 2
    Call = {x, y}
    BlacklistAfter = 2
    CountMask = 127
    MaxErrors = 2
    MaxRestarts = 1
    NoProvider = NoProvider
INVARIANTS StrikesAccounted
PROPERTIES PendingIsFolded OnlyRefusedAreFiled
SYMMETRY Symmetry
CHECK_DEADLOCK FALSE
