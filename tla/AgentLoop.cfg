SPECIFICATION Spec
CONSTANTS
  Steer = {s}
  Tool = {t}
  Args = {a}
  MaxIterations = 2
  MaxEmpty = 1
  BlockAt = 3
  HaltAt = 3
  ChannelCap = 2
  MaxCalls = 2
  MaxAccepted = 2
  Hazards = {"abort", "deadline", "drop", "lsp", "cards", "compact"}
  Sessions <- MCSessions
  Given = 2
  Open <- MCOpen
INVARIANTS SteersKept RequestsArePaired RepeatsAreBlocked
PROPERTIES FailureKeepsSteers CancelEnds
