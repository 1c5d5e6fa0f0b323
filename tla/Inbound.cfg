SPECIFICATION Spec
CONSTANTS
    Scenarios <- MCScenarios
    MaxItems = 2
    RunCap = 2
INVARIANTS MessagesAccounted OneAtATime
PROPERTIES EveryTaskEnds
CHECK_DEADLOCK FALSE
