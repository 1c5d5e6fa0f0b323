SPECIFICATION Spec
CONSTANTS
    None = None
    Agent = {"a1", "a2", "a3"}
    Spelled <- MCSpelled
    Inode = {1, 2}
    Grain = 1
    MaxEntries = 1
    Plans <- MCPlans
    MaxOutside = 1
    Droppable <- MCDroppable
    EditorKind <- MCEditorKind
    Crowds <- MCCrowds
    Budget = 2
    Window = 7
    Gap = 3
    DropAfter = 4
    MaxGap = 8
    MaxTries = 3
    RetryAfter = {1, 9}
    MaxEdits = 2
    ApiKey = {1, 2}
    Cycle = 2
    Tries <- MCTries
    Requests = 1
    MaxChanges = 1
    MaxAged = 1
    Initial = 1
    Longest = 5
    Multiplier = 2
    Cap = 3
    Listens = TRUE
    MaxFaults = 5
    Client = {"c1", "c2"}
    MaxCalls = 2
    MaxDropped = 1
    MaxChatter = 1
    Session = {"o1", "o2"}
    Shell = {1, 2, 3}
    MaxShells = 1
    MaxRuns = 2
    MaxCancelled = 1
    MaxExits = 1
    Rule = {"r1", "r2", "r3"}
    ReadAs <- MCReadAs
    Sections = 2
    Section <- MCSection
    Explicit = {"r1", "r3"}
    Writer = {"w1"}
    Stored <- MCStored
    MaxRules = 2
    RepeatDays = 2
    Lookback = 2
    Retention = 2
    FoldAt = 2
    FoldWindow = 2
    Files = {1, 2, 3, 4}
    MaxDay = 2
    MaxWrites = 1
    MaxDrafts = 3
    MaxCrashes = 1
    Research = {"s1", "s2"}
    Coordinator = {"c1", "c2"}
    Url = {"u1", "u2"}
    Scenes <- MCScenes
    Thread = {"t1", "t2"}
    EmptyAt = 2
    ErrorAt = 3
    Horizon = 2
    Quarantine = 2
    Recovery = 1
    MaxEvents = 3
    MaxTicks = 4
    MaxMishaps = 1
    ChatsOf <- MCChatsOf
    MaxTurns = 2
    MaxDeaths = 2
    MaxUnsent = 1
    WatchdogSec = 2
    Grace = 4
    PollTimeout = 5
    TickInterval = 2
    BuildLimit = 1
    MaxSilence <- MCMaxSilence
    MaxStuck = 1
INVARIANTS FilesHold KeysInTurn AnswersAreOwn StoredIsKept
PROPERTIES LimitsHeld StopsInOrder WorkEnds
\* every part may come to an end
CHECK_DEADLOCK FALSE
