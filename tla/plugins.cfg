SPECIFICATION ServiceSpec
CONSTANTS
    p1 = p1
    p2 = p2
    p3 = p3
    apart1 = apart1
    object = object
    someEvent = someEvent
    NoEvent = noEvent
    Middlewares = {p1, p2, p3, apart1, object}
    IsPlugin = {p1, p2, p3, apart1}
    Plugins = {p1, p2, apart1}
    Events = {someEvent}
    Level <- Levels
    Runs <- Interfaces
    EventCode <- EventCodes
    OwnLists <- Lists
    MaxCalls = 2
INVARIANT TypeOK
INVARIANT InOrder
INVARIANT LevelsAscend
INVARIANT FinalComesLast
INVARIANT OverrunExplained
INVARIANT WholeChainRuns
INVARIANT UnconfiguredExplained
PROPERTY ExecutionEnds
CHECK_DEADLOCK FALSE
