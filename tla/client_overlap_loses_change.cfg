SPECIFICATION Spec
CONSTANTS
    Docs = {d1, d2}
    RejectedEarly = {}
    RejectedLate = {}
    Main = main
    Handlers = {h1}
    None = none
    Other = other
    Channel = channel
    Optional = FALSE
    PassesHash = FALSE
    StickyContext = FALSE
    Budget <- OnlyOverlap
INVARIANT ReloadedOnChange
CHECK_DEADLOCK FALSE
