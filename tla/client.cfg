SPECIFICATION FairSpec
CONSTANTS
    Docs = {d1, d2, late}
    RejectedEarly = {}
    RejectedLate = {late}
    Main = main
    Handlers = {h1}
    None = none
    Other = other
    Channel = channel
    Optional = TRUE
    PassesHash = TRUE
    StickyContext = TRUE
    Budget <- AllEvents
INVARIANT TypeOK
INVARIANT CurrentWhenTrusted
PROPERTY NotifiedOfHash
PROPERTY EventuallyCurrent
CHECK_DEADLOCK FALSE
