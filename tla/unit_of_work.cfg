SPECIFICATION FairSpec
CONSTANTS
    Entities = {e1, e2}
    e1 = e1
    e2 = e2
    Kind <- TwoKinds
    MaxAttempts = 2
    Budget <- SomeFailures
INVARIANT TypeOK
INVARIANT AllOrNothing
INVARIANT Durable
INVARIANT EventsPrecedeSaves
PROPERTY ImplementsStore
PROPERTY CallsEnd
CHECK_DEADLOCK FALSE
