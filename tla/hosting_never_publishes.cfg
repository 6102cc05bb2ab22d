SPECIFICATION Spec
CONSTANTS
    Paths = {p1, p2}
    Publisher = rabbitMq
    Null = null
INVARIANT PublishedOnChange
CHECK_DEADLOCK FALSE
