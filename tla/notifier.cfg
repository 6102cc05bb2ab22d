SPECIFICATION Spec
CONSTANTS
    n1 = n1
    n2 = n2
    n3 = n3
    Notifications = {n1, n2, n3}
    None = none
    MaxRunning = 2
INVARIANT TypeOK
INVARIANT OwnPayload
INVARIANT ThrowsExplained
INVARIANT LaterPayloadsInclude
SYMMETRY Permuted
CHECK_DEADLOCK FALSE
