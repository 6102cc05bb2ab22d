SPECIFICATION Spec
CONSTANTS
    Segments <- Some
    Digits <- FirstDigits
    Nodes <- AllNodes
    MaxDepth = 3
    Documents <- AllDocuments
    Malformed = malformed
    MaxParses = 2
INVARIANT ParsesTheStream
CHECK_DEADLOCK FALSE
