SPECIFICATION FairSpec
CONSTANTS
    Segments <- Some
    Digits <- FirstDigits
    Nodes <- AllNodes
    MaxDepth = 3
    Documents <- AllDocuments
    Malformed = malformed
    MaxParses = 3
INVARIANT TypeOK
INVARIANT ReturnsTheLeaves
INVARIANT StackRestored
INVARIANT ThrowsOnlyOnAmbiguity
PROPERTY ParseEnds
CHECK_DEADLOCK FALSE
