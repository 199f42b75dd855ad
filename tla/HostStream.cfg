\* A host that hands over the whole response or reports an error.
SPECIFICATION Spec
CONSTANTS
    HeaderLen = 2
    Responses <- MCResponses
    Truncates = FALSE
CHECK_DEADLOCK FALSE
INVARIANTS
    NoByteLost
PROPERTIES
    FramesInOrder
    EventuallyClosed
