\* A host that may end the response early without an error.
SPECIFICATION Spec
CONSTANTS
    HeaderLen = 2
    Responses <- ShortResponses
    Truncates = TRUE
CHECK_DEADLOCK FALSE
INVARIANTS
    EofBetweenFrames
