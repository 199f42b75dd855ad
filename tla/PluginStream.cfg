\* Frames that name a call when they start it, and a client that may go away.
SPECIFICATION Spec
CONSTANTS
    Frames <- StartFrames
    MaxFrames = 4
CHECK_DEADLOCK FALSE
INVARIANTS
    StreamMatchesCompletion
    NoBodyLeak
PROPERTIES
    ImplementsChatStream
    DisconnectCloses
