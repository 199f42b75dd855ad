\* The retry, against "before any output triggers one conservative retry".
SPECIFICATION Spec
CONSTANTS
    Frames <- SdkFrames
    MaxFrames = 1
CHECK_DEADLOCK FALSE
INVARIANTS
    RejectionRetried
