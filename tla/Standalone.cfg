\* Requests with and without tools and a client that may go away; two auth
\* records that are edited, removed and reloaded.
SPECIFICATION StandaloneSpec
CONSTANTS
    Frames <- SdkFrames
    MaxFrames = 4
    AuthIds <- RecordIds
    TokensOf <- RecordTokens
    Static = Static
    Absent = Absent
    MaxChanges = 3
CHECK_DEADLOCK FALSE
INVARIANTS
    NoBodyLeak
    RegisteredModelsOwn
PROPERTIES
    ImplementsChatStream
    DisconnectCloses
    RegistryCatchesUp
