\* Requests whose names collide, whose images meet every limit, of every model
\* of small catalogues, with parameters of every keyword, and conversations.
SPECIFICATION SendSpec
CONSTANTS
    Names <- MCNames
    Compatible <- MCCompatible
    Short <- MCShort
    Clean <- MCClean
    Hashed <- MCHashed
    Indices <- MCIndices
    Numbered <- MCNumbered
    Definitions <- MCDefinitions
    Histories <- MCAllHistories
    Parts <- MCParts
    MessageLists <- WithImagesOrNone
    Requests <- MCAllRequests
    Families <- MCFamilies
    Sibling <- MCSibling
    SortedIds <- MCSortedIds
    Efforts <- MCEfforts
    Static <- MCStatic
    Answers <- MCAnswers
    MaxImages = 3
    MaxImageBytes = 4
    MaxTotalBytes = 6
    Slack = 8
    Schemas <- MCSchemas
    Values <- MCValues
    Arguments <- MCArguments
    Accepts <- MCAccepts
    DepthLimit = 4
    Synthesised <- MCSynthesised
    Conversations <- MCAllConversations
    Kinds <- MCKinds
CHECK_DEADLOCK FALSE
INVARIANTS
    RoundTrip
    ToolsDistinct
    SentIsRequested
    WithinLimits
    LimitsDecide
    LoadsBounded
    ResolvedAsPromised
    ImagesReachTakers
    SchemaKeepsArguments
    FallbackOnlyLoosens
    ResultsReachCalls
PROPERTIES
    NamesStable
    PlainIdsStable
    Decided
