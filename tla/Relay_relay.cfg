SPECIFICATION Spec
CONSTANTS
    DefaultMax = 9
    Backends = {"b1", "b2"}
    FormatChoices <- EveryFormat
    Conversations <- Spoken
    Words <- MCWords
    Thought <- MCThought
    Reasons = {"end", "length", "filter"}
    MaxRetries = 1
    NoRequest = NoRequest
INVARIANTS
    RequestReachesVendor
    ReplyReachesClient
    StreamWellFormed
    StreamTextKept
    BlameMatchesAnswers
PROPERTIES
    ImplementsFallback
CHECK_DEADLOCK FALSE
