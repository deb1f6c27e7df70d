SPECIFICATION Spec
CONSTANTS
    DefaultMax = 9
    Backends = {"b1", "b2"}
    FormatChoices <- GeminiOnly
    Conversations <- ChatStreams
    Words <- MCWords
    Thought <- MCThought
    Reasons = {"end", "length", "filter"}
    MaxRetries = 1
    NoRequest = NoRequest
INVARIANTS
    StreamTranslated
CHECK_DEADLOCK FALSE
