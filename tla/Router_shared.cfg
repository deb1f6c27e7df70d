SPECIFICATION HistorySpec
CONSTANTS
    Backends <- TwoBackends
    Rank <- TwoRank
    ProviderOf <- TwoProviderOf
    ModelOf <- TwoModelOf
    Requests = {r1, r2}
    Models = {"auto"}
    Sessions = {}
    Streaming = {TRUE, FALSE}
    Answers <- Outages
    Forceable = {"b1"}
    Recoverable = {"b1"}
    MaxRetries = 1
    MaxConsec = 3
    None = None
INVARIANTS
    ConsecIsConsecutive
PROPERTIES
    CooldownHeld
    RejectedKeyHeld
    ForcedModelHeld
SYMMETRY Slots
