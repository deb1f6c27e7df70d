SPECIFICATION FairSpec
CONSTANTS
    Backends <- TwoBackends
    Rank <- TwoRank
    ProviderOf <- TwoProviderOf
    ModelOf <- TwoModelOf
    Requests = {r1}
    Models = {"auto", "m2", "absent"}
    Sessions = {s1}
    Streaming = {TRUE, FALSE}
    Answers <- RetryAnswers
    Forceable = {"b1"}
    Recoverable = {"b1"}
    MaxRetries = 1
    MaxConsec = 1
    None = None
PROPERTIES
    RetriesTold
    ImplementsFallback
    EveryRequestEnds
