SPECIFICATION FairSpec
CONSTANTS
    Backends = {b1}
    Callers = {g1}
    TimerIds <- MCTimerIds
    None = None
    MaxConsec = 4
    Backoff <- MCBackoff
    RateLimitCooldowns <- MCRateLimitCooldowns
PROPERTIES
    CooldownEnds
