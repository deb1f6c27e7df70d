SPECIFICATION FairSpec
CONSTANTS
    Backends = {b1}
    Callers = {g1, g2}
    TimerIds <- MCTimerIds
    None = None
    MaxConsec = 4
    Backoff <- MCBackoff
    RateLimitCooldowns <- MCRateLimitCooldowns
INVARIANTS
    OnlyRegisteredTimerArmed
    RegisteredTimerIsLive
PROPERTIES
    TimerCoversCooldown
    CooldownEndsUnlessCollision
