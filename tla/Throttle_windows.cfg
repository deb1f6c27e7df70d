SPECIFICATION Spec
CONSTANTS
    Callers = {c1, c2}
    Kinds <- MCKinds
    RequestKinds = 1
    Duration <- MCDuration
    Limit <- MCLimit
    Cost <- MCCost
    Day = 2
    MaxTime = 3
    MaxRecords = 3
    Window = 2
    Threshold = 3
    Cooldown = 3
    Max429s = 3
INVARIANTS
    WindowCounts
    OvershootBounded
    QuotaCountsToday
    SkipMatchesHistory
CHECK_DEADLOCK FALSE
