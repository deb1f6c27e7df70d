SPECIFICATION FairSpec
CONSTANTS
    BackendKeys = {k1}
    Requests = {r1, r2}
    Callbacks = {c1, c2}
    MaxObjects = 2
    MaxConsec = 3
    None = None
INVARIANTS
    CountSurvivesReload
PROPERTIES
    CooldownEndsUnlessHeld
    RejectionSurvivesReload
CHECK_DEADLOCK FALSE
