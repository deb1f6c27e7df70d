SPECIFICATION FairSpec
CONSTANTS
    Backends = {b1}
    Probes = {p1, p2}
    Requests = {r1}
    Callbacks = {c1}
    MaxConsec = 3
    None = None
INVARIANTS
    StoppedIsQuiet
    CheckingHasProbe
PROPERTIES
    RejectionStands
    CooldownKeepsTimer
    IllnessEnds
CHECK_DEADLOCK FALSE
