SPECIFICATION Spec
CONSTANTS
    Builtin = {"openrouter", "zenmux"}
    BuiltinModels <- MCBuiltinModels
    Admins = {a1, a2}
    Backends = {b1, b2}
    Modes = {"fastest", "adaptive"}
    Strategies = {"balanced", "fastest"}
    MaxCrashes = 2
    MaxInstances = 4
    None = None
INVARIANTS
    StartSucceeds
    SeededOnce
    SeedWhole
    RouteSurvives
CHECK_DEADLOCK FALSE
