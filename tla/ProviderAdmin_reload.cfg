SPECIFICATION Spec
CONSTANTS
    Known = {"custom"}
    Unknown = {"gone"}
    Keys = {"k1"}
    NoKey = NoKey
    Machines = {"host", "container"}
    ModelNames = {"m1", "m2"}
    MaxInstances = 2
    MaxModels = 2
    None = None
    Handlers = {h1, h2}
    ChannelCap = 1
    MaxCalls = 3
    MaxCrashes = 1
PROPERTIES
    CurrentInStep
    PoolInStep
    DeletedStaysDeleted
    CountedModelsKept
    KeyKeptByEdit
CHECK_DEADLOCK FALSE
