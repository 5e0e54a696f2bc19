CONSTANTS
    Threads = {t1, t2, t3}
    NoThread = NoThread
    OptionSet <- Propagate
    MaxCalls = 1
    Unbounded = Unbounded
    OwnGuards = FALSE
    Faults = {}
CHECK_DEADLOCK TRUE
SPECIFICATION FairSpec
PROPERTIES
    NestedCallsReturn
