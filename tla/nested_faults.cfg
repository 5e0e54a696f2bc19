CONSTANTS
    Threads = {t1, t2, t3}
    NoThread = NoThread
    OptionSet <- Propagate
    MaxCalls = 1
    Unbounded = Unbounded
    OwnGuards = TRUE
    Faults <- AllFaults
SYMMETRY ThreadSymmetry
CHECK_DEADLOCK FALSE
SPECIFICATION Spec
PROPERTIES
    OtherQueueIsACaller
