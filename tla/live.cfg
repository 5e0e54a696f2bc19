CONSTANTS
    Threads = {t1, t2, t3}
    NoThread = NoThread
    OptionSet <- PropagateOrIgnore
    MaxCalls = 2
    Unbounded = Unbounded
    Faults <- CallerFaults
CHECK_DEADLOCK TRUE
SPECIFICATION FairSpec
PROPERTIES
    EveryCallReturns
    ImplementsFairFifoFront
