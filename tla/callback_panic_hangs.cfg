CONSTANTS
    Threads = {t1, t2, t3}
    NoThread = NoThread
    OptionSet <- PropagateOrIgnore
    MaxCalls = 1
    Unbounded = Unbounded
    Faults <- CallbackFaults
CHECK_DEADLOCK FALSE
SPECIFICATION FairSpec
PROPERTY WaitersWoken
