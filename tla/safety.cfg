CONSTANTS
    Threads = {t1, t2, t3, t4}
    NoThread = NoThread
    OptionSet <- PanicOptions
    MaxCalls = Unbounded
    Unbounded = Unbounded
    Faults <- AllFaults
SYMMETRY ThreadSymmetry
CHECK_DEADLOCK FALSE
SPECIFICATION Spec
INVARIANTS
    TypeOK
    FrontExclusive
    NoOrphanedWaiter
    QueuedTasksAlive
    WokenTaskIsHead
    HandleAtFirstUnprocessed
    NonesThenSomes
    GuardDiscipline
    ValueNeitherLostNorRepeated
    SuccessMeansProcessed
PROPERTIES
    HandedOutOnce
    ImplementsFifoFront
