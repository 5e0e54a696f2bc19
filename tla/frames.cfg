CONSTANTS
    Threads = {t1, t2, t3, t4, t5}
    NoThread = NoThread
SYMMETRY ThreadSymmetry
CHECK_DEADLOCK FALSE
SPECIFICATION Spec
INVARIANTS
    FramesInv
    ValuesInv
    NoDanglingReference
    NoAliasing
    NoRaceOnTaskState
PROPERTY
    AccessesImplementFifoFront
