CONSTANTS
    Threads = {t1, t2, t3}
    Mutexes = {m1, m2}
    NoMutex = NoMutex
    Addrs = {a1, a2}
    Zero = Zero
CHECK_DEADLOCK FALSE
SPECIFICATION Spec

INVARIANTS
    OneMutexInUse
    OnlyForeignGuardsOverlap
    BindingInv
