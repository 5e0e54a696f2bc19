CONSTANTS
    Threads = {t1, t2, t3}
    NoThread = NoThread
    OptionSet <- PanicOptions
    MaxCalls = Unbounded
    Unbounded = Unbounded
    Faults <- CallerFaults
CHECK_DEADLOCK FALSE
SYMMETRY ThreadSymmetry
SPECIFICATION Spec
INVARIANT PanickedResultMeansPanic
