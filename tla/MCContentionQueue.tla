--------------------------- MODULE MCContentionQueue ---------------------------
(***************************************************************************)
(* Instances of ContentionQueue for TLC.                                   *)
(***************************************************************************)
EXTENDS ContentionQueueProps, TLC

\* Poison is unwrapped (the default) or ignored.
PropagateOrIgnore == {o \in PanicOptions : o.unwrap_mutex_poison = o.unwrap_queue_poison}

\* The callers may poison the mutex; callbacks do not panic.
CallerFaults == {"user_panic"}

ThreadSymmetry == Permutations(Threads)

\* A callback may panic, everything else behaves.
CallbackFaults == {"callback_panic"}
==============================================================================
