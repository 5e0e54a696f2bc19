---------------------------- MODULE MCNestedCalls ----------------------------
(***************************************************************************)
(* An instance of NestedCalls for TLC.                                     *)
(***************************************************************************)
EXTENDS NestedCalls, TLC

\* Poison is unwrapped: the default options.
Propagate == {[unwrap_mutex_poison |-> TRUE, unwrap_queue_poison |-> TRUE]}
ThreadSymmetry == Permutations(Threads)

AllFaults == {"user_panic", "callback_panic", "push_fails"}
==============================================================================
