----------------------------- MODULE NestedCalls -----------------------------
(***************************************************************************)
(* Two ContentionQueues that are used with the same Mutex, and closures    *)
(* given to QueueHandle::unlocked that call the other queue: what the      *)
(* documentation of process leaves to the caller ("the usual threats of    *)
(* deadlocks").  Each queue is a ContentionQueue with variables of its     *)
(* own; owner, poisoned and parked are those of the mutex and the threads. *)
(*                                                                         *)
(* The callers keep the usual order of nested locks: while it is at the    *)
(* front of queue A a thread may call B, and not the other way round.      *)
(***************************************************************************)
EXTENDS StdSync, Naturals, Sequences

CONSTANTS OptionSet, MaxCalls, Unbounded, Faults,
          OwnGuards  \* do callers lock the mutex for themselves, too?

ASSUME NestedAssumption ==
    /\ OptionSet \subseteq
            [unwrap_mutex_poison: BOOLEAN, unwrap_queue_poison: BOOLEAN]
    /\ MaxCalls \in Nat \cup {Unbounded}
    /\ Faults \subseteq {"user_panic", "callback_panic", "push_fails"}
    /\ OwnGuards \in BOOLEAN

VARIABLES
    bitsA, optionsA, frontLockedA, queuePoisonedA, queueA, valueA, pcA, entryA,
    outcomeA, nextIdxA, abortedA, callsA, fateA,
    bitsB, optionsB, frontLockedB, queuePoisonedB, queueB, valueB, pcB, entryB,
    outcomeB, nextIdxB, abortedB, callsB, fateB

varsA == <<bitsA, optionsA, frontLockedA, queuePoisonedA, queueA, valueA, pcA,
           entryA, outcomeA, nextIdxA, abortedA, callsA, fateA>>
varsB == <<bitsB, optionsB, frontLockedB, queuePoisonedB, queueB, valueB, pcB,
           entryB, outcomeB, nextIdxB, abortedB, callsB, fateB>>
vars == <<owner, poisoned, parked, varsA, varsB>>

A == INSTANCE QueueView WITH
    bits <- bitsA, options <- optionsA, frontLocked <- frontLockedA,
    queuePoisoned <- queuePoisonedA, queue <- queueA, value <- valueA,
    pc <- pcA, entry <- entryA, outcome <- outcomeA, nextIdx <- nextIdxA,
    aborted <- abortedA, calls <- callsA, fate <- fateA

B == INSTANCE QueueView WITH
    bits <- bitsB, options <- optionsB, frontLocked <- frontLockedB,
    queuePoisoned <- queuePoisonedB, queue <- queueB, value <- valueB,
    pc <- pcB, entry <- entryB, outcome <- outcomeB, nextIdx <- nextIdxB,
    aborted <- abortedB, calls <- callsB, fate <- fateB

Init == A!Init /\ B!Init

-----------------------------------------------------------------------------
\* Where a thread's innermost call is.

\* Mutant: unlocked does not wait for what its closure does.
ClosureNotAwaited(t) == TRUE

\* Code of A runs, or the closure that A has called is not in B.
RunsA(t) == pcB[t] = "idle"

\* Code of B runs, or may be called: from outside, or from A's closure.
MayRunB(t) == pcA[t] \in {"idle", "unlocked"}

OnA(t, step) == RunsA(t) /\ step /\ UNCHANGED varsB
OnB(t, step) == MayRunB(t) /\ step /\ UNCHANGED varsA

\* A's closures lock the mutex as callers of B.
Step(t) ==
    \/ OnA(t, A!QueueStep(t) /\ (OwnGuards \/ pcA'[t] # "guarded"))
    \/ OnB(t, B!QueueStep(t) /\ (OwnGuards \/ pcB'[t] # "guarded"))

Terminated ==
    /\ A!Terminated
    /\ B!Terminated

Next ==
    /\ ~abortedA /\ ~abortedB
    /\ \/ \E t \in Threads : Step(t)
       \/ A!ClearMutexPoison /\ UNCHANGED varsB
       \/ Terminated

Spec == Init /\ [][Next]_vars

\* The steps a thread may not put off for ever: those of ContentionQueueProps'
\* FairSpec.  A closure that has called B returns when that call has.
ProgressA(t) ==
    \/ A!CallStep(t) \/ A!KeepWaiting(t)
    \/ A!ClosureReturns(t) \/ A!RelockAndResume(t)
ProgressB(t) ==
    \/ B!CallStep(t) \/ B!KeepWaiting(t)
    \/ B!ClosureReturns(t) \/ B!RelockAndResume(t)

FairSpec ==
    /\ Spec
    /\ \A t \in Threads :
        /\ WF_vars(OnA(t, ProgressA(t)) \/ OnB(t, ProgressB(t)))
        /\ WF_vars(OnA(t, A!UserUnlock(t)) \/ OnB(t, B!UserUnlock(t)))
        /\ SF_vars(OnA(t, A!CallbackReturns(t)) \/ OnB(t, B!CallbackReturns(t)))

-----------------------------------------------------------------------------
\* Calls that nest in the order of the queues all return: unlocked gives up
\* the mutex that the inner call needs, takes it back after it, and no thread
\* that waits in one queue keeps the other from handing over.
NestedCallsReturn ==
    \A t \in Threads :
        A!InCall(t) \/ B!InCall(t) ~> ~A!InCall(t) /\ ~B!InCall(t)

\* Whatever one queue does with the mutex and its threads is what a caller of
\* the other one might do: what ContentionQueue says of one queue is true of
\* each of two, nested or not.
OtherQueueIsACaller == A!Seen!Spec /\ B!Seen!Spec
==============================================================================
