------------------------------ MODULE QueueState ------------------------------
(***************************************************************************)
(* The state of a ContentionQueue (src/queue_state.rs, the struct of       *)
(* src/queue.rs, the erased tasks of src/task.rs) and of the calls that    *)
(* run on it.                                                              *)
(*                                                                         *)
(* A call pushes at most one task and a thread runs at most one call, so   *)
(* the queue is a sequence of threads and a task's Option<value> is        *)
(* value[t]: TRUE for Some, FALSE for None.  Task values, front_state and  *)
(* the data inside the mutex are not modelled: the crate never reads them. *)
(***************************************************************************)
EXTENDS TaskState, Naturals, Sequences

CONSTANTS OptionSet,  \* the PanicOptions the queue may be constructed with
          MaxCalls,   \* bound on the locks and calls of one thread, or Unbounded
          Unbounded,  \* no bound: every thread keeps calling for ever
          Faults      \* which of AllFaults the environment may inject

PanicOptions == [unwrap_mutex_poison: BOOLEAN, unwrap_queue_poison: BOOLEAN]

\* "user_panic": a caller panics while it holds the guard outside the queue.
\* "callback_panic": ProcessTask::process, or the closure it passes to
\*   QueueHandle::unlocked, panics.
\* "push_fails": VecDeque::push_back cannot allocate.
AllFaults == {"user_panic", "callback_panic", "push_fails"}

ASSUME ConstantsAssumption ==
    /\ OptionSet \subseteq PanicOptions
    /\ MaxCalls \in Nat \cup {Unbounded}
    /\ Faults \subseteq AllFaults

VARIABLES options,       \* ContentionQueue.options, never written after new
          frontLocked,   \* MutexExclusive.front_locked
          queuePoisoned, \* MutexExclusive.queue_poisoned
          queue,         \* MutexExclusive.queue: the owners of the queued tasks
          value,         \* is the value of t's queued task still Some?
          pc,            \* where each thread's call stands
          entry,         \* the public method each thread's call came through
          outcome,       \* TaskWaitResult, then ProcessResult, of each call
          nextIdx,       \* QueueHandle.next_idx of each thread's handle
          aborted,       \* has process::abort been called?
          calls,         \* locks and calls made, counted only under a bound
          fate           \* history: what became of the value of t's call

queueVars == <<frontLocked, queuePoisoned, queue, value, bits>>
callVars == <<pc, entry, outcome, nextIdx>>
constVars == <<options, aborted>>
vars == <<owner, poisoned, parked, bits, options, frontLocked, queuePoisoned,
          queue, value, pc, entry, outcome, nextIdx, aborted, calls, fate>>

\* Where a thread may be.  Each label names the code that runs next.
PC == {"idle",        \* outside the queue, without the guard
       "guarded",     \* outside the queue, holding the guard
       "entering",    \* try_process_unchecked, with the guard
       "waiting",     \* wait_until_at_front, its task in the queue
       "atFront",     \* task popped, result known, before the poison check
       "begin",       \* about to process its own value
       "processing",  \* in the ProcessTask callback, holding the guard
       "unlocked",    \* in the closure given to QueueHandle::unlocked
       "relock",      \* ReLock::drop, the closure returned
       "relockUnwinding", \* ReLock::drop, the closure panicked
       "returned",    \* process_unchecked after Ok(_), with the guard
       "caught"}      \* process_unchecked after Err(_), at mutex.lock()

Outcomes == {"none", "Process", "Processed", "ProcessedElsewhere",
             "ProcessingPanicked"}

\* none: no call; pending: no callback was given the value yet; inCallback:
\* the running callback has it; processed / abandoned: the callback that had
\* it returned / panicked.
Fates == {"none", "pending", "inCallback", "processed", "abandoned"}

TypeOK ==
    /\ SyncTypeOK
    /\ BitsTypeOK
    /\ options \in PanicOptions
    /\ frontLocked \in BOOLEAN
    /\ queuePoisoned \in BOOLEAN
    /\ queue \in Seq(Threads)
    /\ value \in [Threads -> BOOLEAN]
    /\ pc \in [Threads -> PC]
    /\ entry \in [Threads -> {"process", "lock_and_process"}]
    /\ outcome \in [Threads -> Outcomes]
    /\ nextIdx \in [Threads -> Nat]
    /\ aborted \in BOOLEAN
    /\ calls \in [Threads -> Nat]
    /\ fate \in [Threads -> Fates]

\* ContentionQueue::new_with_options, before any thread has called it.
Init ==
    /\ SyncInit
    /\ BitsInit
    /\ options \in OptionSet
    /\ frontLocked = FALSE
    /\ queuePoisoned = FALSE
    /\ queue = <<>>
    /\ value = [t \in Threads |-> FALSE]
    /\ pc = [t \in Threads |-> "idle"]
    /\ entry = [t \in Threads |-> "process"]
    /\ outcome = [t \in Threads |-> "none"]
    /\ nextIdx = [t \in Threads |-> 0]
    /\ aborted = FALSE
    /\ calls = [t \in Threads |-> 0]
    /\ fate = [t \in Threads |-> "none"]

Goto(t, from, to) ==
    /\ pc[t] = from
    /\ pc' = [pc EXCEPT ![t] = to]

SetOutcome(t, o) == outcome' = [outcome EXCEPT ![t] = o]

SetFate(t, f) == fate' = [fate EXCEPT ![t] = f]

\* The callback that has values is over: it decides the fate of each of them.
SettleFates(f) ==
    fate' = [t \in Threads |-> IF fate[t] = "inCallback" THEN f ELSE fate[t]]
==============================================================================
