---------------------------- MODULE ContentionQueue ----------------------------
(***************************************************************************)
(* src/queue.rs: the calls on one ContentionQueue by several threads, all  *)
(* with the same Mutex (MutexBinding models the check that they do), and   *)
(* what the threads may do with that Mutex between calls.                  *)
(*                                                                         *)
(* A step is one critical section, or the part of one between two reads of *)
(* something that is not protected by the mutex (its poison flag).         *)
(***************************************************************************)
EXTENDS QueueHandle

\* A bounded instance counts what a thread starts; an unbounded one does not.
SpendCall(t) ==
    IF MaxCalls = Unbounded
    THEN UNCHANGED calls
    ELSE /\ calls[t] < MaxCalls
         /\ calls' = [calls EXCEPT ![t] = @ + 1]

-----------------------------------------------------------------------------
\* The callers, outside the queue.

\* mutex.lock(), of a caller that reads through poison.
UserLock(t) ==
    /\ Goto(t, "idle", "guarded")
    /\ Lock(t)
    /\ SpendCall(t)
    /\ UNCHANGED <<poisoned, parked, queueVars, entry, outcome, nextIdx,
                   constVars, fate>>

UserUnlock(t) ==
    /\ Goto(t, "guarded", "idle")
    /\ DropGuard
    /\ UNCHANGED <<parked, queueVars, entry, outcome, nextIdx, constVars,
                   calls, fate>>

\* A panic of the caller: how the mutex gets poisoned in the first place.
UserPanic(t) ==
    /\ "user_panic" \in Faults
    /\ Goto(t, "guarded", "idle")
    /\ DropGuardUnwinding
    /\ UNCHANGED <<parked, queueVars, entry, outcome, nextIdx, constVars,
                   calls, fate>>

\* The same in a closure given to QueueHandle::unlocked.  What such a closure
\* does with the mutex only keeps others waiting, but for the poison; so it is
\* not seen to lock and unlock it.
ClosurePoisonsMutex(t) ==
    /\ "user_panic" \in Faults
    /\ pc[t] = "unlocked"
    /\ owner = NoThread
    /\ DropGuardUnwinding
    /\ UNCHANGED <<parked, queueVars, callVars, constVars, calls, fate>>

\* Mutex::clear_poison takes no lock: anyone, at any time.
ClearMutexPoison ==
    /\ poisoned
    /\ poisoned' = FALSE
    /\ UNCHANGED <<owner, parked, queueVars, callVars, constVars, calls, fate>>

\* Condvar::wait may return without a notification.
SpuriousWakeup(t) ==
    /\ t \in parked
    /\ parked' = parked \ {t}
    /\ UNCHANGED <<owner, poisoned, queueVars, callVars, constVars, calls, fate>>

\* clear_queue_poison, also from a closure given to QueueHandle::unlocked.
ClearQueuePoison(t) ==
    /\ pc[t] \in {"idle", "unlocked"}
    /\ owner = NoThread
    /\ queuePoisoned
    /\ queuePoisoned' = FALSE
    /\ UNCHANGED <<syncVars, frontLocked, queue, value, bits, callVars,
                   constVars, calls, fate>>

-----------------------------------------------------------------------------
\* The two public entry points.

Enter(t, from, how) ==
    /\ Goto(t, from, "entering")
    /\ entry' = [entry EXCEPT ![t] = how]
    /\ SpendCall(t)
    /\ UNCHANGED <<poisoned, parked, queueVars, outcome, nextIdx, constVars,
                   fate>>

process(t) ==
    /\ Enter(t, "guarded", "process")
    /\ UNCHANGED owner

lock_and_process(t) ==
    /\ ~(poisoned /\ options.unwrap_mutex_poison)
    /\ Lock(t)
    /\ Enter(t, "idle", "lock_and_process")

\* unwrap_poison panics, and the guard inside the error is dropped.
LockIsPoisoned(t) ==
    /\ pc[t] = "idle"
    /\ owner = NoThread
    /\ poisoned
    /\ options.unwrap_mutex_poison
    /\ SpendCall(t)
    /\ DropGuardUnwinding
    /\ UNCHANGED <<parked, queueVars, callVars, constVars, fate>>

-----------------------------------------------------------------------------
\* try_process_unchecked, up to the callback.

\* Mutant: front_locked is tested and not set.
FrontNotLocked ==
    /\ ~frontLocked
    /\ UNCHANGED frontLocked

try_acquire_front_fast ==
    /\ ~frontLocked
    /\ frontLocked' = TRUE

TakeFront(t) ==
    /\ Goto(t, "entering", "begin")
    /\ try_acquire_front_fast
    /\ SetFate(t, "pending")
    /\ UNCHANGED <<syncVars, queuePoisoned, queue, value, bits, entry, outcome,
                   nextIdx, constVars, calls>>

\* The first half of try_wait_until_at_front: push the task, wait.
Push(t, newQueue) ==
    /\ frontLocked
    /\ Goto(t, "entering", "waiting")
    /\ queue' = newQueue
    /\ value' = [value EXCEPT ![t] = TRUE]
    /\ NewTaskState(t)
    /\ UnlockAndPark(t)
    /\ SetFate(t, "pending")
    /\ UNCHANGED <<frontLocked, queuePoisoned, entry, outcome, nextIdx,
                   constVars, calls>>

\* Mutant: push_front.
PushToFront(t) == Push(t, <<t>> \o queue)

PushAndWait(t) == Push(t, Append(queue, t))

\* push_back panics; AbortIfNotAtFront is dropped by the unwinding.
PushAborts(t) ==
    /\ "push_fails" \in Faults
    /\ pc[t] = "entering"
    /\ frontLocked
    /\ aborted' = TRUE
    /\ UNCHANGED <<syncVars, queueVars, callVars, options, calls, fate>>

\* wait_until_at_front: a wakeup that finds the front bit clear.
KeepWaiting(t) ==
    /\ pc[t] = "waiting"
    /\ WaitAgain(t)
    /\ UNCHANGED <<frontLocked, queuePoisoned, queue, value, callVars,
                   constVars, calls, fate>>

\* Mutant: the panic bit decides, also for a task that still has its value.
WaitResultByBit(t) ==
    IF PANIC_BIT \in bits[t] THEN "ProcessingPanicked"
    ELSE IF value[t] THEN "Process"
    ELSE "ProcessedElsewhere"

\* The result of a wait, from the popped task and its state.
WaitResult(t) ==
    IF value[t] THEN "Process"
    ELSE IF PANIC_BIT \in bits[t] THEN "ProcessingPanicked"
    ELSE "ProcessedElsewhere"

\* The second half of try_wait_until_at_front: back from the wait with the
\* guard, pop the front of the queue.  What is popped must be t's own task:
\* the code converts it with t's lifetimes (and the queue is not empty, by
\* unwrap_unchecked).  After this step TaskState and Task are gone.
ReachFront(t) ==
    /\ Goto(t, "waiting", "atFront")
    /\ LeaveWait(t)
    /\ queue' = Tail(queue)
    /\ SetOutcome(t, WaitResult(t))
    /\ value' = [value EXCEPT ![t] = FALSE]
    /\ NewTaskState(t)
    /\ UNCHANGED <<frontLocked, queuePoisoned, entry, nextIdx, constVars,
                   calls, fate>>

\* The assertion on queue_poisoned fails; the unwinding drops the guard.
QueuePoisonPanic(t) ==
    /\ Goto(t, "atFront", "caught")
    /\ options.unwrap_queue_poison
    /\ queuePoisoned
    /\ DropGuardUnwinding
    /\ UNCHANGED <<parked, queueVars, entry, outcome, nextIdx, constVars,
                   calls, fate>>

AfterWait(t, to) ==
    /\ Goto(t, "atFront", to)
    /\ ~(options.unwrap_queue_poison /\ queuePoisoned)
    /\ UNCHANGED <<syncVars, queueVars, entry, outcome, nextIdx, constVars,
                   calls, fate>>

TakeOwnValue(t) == outcome[t] = "Process" /\ AfterWait(t, "begin")

ReturnUnprocessed(t) == outcome[t] # "Process" /\ AfterWait(t, "returned")

\* Mutant: the guard is in the MaybeUninit by then, and stays in it.
MutexPoisonPanicLeaks(t) ==
    /\ Goto(t, "begin", "caught")
    /\ options.unwrap_mutex_poison
    /\ poisoned
    /\ UNCHANGED <<syncVars, queueVars, entry, outcome, nextIdx, constVars,
                   calls, fate>>

\* The assertion on mutex.is_poisoned() fails.
MutexPoisonPanic(t) ==
    /\ Goto(t, "begin", "caught")
    /\ options.unwrap_mutex_poison
    /\ poisoned
    /\ DropGuardUnwinding
    /\ UNCHANGED <<parked, queueVars, entry, outcome, nextIdx, constVars,
                   calls, fate>>

StartCallback(t) ==
    /\ ~(options.unwrap_mutex_poison /\ poisoned)
    /\ Goto(t, "begin", "processing")
    /\ NewHandle(t)
    /\ UNCHANGED <<syncVars, queueVars, entry, outcome, constVars, calls>>

-----------------------------------------------------------------------------
\* process_unchecked after try_process_unchecked: hand the front over.

\* Mutants: nobody is woken; the youngest task is woken.
ForgetToWake == UNCHANGED <<bits, parked, frontLocked>>
WakeYoungest ==
    \/ /\ queue # <<>>
       /\ wake_front_task(queue[Len(queue)])
       /\ UNCHANGED frontLocked
    \/ /\ queue = <<>>
       /\ frontLocked' = FALSE
       /\ UNCHANGED <<bits, parked>>

PassFront ==
    \/ /\ queue # <<>>
       /\ wake_front_task(Head(queue))
       /\ UNCHANGED frontLocked
    \/ /\ queue = <<>>
       /\ frontLocked' = FALSE
       /\ UNCHANGED <<bits, parked>>

PassFrontPanicking ==
    \/ /\ queue # <<>>
       /\ wake_front_task_panicking(Head(queue))
       /\ UNCHANGED frontLocked
    \/ /\ queue = <<>>
       /\ frontLocked' = FALSE
       /\ UNCHANGED <<bits, parked>>

CallEnds(t) ==
    /\ outcome' = [outcome EXCEPT ![t] = "none"]
    /\ nextIdx' = [nextIdx EXCEPT ![t] = 0]
    /\ SetFate(t, "none")

\* Ok: process returns the guard to its caller, lock_and_process drops it.
HandOff(t) ==
    /\ PassFront
    /\ \/ /\ entry[t] = "process"
          /\ Goto(t, "returned", "guarded")
          /\ UNCHANGED owner
       \/ /\ entry[t] = "lock_and_process"
          /\ Goto(t, "returned", "idle")
          /\ owner' = NoThread
    /\ CallEnds(t)
    /\ UNCHANGED <<poisoned, queuePoisoned, queue, value, entry, constVars,
                   calls>>

\* Err: lock, poison the queue, hand over, unlock, resume the unwinding.
CatchUnwind(t) ==
    /\ Goto(t, "caught", "idle")
    /\ owner = NoThread
    /\ queuePoisoned' = TRUE
    /\ PassFrontPanicking
    /\ CallEnds(t)
    /\ UNCHANGED <<owner, poisoned, queue, value, entry, constVars, calls>>

-----------------------------------------------------------------------------
\* Every thread is done with its calls: only a bounded instance ends.
Terminated ==
    /\ MaxCalls # Unbounded
    /\ \A t \in Threads : pc[t] = "idle" /\ calls[t] = MaxCalls
    /\ UNCHANGED vars

CallStep(t) ==
    \/ TakeFront(t)
    \/ PushAndWait(t)
    \/ ReachFront(t)
    \/ QueuePoisonPanic(t)
    \/ TakeOwnValue(t)
    \/ ReturnUnprocessed(t)
    \/ MutexPoisonPanic(t)
    \/ StartCallback(t)
    \/ HandOff(t)
    \/ CatchUnwind(t)

UserStep(t) ==
    \/ UserLock(t)
    \/ UserUnlock(t)
    \/ UserPanic(t)
    \/ ClosurePoisonsMutex(t)
    \/ ClearQueuePoison(t)
    \/ process(t)
    \/ lock_and_process(t)
    \/ LockIsPoisoned(t)

EnvStep(t) ==
    \/ PushAborts(t)
    \/ SpuriousWakeup(t)
    \/ KeepWaiting(t)

Next ==
    /\ ~aborted
    /\ \/ \E t \in Threads : UserStep(t) \/ CallStep(t) \/ HandleStep(t) \/ EnvStep(t)
       \/ ClearMutexPoison
       \/ Terminated

Spec == Init /\ [][Next]_vars
==============================================================================
