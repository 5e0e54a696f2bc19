----------------------------- MODULE QueueHandle -----------------------------
(***************************************************************************)
(* src/queue_handle.rs: what a ProcessTask callback can do to the queue    *)
(* while its task is at the front.  peek, mutex_state, mutex_state_mut and *)
(* is_queue_poisoned change nothing the queue reads and have no action;    *)
(* that peek's expect cannot fail is part of HandleAtFirstUnprocessed.     *)
(*                                                                         *)
(* The handle keeps the guard in a MaybeUninit<MutexGuard>, which has no   *)
(* destructor: a panic that unwinds through the callback while the guard   *)
(* is initialized leaves the mutex locked.                                 *)
(***************************************************************************)
EXTENDS QueueState

\* Mutant: next_idx starts one too low.
NewHandleTooLow(t) ==
    /\ nextIdx' = [nextIdx EXCEPT ![t] = 0 - 1]
    /\ SetFate(t, "inCallback")

\* QueueHandle::new, and the call of the callback with the value.
NewHandle(t) ==
    /\ nextIdx' = [nextIdx EXCEPT ![t] = 0]
    /\ SetFate(t, "inCallback")

\* Mutants of Pop: next_idx is not advanced; the value is copied out and not
\* replaced by None; the youngest value is popped instead of the next.
PopFrom(t, i, to, left) ==
    /\ pc[t] = "processing"
    /\ nextIdx[t] < Len(queue)
    /\ LET task == queue[i] IN
        /\ value' = [value EXCEPT ![task] = left]
        /\ SetFate(task, "inCallback")
    /\ nextIdx' = [nextIdx EXCEPT ![t] = to]
    /\ UNCHANGED <<syncVars, bits, options, frontLocked, queuePoisoned, queue,
                   pc, entry, outcome, aborted, calls>>

PopWithoutAdvance(t) == PopFrom(t, nextIdx[t] + 1, nextIdx[t], FALSE)
PopCopiesValue(t) == PopFrom(t, nextIdx[t] + 1, nextIdx[t] + 1, TRUE)
PopYoungest(t) == PopFrom(t, Len(queue), nextIdx[t] + 1, FALSE)

\* pop: take the value at next_idx, advance next_idx, then expect that there
\* was a value.  A failing expect panics in the callback.
Pop(t) ==
    /\ pc[t] = "processing"
    /\ nextIdx[t] < Len(queue)
    /\ LET task == queue[nextIdx[t] + 1] IN
        /\ value' = [value EXCEPT ![task] = FALSE]
        /\ IF value[task]
           THEN SetFate(task, "inCallback") /\ UNCHANGED pc
           ELSE SettleFates("abandoned") /\ Goto(t, "processing", "caught")
    /\ nextIdx' = [nextIdx EXCEPT ![t] = @ + 1]
    /\ UNCHANGED <<syncVars, bits, options, frontLocked, queuePoisoned, queue,
                   entry, outcome, aborted, calls>>

\* clear_queue_poison of the handle.
HandleClearsPoison(t) ==
    /\ pc[t] = "processing"
    /\ queuePoisoned
    /\ queuePoisoned' = FALSE
    /\ UNCHANGED <<syncVars, bits, options, frontLocked, queue, value,
                   callVars, aborted, calls, fate>>

\* Mutant: the closure is called with the mutex locked.
UnlockedKeepsGuard(t) ==
    /\ Goto(t, "processing", "unlocked")
    /\ UNCHANGED <<syncVars, queueVars, entry, outcome, nextIdx, constVars,
                   calls, fate>>

\* unlocked, up to the closure: ReLock::new drops the guard.
Unlocked(t) ==
    /\ Goto(t, "processing", "unlocked")
    /\ DropGuard
    /\ UNCHANGED <<parked, queueVars, entry, outcome, nextIdx, constVars,
                   calls, fate>>

\* The closure returns, and drop(re_lock) begins.
ClosureReturns(t) ==
    /\ Goto(t, "unlocked", "relock")
    /\ UNCHANGED <<syncVars, queueVars, entry, outcome, nextIdx, constVars,
                   calls, fate>>

\* The closure panics: ReLock::drop runs during the unwinding.
ClosurePanics(t) ==
    /\ "callback_panic" \in Faults
    /\ Goto(t, "unlocked", "relockUnwinding")
    /\ SettleFates("abandoned")
    /\ UNCHANGED <<syncVars, queueVars, entry, outcome, nextIdx, constVars,
                   calls>>

\* Mutant of RelockAndResume: the callback goes on without the mutex.
ResumeUnlocked(t) ==
    /\ Goto(t, "relock", "processing")
    /\ UNCHANGED <<syncVars, queueVars, entry, outcome, nextIdx, constVars,
                   calls, fate>>

\* ReLock::drop has the mutex and writes the guard back; unlocked returns.
RelockAndResume(t) ==
    /\ Goto(t, "relock", "processing")
    /\ Lock(t)
    /\ UNCHANGED <<poisoned, parked, queueVars, entry, outcome, nextIdx,
                   constVars, calls, fate>>

\* The same while unwinding: the panic leaves unlocked and the callback with
\* the guard initialized, and nothing drops it.
RelockAndUnwind(t) ==
    /\ Goto(t, "relockUnwinding", "caught")
    /\ Lock(t)
    /\ UNCHANGED <<poisoned, parked, queueVars, entry, outcome, nextIdx,
                   constVars, calls, fate>>

\* The callback returns; try_process_unchecked takes the guard back out of
\* the MaybeUninit and returns Processed(output).
CallbackReturns(t) ==
    /\ Goto(t, "processing", "returned")
    /\ SetOutcome(t, "Processed")
    /\ SettleFates("processed")
    /\ nextIdx' = [nextIdx EXCEPT ![t] = 0]
    /\ UNCHANGED <<syncVars, queueVars, entry, constVars, calls>>

\* Mutant of CallbackPanics, and the obvious repair: the unwinding drops the
\* guard.  The other waiters then run, and of the tasks that were merged only
\* the first is told of the panic: src/queue.rs:769 does not pass it on.
CallbackPanicsDropping(t) ==
    /\ "callback_panic" \in Faults
    /\ Goto(t, "processing", "caught")
    /\ DropGuardUnwinding
    /\ SettleFates("abandoned")
    /\ UNCHANGED <<parked, queueVars, entry, outcome, nextIdx, constVars, calls>>

\* The callback panics while it holds the guard.  The handle and the
\* MaybeUninit go away without dropping it: the owner stays t.
CallbackPanics(t) ==
    /\ "callback_panic" \in Faults
    /\ Goto(t, "processing", "caught")
    /\ SettleFates("abandoned")
    /\ UNCHANGED <<syncVars, queueVars, entry, outcome, nextIdx, constVars,
                   calls>>

HandleStep(t) ==
    \/ Pop(t)
    \/ HandleClearsPoison(t)
    \/ Unlocked(t)
    \/ ClosureReturns(t)
    \/ ClosurePanics(t)
    \/ RelockAndResume(t)
    \/ RelockAndUnwind(t)
    \/ CallbackReturns(t)
    \/ CallbackPanics(t)
==============================================================================
