------------------------------ MODULE TaskState ------------------------------
(***************************************************************************)
(* src/task_state.rs: the word a waiting task is woken through.  The u8 is *)
(* only ever or-ed into and tested bit by bit, so it is kept as the set of *)
(* bits that are set.  A thread has at most one TaskState (a local of      *)
(* try_process_unchecked), so TaskStates are indexed by their thread.      *)
(***************************************************************************)
EXTENDS StdSync

VARIABLE bits         \* TaskState.state of each thread's task

FRONT_BIT == "FRONT_BIT"
PANIC_BIT == "PANIC_BIT"

BitsTypeOK == bits \in [Threads -> SUBSET {FRONT_BIT, PANIC_BIT}]

BitsInit == bits = [t \in Threads |-> {}]

\* TaskState::new
NewTaskState(t) == bits' = [bits EXCEPT ![t] = {}]

\* The bits are stored, and nobody is notified: the wakeup may be lost.
OrBitsSilently(t, new) ==
    /\ bits' = [bits EXCEPT ![t] = @ \cup new]
    /\ UNCHANGED parked

\* Both wake functions: or the bits in under the lock, then notify_one.
OrBitsAndNotify(t, new) ==
    /\ bits' = [bits EXCEPT ![t] = @ \cup new]
    /\ NotifyOne(t)

wake_front_task(t) == OrBitsAndNotify(t, {FRONT_BIT})

wake_front_task_panicking(t) == OrBitsAndNotify(t, {PANIC_BIT, FRONT_BIT})

\* One turn of the loop in wait_until_at_front that finds the front bit
\* clear: Condvar::wait has returned (notified or not), the mutex is locked,
\* the bit is read, and the thread unlocks and parks again.
WaitAgain(t) ==
    /\ CanRelock(t)
    /\ FRONT_BIT \notin bits[t]
    /\ parked' = parked \cup {t}
    /\ UNCHANGED <<owner, poisoned, bits>>

\* The turn of that loop that leaves it, with the guard.
\* Mutant: the loop condition is dropped, any wakeup ends the wait.
LeaveWaitUnchecked(t) ==
    /\ CanRelock(t)
    /\ owner' = t
    /\ UNCHANGED <<poisoned, parked>>

LeaveWait(t) ==
    /\ CanRelock(t)
    /\ FRONT_BIT \in bits[t]
    /\ owner' = t
    /\ UNCHANGED <<poisoned, parked>>
==============================================================================
