------------------------------ MODULE TaskFrames ------------------------------
(***************************************************************************)
(* What the queue's unsafe code relies on: references into the frames of   *)
(* other threads (src/task.rs erases their lifetimes) and `&mut`s made     *)
(* from shared cells (src/externally_synchronized.rs).  A queued task      *)
(* points to a TaskState in the frame of the call that pushed it, and its  *)
(* value borrows from that call's caller.                                  *)
(*                                                                         *)
(* ContentionQueue takes a critical section as one step.  Here each access *)
(* is a step, from get_mut to the end of its lifetime, and the mutex alone *)
(* keeps the threads apart.  Both kinds of poison are unwrapped, which     *)
(* panics in the most places; the panic bit does not matter here, and      *)
(* push_back does not fail.                                                *)
(***************************************************************************)
EXTENDS TaskState, Naturals, Sequences

VARIABLES frontLocked, \* MutexExclusive.front_locked
          queuePoisoned, \* MutexExclusive.queue_poisoned
          queue,       \* MutexExclusive.queue: the owners of the tasks
          value,       \* FALSE: the value was taken out of t's task
          nextIdx,     \* QueueHandle.next_idx
          frames,      \* threads whose TaskState exists
          task,        \* whose TaskState t has a reference to, to wake it
          loans,       \* whose values the callback of t has, lent for 'q
          exclusive,   \* threads with a live &mut MutexExclusive
          front,       \* threads with a live &mut front_state
          pc           \* what each thread does next

dataVars == <<frontLocked, queuePoisoned, queue, value, nextIdx>>
refVars == <<frames, task, loans, exclusive, front>>
vars == <<syncVars, bits, dataVars, refVars, pc>>

PC == {"idle", "clearing", "entering", "fastPath", "newTask", "pushing",
       "sleeping", "asleep", "awake", "popping", "popped", "checking",
       "begin", "processing", "unlocked", "clearingInside", "unwinding",
       "caught", "done", "handOver", "waking", "notifying", "release"}

TypeOK ==
    /\ SyncTypeOK
    /\ BitsTypeOK
    /\ frontLocked \in BOOLEAN
    /\ queuePoisoned \in BOOLEAN
    /\ queue \in Seq(Threads)
    /\ value \in [Threads -> BOOLEAN]
    /\ nextIdx \in [Threads -> Nat]
    /\ frames \subseteq Threads
    /\ task \in [Threads -> Threads \cup {NoThread}]
    /\ loans \in [Threads -> SUBSET Threads]
    /\ exclusive \subseteq Threads
    /\ front \subseteq Threads
    /\ pc \in [Threads -> PC]

\* A caller may have poisoned the mutex before the queue was made.
Init ==
    /\ owner = NoThread
    /\ poisoned \in BOOLEAN
    /\ parked = {}
    /\ BitsInit
    /\ frontLocked = FALSE
    /\ queuePoisoned = FALSE
    /\ queue = <<>>
    /\ value = [t \in Threads |-> TRUE]
    /\ nextIdx = [t \in Threads |-> 0]
    /\ frames = {}
    /\ task = [t \in Threads |-> NoThread]
    /\ loans = [t \in Threads |-> {}]
    /\ exclusive = {}
    /\ front = {}
    /\ pc = [t \in Threads |-> "idle"]

Goto(t, from, to) ==
    /\ pc[t] = from
    /\ pc' = [pc EXCEPT ![t] = to]

\* UnsafeMutexCell::get_mut of mutex_exclusive, and the end of its lifetime.
get_mut(t) == exclusive' = exclusive \cup {t}
EndBorrow(t) == exclusive' = exclusive \ {t}

\* ErasedTask::inner: t gets a reference to u's TaskState.
inner(t, u) == task' = [task EXCEPT ![t] = u]

\* ErasedTask::take: u's value leaves its task, and t's callback has it, with
\* what it borrows, for as long as 'q.
take(t, u) ==
    /\ value' = [value EXCEPT ![u] = FALSE]
    /\ loans' = [loans EXCEPT ![t] = @ \cup {u}]

\* The TaskState of t's call is dropped.
DropTaskState(t) ==
    /\ frames' = frames \ {t}
    /\ bits' = [bits EXCEPT ![t] = {}]

-----------------------------------------------------------------------------
\* try_process_unchecked, up to the front.

\* A caller locks the mutex, whose poison it may disregard, and calls process.
LockAndEnter(t) ==
    /\ Goto(t, "idle", "entering")
    /\ Lock(t)
    /\ UNCHANGED <<poisoned, parked, bits, dataVars, refVars>>

\* Mutex::clear_poison takes no lock.
ClearMutexPoison ==
    /\ poisoned
    /\ poisoned' = FALSE
    /\ UNCHANGED <<owner, parked, bits, dataVars, refVars, pc>>

\* is_queue_poisoned and clear_queue_poison, of a thread that is outside of
\* the queue or in a closure of unlocked: lock, in spite of poison, and borrow;
\* then read or clear the flag, and unlock.
LockQueuePoison(t) ==
    /\ \/ Goto(t, "idle", "clearing")
       \/ Goto(t, "unlocked", "clearingInside")
    /\ Lock(t)
    /\ get_mut(t)
    /\ UNCHANGED <<poisoned, parked, bits, dataVars, frames, task, loans,
                   front>>

clear_queue_poison(t) ==
    /\ \/ Goto(t, "clearing", "idle")
       \/ Goto(t, "clearingInside", "unlocked")
    /\ queuePoisoned' \in {queuePoisoned, FALSE}
    /\ EndBorrow(t)
    /\ DropGuard
    /\ UNCHANGED <<parked, bits, frontLocked, queue, value, nextIdx, frames,
                   task, loans, front>>

BorrowForFastPath(t) ==
    /\ Goto(t, "entering", "fastPath")
    /\ get_mut(t)
    /\ UNCHANGED <<syncVars, bits, dataVars, frames, task, loans, front>>

try_acquire_front_fast(t) ==
    /\ \/ ~frontLocked /\ Goto(t, "fastPath", "begin")
       \/ frontLocked /\ Goto(t, "fastPath", "newTask")
    /\ frontLocked' = TRUE
    /\ EndBorrow(t)
    /\ UNCHANGED <<syncVars, bits, queuePoisoned, queue, value, nextIdx,
                   frames, task, loans, front>>

\* TaskState::new, ErasedTask::new, mutex_exclusive_mut.
NewTask(t) ==
    /\ Goto(t, "newTask", "pushing")
    /\ frames' = frames \cup {t}
    /\ NewTaskState(t)
    /\ get_mut(t)
    /\ UNCHANGED <<syncVars, dataVars, task, loans, front>>

PushBack(t) ==
    /\ Goto(t, "pushing", "sleeping")
    /\ queue' = Append(queue, t)
    /\ EndBorrow(t)
    /\ UNCHANGED <<syncVars, bits, frontLocked, queuePoisoned, value, nextIdx,
                   frames, task, loans, front>>

\* Condvar::wait: unlock and park; then wake up and lock; wake up by itself.
Sleep(t) ==
    /\ Goto(t, "sleeping", "asleep")
    /\ UnlockAndPark(t)
    /\ UNCHANGED <<bits, dataVars, refVars>>

SpuriousWakeup(t) ==
    /\ t \in parked
    /\ NotifyOne(t)
    /\ UNCHANGED <<owner, poisoned, bits, dataVars, refVars, pc>>

WakeUp(t) ==
    /\ Goto(t, "asleep", "awake")
    /\ CanRelock(t)
    /\ owner' = t
    /\ UNCHANGED <<poisoned, parked, bits, dataVars, refVars>>

\* Mutant: the wait ends with any wakeup.
ReadBitsOnce(t) ==
    /\ Goto(t, "awake", "popping")
    /\ get_mut(t)
    /\ UNCHANGED <<syncVars, bits, dataVars, frames, task, loans, front>>

\* The loop of wait_until_at_front reads the bits: wait again, or go on to
\* borrow the queue.
ReadBits(t) ==
    /\ \/ /\ FRONT_BIT \in bits[t]
          /\ Goto(t, "awake", "popping")
          /\ get_mut(t)
       \/ /\ FRONT_BIT \notin bits[t]
          /\ Goto(t, "awake", "sleeping")
          /\ UNCHANGED exclusive
    /\ UNCHANGED <<syncVars, bits, dataVars, frames, task, loans, front>>

\* pop_front, into_inner: the task, with its value, if any, is moved out.
PopFront(t) ==
    /\ Goto(t, "popping", "popped")
    /\ queue' = Tail(queue)
    /\ EndBorrow(t)
    /\ UNCHANGED <<syncVars, bits, frontLocked, queuePoisoned, value, nextIdx,
                   frames, task, loans, front>>

\* The borrow for the assertion on queue_poisoned.
BorrowToCheck(t) ==
    /\ Goto(t, "popped", "checking")
    /\ get_mut(t)
    /\ UNCHANGED <<syncVars, bits, dataVars, frames, task, loans, front>>

\* The assertion fails; the unwinding drops TaskState and guard.
QueuePoisonPanic(t) ==
    /\ Goto(t, "checking", "caught")
    /\ queuePoisoned
    /\ EndBorrow(t)
    /\ DropTaskState(t)
    /\ DropGuardUnwinding
    /\ UNCHANGED <<parked, dataVars, task, loans, front>>

\* The match on TaskWaitResult: Process, or a value processed elsewhere.
AfterWait(t) ==
    /\ ~queuePoisoned
    /\ Goto(t, "checking", IF value[t] THEN "begin" ELSE "done")
    /\ EndBorrow(t)
    /\ DropTaskState(t)
    /\ UNCHANGED <<syncVars, dataVars, task, loans, front>>

\* The assertion on mutex.is_poisoned(); the unwinding drops the guard.
MutexPoisonPanic(t) ==
    /\ Goto(t, "begin", "caught")
    /\ poisoned
    /\ DropGuardUnwinding
    /\ UNCHANGED <<parked, bits, dataVars, refVars>>

-----------------------------------------------------------------------------
\* The callback.

\* QueueHandle::new borrows mutex_exclusive; then front_exclusive.get_mut().
StartCallback(t) ==
    /\ ~poisoned
    /\ Goto(t, "begin", "processing")
    /\ get_mut(t)
    /\ front' = front \cup {t}
    /\ nextIdx' = [nextIdx EXCEPT ![t] = 0]
    /\ UNCHANGED <<syncVars, bits, frontLocked, queuePoisoned, queue, value,
                   frames, task, loans>>

\* Mutant of Pop: a merged task is told at once and not in its turn.
PopAndWake(t) ==
    /\ pc[t] = "processing"
    /\ nextIdx[t] < Len(queue)
    /\ LET u == queue[nextIdx[t] + 1] IN take(t, u) /\ wake_front_task(u)
    /\ nextIdx' = [nextIdx EXCEPT ![t] = @ + 1]
    /\ UNCHANGED <<owner, poisoned, frontLocked, queuePoisoned, queue, frames,
                   task, exclusive, front, pc>>

\* Mutant of Pop: next_idx is not advanced.
PopWithoutAdvance(t) ==
    /\ pc[t] = "processing"
    /\ nextIdx[t] < Len(queue)
    /\ take(t, queue[nextIdx[t] + 1])
    /\ UNCHANGED <<syncVars, bits, frontLocked, queuePoisoned, queue, nextIdx,
                   frames, task, exclusive, front, pc>>

\* QueueHandle::pop; that there is a value is in ValuesInv.
Pop(t) ==
    /\ pc[t] = "processing"
    /\ nextIdx[t] < Len(queue)
    /\ take(t, queue[nextIdx[t] + 1])
    /\ nextIdx' = [nextIdx EXCEPT ![t] = @ + 1]
    /\ UNCHANGED <<syncVars, bits, frontLocked, queuePoisoned, queue, frames,
                   task, exclusive, front, pc>>

\* Mutant of Unlocked: mutex_exclusive_guard is not made uninit.
UnlockedKeepsBorrow(t) ==
    /\ Goto(t, "processing", "unlocked")
    /\ DropGuard
    /\ UNCHANGED <<parked, bits, dataVars, refVars>>

\* QueueHandle::clear_queue_poison: through the borrow that the handle has.
HandleClearsPoison(t) ==
    /\ pc[t] = "processing"
    /\ queuePoisoned
    /\ queuePoisoned' = FALSE
    /\ UNCHANGED <<syncVars, bits, frontLocked, queue, value, nextIdx, refVars,
                   pc>>

\* ReLock::new: the reference is given up, then the guard.
Unlocked(t) ==
    /\ Goto(t, "processing", "unlocked")
    /\ EndBorrow(t)
    /\ DropGuard
    /\ UNCHANGED <<parked, bits, dataVars, frames, task, loans, front>>

ClosurePanics(t) ==
    /\ Goto(t, "unlocked", "unwinding")
    /\ UNCHANGED <<syncVars, bits, dataVars, refVars>>

\* ReLock::drop: lock, then borrow again.
Relock(t) ==
    /\ Goto(t, "unlocked", "processing")
    /\ Lock(t)
    /\ get_mut(t)
    /\ UNCHANGED <<poisoned, parked, bits, dataVars, frames, task, loans,
                   front>>

\* What the callback borrowed ends with it.
EndCallback(t) ==
    /\ EndBorrow(t)
    /\ front' = front \ {t}
    /\ loans' = [loans EXCEPT ![t] = {}]

CallbackReturns(t) ==
    /\ Goto(t, "processing", "done")
    /\ EndCallback(t)
    /\ UNCHANGED <<syncVars, bits, dataVars, frames, task>>

\* The guard is in a MaybeUninit: it is not dropped by the unwinding.
CallbackPanics(t) ==
    /\ Goto(t, "processing", "caught")
    /\ EndCallback(t)
    /\ UNCHANGED <<syncVars, bits, dataVars, frames, task>>

\* ReLock::drop while the closure's panic unwinds, and on out of the callback.
RelockUnwinding(t) ==
    /\ Goto(t, "unwinding", "caught")
    /\ Lock(t)
    /\ EndCallback(t)
    /\ UNCHANGED <<poisoned, parked, bits, dataVars, frames, task>>

-----------------------------------------------------------------------------
\* process_unchecked, after the catch_unwind.

\* Mutant of LockToHandOver: the Err branch does without the lock.
HandOverWithoutLock(t) ==
    /\ Goto(t, "caught", "handOver")
    /\ get_mut(t)
    /\ queuePoisoned' = TRUE
    /\ UNCHANGED <<syncVars, bits, frontLocked, queue, value, nextIdx, frames,
                   task, loans, front>>

\* The Err branch takes the mutex, borrows, and poisons the queue.
LockToHandOver(t) ==
    /\ Goto(t, "caught", "handOver")
    /\ Lock(t)
    /\ get_mut(t)
    /\ queuePoisoned' = TRUE
    /\ UNCHANGED <<poisoned, parked, bits, frontLocked, queue, value, nextIdx,
                   frames, task, loans, front>>

BorrowToHandOver(t) ==
    /\ Goto(t, "done", "handOver")
    /\ get_mut(t)
    /\ UNCHANGED <<syncVars, bits, dataVars, frames, task, loans, front>>

\* Mutant of ReleaseFront: nobody looks whether somebody waits.
ReleaseWithWaiters(t) ==
    /\ Goto(t, "handOver", "release")
    /\ frontLocked' = FALSE
    /\ EndBorrow(t)
    /\ UNCHANGED <<syncVars, bits, queuePoisoned, queue, value, nextIdx,
                   frames, task, loans, front>>

\* queue.front(): nobody waits, or the head's TaskState is reached by inner().
ReleaseFront(t) ==
    /\ queue = <<>>
    /\ Goto(t, "handOver", "release")
    /\ frontLocked' = FALSE
    /\ EndBorrow(t)
    /\ UNCHANGED <<syncVars, bits, queuePoisoned, queue, value, nextIdx,
                   frames, task, loans, front>>

FindNext(t) ==
    /\ queue # <<>>
    /\ Goto(t, "handOver", "waking")
    /\ inner(t, Head(queue))
    /\ UNCHANGED <<syncVars, bits, dataVars, frames, loans, exclusive, front>>

\* Mutant of OrBits: the lock is given up before the notification is sent.
OrBitsAndUnlock(t) ==
    /\ Goto(t, "waking", "notifying")
    /\ bits' = [bits EXCEPT ![task[t]] = @ \cup {FRONT_BIT}]
    /\ EndBorrow(t)
    /\ owner' = NoThread
    /\ UNCHANGED <<poisoned, parked, dataVars, frames, task, loans, front>>

\* wake_front_task: first the bit, then the notification.
OrBits(t) ==
    /\ Goto(t, "waking", "notifying")
    /\ OrBitsSilently(task[t], {FRONT_BIT})
    /\ UNCHANGED <<owner, poisoned, dataVars, refVars>>

Notify(t) ==
    /\ Goto(t, "notifying", "release")
    /\ NotifyOne(task[t])
    /\ task' = [task EXCEPT ![t] = NoThread]
    /\ EndBorrow(t)
    /\ UNCHANGED <<owner, poisoned, bits, dataVars, frames, loans, front>>

\* process has returned, and the caller drops the guard; or the Err branch
\* drops it.  The next call of t has a new value.
Release(t) ==
    /\ Goto(t, "release", "idle")
    /\ DropGuard
    /\ value' = [value EXCEPT ![t] = TRUE]
    /\ nextIdx' = [nextIdx EXCEPT ![t] = 0]
    /\ UNCHANGED <<parked, bits, frontLocked, queuePoisoned, queue, refVars>>

-----------------------------------------------------------------------------
Waiting(t) ==
    \/ LockAndEnter(t)
    \/ LockQueuePoison(t)
    \/ clear_queue_poison(t)
    \/ BorrowForFastPath(t)
    \/ try_acquire_front_fast(t)
    \/ NewTask(t)
    \/ PushBack(t)
    \/ Sleep(t)
    \/ SpuriousWakeup(t)
    \/ WakeUp(t)
    \/ ReadBits(t)
    \/ PopFront(t)
    \/ BorrowToCheck(t)
    \/ AfterWait(t)
    \/ QueuePoisonPanic(t)
    \/ MutexPoisonPanic(t)

Callback(t) ==
    \/ StartCallback(t)
    \/ Pop(t)
    \/ HandleClearsPoison(t)
    \/ Unlocked(t)
    \/ ClosurePanics(t)
    \/ Relock(t)
    \/ CallbackReturns(t)
    \/ CallbackPanics(t)
    \/ RelockUnwinding(t)

HandOver(t) ==
    \/ LockToHandOver(t)
    \/ BorrowToHandOver(t)
    \/ ReleaseFront(t)
    \/ FindNext(t)
    \/ OrBits(t)
    \/ Notify(t)
    \/ Release(t)

Next ==
    \/ \E t \in Threads : Waiting(t) \/ Callback(t) \/ HandOver(t)
    \/ ClearMutexPoison

Spec == Init /\ [][Next]_vars

-----------------------------------------------------------------------------
\* What the SAFETY comments claim.

\* Every reference into another thread's frame is to a frame that exists: a
\* task in the queue (the safety invariants of MutexExclusive.queue), the
\* task that is being woken ("The backing data is protected by mutex"), up to
\* the notification, and the values a callback has popped ("The backing data
\* is protected by exclusive access to front_exclusive").
NoDanglingReference ==
    \A t \in Threads :
        /\ \A i \in 1..Len(queue) : queue[i] \in frames
        /\ task[t] # NoThread => task[t] \in frames
        /\ loans[t] \subseteq frames

\* The aliasing rules of UnsafeMutexCell::get_mut: at most one &mut to the
\* contents of mutex_exclusive, in the hands of the owner of the mutex; at
\* most one to those of front_exclusive, also while the mutex is unlocked.
NoAliasing ==
    /\ exclusive \subseteq {owner}
    /\ \A t, u \in front : t = u

\* The word of a TaskState is not synchronized by itself: nobody writes it
\* while its waiter reads it, or while somebody else writes it.
NoRaceOnTaskState ==
    \A t \in Threads :
        pc[t] = "waking" =>
            /\ pc[task[t]] # "awake"
            /\ \A u \in Threads : pc[u] = "waking" => u = t

-----------------------------------------------------------------------------
\* Why: what is true after every access.

BorrowPcs == {"clearing", "fastPath", "pushing", "popping", "checking",
              "processing", "clearingInside", "handOver", "waking",
              "notifying"}
GuardPcs == BorrowPcs \cup {"entering", "newTask", "sleeping", "awake",
                           "popped", "begin", "done", "release"}
CallbackPcs == {"processing", "unlocked", "clearingInside", "unwinding"}
QueuedPcs == {"sleeping", "asleep", "awake", "popping"}
PoppedPcs == {"popped", "checking"}
FramePcs == {"pushing"} \cup QueuedPcs \cup PoppedPcs
FrontPcs == CallbackPcs \cup PoppedPcs \cup
            {"popping", "begin", "caught", "done", "handOver", "waking"}

HasFront(t) ==
    \/ pc[t] \in FrontPcs
    \/ pc[t] \in QueuedPcs /\ FRONT_BIT \in bits[t]

\* The guard, and the references that last as long as the critical section.
SectionInv ==
    /\ \A t \in Threads : pc[t] \in GuardPcs => owner = t
    /\ owner # NoThread => pc[owner] \in GuardPcs \cup {"caught"}
    /\ \A t \in exclusive : pc[t] \in BorrowPcs
    /\ \A t \in front : pc[t] \in CallbackPcs

\* The permissions over front_exclusive.
FrontInv ==
    /\ \A t, u \in Threads : HasFront(t) /\ HasFront(u) => t = u
    /\ frontLocked <=> \E t \in Threads : HasFront(t)
    /\ \A t \in Threads : pc[t] \in {"newTask", "pushing"} => frontLocked

\* The tasks, their frames, and who was woken.
QueueInv ==
    /\ \A t \in Threads : pc[t] \in FramePcs <=> t \in frames
    /\ \A i, j \in 1..Len(queue) : queue[i] = queue[j] => i = j
    /\ \A t \in Threads :
        pc[t] \in QueuedPcs <=> \E i \in 1..Len(queue) : queue[i] = t
    /\ \A t \in Threads :
        FRONT_BIT \in bits[t] =>
            pc[t] \in PoppedPcs \/ (pc[t] \in QueuedPcs /\ t = queue[1])
    /\ \A t \in Threads : pc[t] = "popping" => FRONT_BIT \in bits[t]
    /\ queue # <<>> => \E t \in Threads : HasFront(t)

\* The references to tasks that are in use.
ReferenceInv ==
    \A t \in Threads :
        /\ IF pc[t] \in {"waking", "notifying"}
           THEN queue # <<>> /\ task[t] = queue[1]
           ELSE task[t] = NoThread
        /\ pc[t] \notin CallbackPcs => loans[t] = {}
        /\ \A u \in loans[t] : pc[u] \in QueuedPcs

\* All of it together: an inductive invariant, which implies the three
\* properties above for any number of threads.
FramesInv ==
    /\ TypeOK
    /\ SectionInv
    /\ FrontInv
    /\ QueueInv
    /\ ReferenceInv

-----------------------------------------------------------------------------
\* The values.

\* Where t's call has not given its value away.
OwnValuePcs == {"idle", "clearing", "entering", "fastPath", "newTask",
                "pushing", "begin"} \cup CallbackPcs

\* t is about to run its callback, or finds that out next.
AboutToProcess(t) == pc[t] = "begin" \/ (pc[t] \in PoppedPcs /\ value[t])

\* The values in the queue, between any two accesses: Nones and then Somes
\* (MutexExclusive.queue), with next_idx at the border while a handle exists,
\* in unlocked too; and only Somes where a handle is about to be made.  A call
\* that did not wait, or found its value, has it.
ValuesInv ==
    /\ \A t \in Threads : pc[t] \in OwnValuePcs => value[t]
    /\ \A i, j \in 1..Len(queue) :
        i < j /\ value[queue[i]] => value[queue[j]]
    /\ \A t \in Threads :
        pc[t] \in CallbackPcs =>
            /\ nextIdx[t] <= Len(queue)
            /\ \A i \in 1..Len(queue) : value[queue[i]] <=> i > nextIdx[t]
    /\ \A t \in Threads :
        AboutToProcess(t) => \A i \in 1..Len(queue) : value[queue[i]]

-----------------------------------------------------------------------------
\* The line, as in ContentionQueueProps, at this grain.
holder == IF \E t \in Threads : HasFront(t)
          THEN CHOOSE t \in Threads : HasFront(t)
          ELSE NoThread

line == IF queue # <<>> /\ HasFront(Head(queue)) THEN Tail(queue) ELSE queue

\* t's value was taken, and t has not passed the front on yet.
Merged(t) == ~value[t] /\ (HasFront(t) \/ pc[t] \in QueuedPcs)

merged == {t \in Threads : Merged(t)}

Fifo == INSTANCE FifoFront WITH
    holder <- holder, line <- line, merged <- merged

\* Access by access, under one mutex, the queue is still a FIFO line: for the
\* line it does not matter that ContentionQueue takes a critical section as one
\* step.
AccessesImplementFifoFront == Fifo!Spec
==============================================================================
