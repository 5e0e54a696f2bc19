-------------------------- MODULE ContentionQueueProps --------------------------
(***************************************************************************)
(* What must hold of ContentionQueue, and the scheduling it may count on.  *)
(***************************************************************************)
EXTENDS ContentionQueue

\* Where a call has exclusive permissions over front_exclusive.
FrontPcs == {"atFront", "begin", "processing", "unlocked", "relock",
             "relockUnwinding", "returned", "caught"}

\* Where a thread has the live guard (a caught thread may have leaked it).
GuardPcs == {"guarded", "entering", "atFront", "begin", "processing",
             "returned"}

\* Where a QueueHandle exists.
HandlePcs == {"processing", "unlocked", "relock", "relockUnwinding"}

Granted(t) == pc[t] = "waiting" /\ FRONT_BIT \in bits[t]

HasFront(t) == pc[t] \in FrontPcs \/ Granted(t)

-----------------------------------------------------------------------------
\* Safety.

\* At most one thread has permissions over front_exclusive, and front_locked
\* is set exactly while one does (the invariants of ContentionQueue.front_
\* exclusive and MutexExclusive.front_locked), through fast path, hand-over,
\* merges, panics and unlocked sections.
FrontExclusive ==
    /\ \A t, u \in Threads : HasFront(t) /\ HasFront(u) => t = u
    /\ frontLocked <=> \E t \in Threads : HasFront(t)

\* t is in the Err branch of process_unchecked and owns the guard that it waits
\* for: neither t nor anybody else gets on (WaitersWoken, below).
LeakedGuard(t) == pc[t] = "caught" /\ owner = t

\* t is at the front, or is awake and about to find that out, and its own steps
\* lead it to the hand-over.
CanHandOver(t) ==
    /\ pc[t] \in FrontPcs \/ (Granted(t) /\ t \notin parked)
    /\ ~LeakedGuard(t)

\* While a task waits somebody is on the way to hand the front over (the
\* correctness invariant of MutexExclusive.queue), with one exception: a
\* callback panicked and leaked the guard.  No assertion that fails, poison,
\* closure that panics or wakeup that is lost leaves a waiter to nobody.
NoOrphanedWaiter ==
    queue # <<>> =>
        \E t \in Threads :
            \/ CanHandOver(t)
            \/ LeakedGuard(t) /\ fate[t] = "abandoned"

\* The tasks in the queue are exactly those of the threads that are inside
\* wait_until_at_front, once each: a Task and a TaskState live in the frame
\* of the call that pushed them, and no such frame ends while the queue, or
\* a QueueHandle, can still reach it.
QueuedTasksAlive ==
    /\ \A i, j \in 1..Len(queue) : queue[i] = queue[j] => i = j
    /\ \A t \in Threads :
        pc[t] = "waiting" <=> \E i \in 1..Len(queue) : queue[i] = t

\* Only the front task is ever woken, so that a wait that ends pops its own
\* task (pop_front, unwrap_unchecked and into_inner of the caller's own
\* lifetimes); and it is not asleep, whatever the order of notify_one,
\* spurious wakeups and re-parking.
WokenTaskIsHead ==
    \A t \in Threads :
        FRONT_BIT \in bits[t] =>
            /\ queue # <<>>
            /\ t = Head(queue)
            /\ t \notin parked

\* QueueHandle.next_idx: what was popped is None, what was not is Some, also
\* for tasks pushed during unlocked; so the expect of peek and pop holds.
HandleAtFirstUnprocessed ==
    \A t \in Threads :
        pc[t] \in HandlePcs =>
            /\ nextIdx[t] <= Len(queue)
            /\ \A i \in 1..Len(queue) : value[queue[i]] <=> i > nextIdx[t]

\* The queue is Nones and then Somes (MutexExclusive.queue), at all times and
\* not only while a handle exists; and whoever is about to run its callback
\* finds Somes only, which is what QueueHandle::new relies on.
NonesThenSomes ==
    /\ \A i, j \in 1..Len(queue) :
        i < j /\ value[queue[i]] => value[queue[j]]
    /\ \A t \in Threads :
        \/ pc[t] = "begin"
        \/ pc[t] = "atFront" /\ outcome[t] = "Process"
        => \A i \in 1..Len(queue) : value[queue[i]]

\* Whoever runs code that needs the mutex has it: exactly one guard, held
\* through the callback, given up in unlocked, back afterwards.
GuardDiscipline ==
    /\ \A t \in Threads : pc[t] \in GuardPcs => owner = t
    /\ owner # NoThread => pc[owner] \in GuardPcs \cup {"caught"}

\* A call that gets its own value back runs its callback on a value nobody
\* has processed, and a call that reports that another one processed, or was
\* processing, its value does not report that of a value nobody has touched.
ValueNeitherLostNorRepeated ==
    \A t \in Threads :
        /\ pc[t] \in {"atFront", "begin"} /\ outcome[t] = "Process" =>
                fate[t] = "pending"
        /\ outcome[t] \in {"ProcessedElsewhere", "ProcessingPanicked"} =>
                fate[t] \in {"processed", "abandoned"}

\* ProcessedElsewhere is only reported of a value whose callback returned
\* (and Processed likewise): a panic is never reported as success, to any of
\* the tasks that were merged.
SuccessMeansProcessed ==
    \A t \in Threads :
        pc[t] = "returned" /\ outcome[t] # "ProcessingPanicked" =>
            fate[t] = "processed"

-----------------------------------------------------------------------------
\* Action properties.

\* A value is given to at most one callback: it is moved out of its task or
\* out of its call, never copied.
HandedOutOnce ==
    [][\A t \in Threads :
            fate'[t] = "inCallback" /\ fate[t] # "inCallback" =>
                fate[t] = "pending"]_vars

-----------------------------------------------------------------------------
\* The line a ContentionQueue keeps.

holder == IF \E t \in Threads : HasFront(t)
          THEN CHOOSE t \in Threads : HasFront(t)
          ELSE NoThread

line == IF queue # <<>> /\ Granted(Head(queue)) THEN Tail(queue) ELSE queue

merged == {t \in Threads :
              \/ pc[t] = "waiting" /\ ~value[t]
              \/ outcome[t] \in {"ProcessedElsewhere", "ProcessingPanicked"}}

Fifo == INSTANCE FifoFront WITH
    holder <- holder, line <- line, merged <- merged

\* The queue serves its callers first come, first served, merging in order,
\* for every schedule, panic and spurious wakeup.
ImplementsFifoFront == Fifo!Spec

-----------------------------------------------------------------------------
\* Liveness.

\* What the code may count on: a thread whose next step is possible and stays
\* possible takes it.  That is weak fairness, also for taking the mutex: a
\* std::sync::Mutex promises nothing to a thread that finds it locked again
\* and again, so that the liveness properties are checked for threads that
\* make finitely many calls.  A notified or spuriously woken thread returns
\* from Condvar::wait; no wakeup comes by itself.  A caller drops its guard
\* some time, closures given to unlocked return, and a callback does not pop,
\* unlock and clear poison for ever: it returns (strongly fair, because it is
\* not at its last step while its mutex is unlocked).
FairSpec ==
    /\ Spec
    /\ \A t \in Threads :
        /\ WF_vars(CallStep(t) \/ KeepWaiting(t))
        /\ WF_vars(UserUnlock(t))
        /\ WF_vars(ClosureReturns(t))
        /\ WF_vars(RelockAndResume(t) \/ RelockAndUnwind(t))
        /\ SF_vars(CallbackReturns(t))

InCall(t) == pc[t] \notin {"idle", "guarded"}

\* Every call on the queue returns or unwinds in the end: no lost wakeup, no
\* front that stays locked, no circle of waiting threads.
EveryCallReturns ==
    \A t \in Threads : InCall(t) ~> ~InCall(t)

\* The same in terms of the line: every holder passes the front on.
ImplementsFairFifoFront == Fifo!FairSpec

-----------------------------------------------------------------------------
\* What the documentation says and the code does not keep.

\* README.md:31, src/queue.rs:47: "catch_unwind is used to ensure that
\* following tasks are woken up, preventing unwinds from causing indefinite
\* hangs".  (A callback that panics leaves the mutex locked, and its own call
\* is the first one to hang on it, at src/queue.rs:644.)
WaitersWoken ==
    \A t \in Threads : pc[t] = "waiting" ~> pc[t] # "waiting"

\* src/interface.rs:66: "Processing a value with unwrap_queue_poison = true
\* will panic if a preceding task panicked since the last time
\* queue.clear_queue_poison() was called".  (The fast path does not look.)
NoCallbackUnderQueuePoison ==
    \A t \in Threads :
        pc[t] = "processing" /\ options.unwrap_queue_poison => ~queuePoisoned

\* src/interface.rs:103, ProcessingPanicked: "The task was being processed by
\* a different call to ContentionQueue::process, but that call panicked".
\* (The panic bit tells that the previous front task's call panicked, which
\* need not be the call that processed this task.)
PanickedResultMeansPanic ==
    \A t \in Threads :
        pc[t] = "returned" /\ outcome[t] = "ProcessingPanicked" =>
            fate[t] = "abandoned"
==============================================================================
