----------------------------- MODULE MutexBinding -----------------------------
(***************************************************************************)
(* assert_mutex_good of src/queue.rs: a ContentionQueue holds no mutex, it *)
(* gets one by reference with every call, and remembers the address of the *)
(* first.  Everything inside a call that needs the mutex is one critical   *)
(* section here; ContentionQueue models what happens in it.                *)
(*                                                                         *)
(* A Mutex can be moved or dropped while nothing borrows it: a call borrows *)
(* its mutex argument, a guard borrows the mutex it locks.                 *)
(***************************************************************************)

CONSTANTS Threads,
          Mutexes,        \* the Mutex objects of the program
          NoMutex,        \* "no guard"
          Addrs,          \* memory locations of a Mutex
          Zero            \* address 0: of no object

ASSUME BindingAssumption ==
    /\ NoMutex \notin Mutexes
    /\ Zero \notin Addrs

VARIABLES addr,           \* where each Mutex is, Zero while it is nowhere
          mutex_address,  \* ContentionQueue.mutex_address
          stage,          \* where each thread's call stands
          method,         \* the kind of each thread's call
          mutex,          \* its mutex argument
          guard,          \* the mutex whose MutexGuard the call has
          held            \* the mutexes whose guards each caller keeps

callVars == <<stage, method, mutex, guard>>
bindingVars == <<addr, mutex_address, callVars, held>>

\* "waiting" is Condvar::wait: the guard is its again when it ends.
Stages == {"idle", "asserting", "passed", "exclusive", "waiting"}

BindingTypeOK ==
    /\ addr \in [Mutexes -> Addrs \cup {Zero}]
    /\ mutex_address \in Addrs \cup {Zero}
    /\ stage \in [Threads -> Stages]
    /\ method \in [Threads -> {"process", "queue_poison"}]
    /\ mutex \in [Threads -> Mutexes]
    /\ guard \in [Threads -> Mutexes \cup {NoMutex}]
    /\ held \in [Threads -> SUBSET Mutexes]

Init ==
    /\ addr = [m \in Mutexes |-> Zero]
    /\ mutex_address = Zero
    /\ stage = [t \in Threads |-> "idle"]
    /\ method = [t \in Threads |-> "process"]
    /\ mutex \in [Threads -> Mutexes]
    /\ guard = [t \in Threads |-> NoMutex]
    /\ held = [t \in Threads |-> {}]

LockedBy(t, m) == m \in held[t] \/ (guard[t] = m /\ stage[t] # "waiting")

Locked(m) == \E t \in Threads : LockedBy(t, m)

Borrowed(m) ==
    \E t \in Threads :
        \/ m \in held[t] \/ guard[t] = m
        \/ stage[t] # "idle" /\ mutex[t] = m

Step(t, from, to) ==
    /\ stage[t] = from
    /\ stage' = [stage EXCEPT ![t] = to]

-----------------------------------------------------------------------------
\* The program around the queue.

Place(m, a) ==
    /\ addr[m] = Zero
    /\ \A other \in Mutexes : addr[other] # a
    /\ addr' = [addr EXCEPT ![m] = a]
    /\ UNCHANGED <<mutex_address, callVars, held>>

Remove(m) ==
    /\ addr[m] # Zero
    /\ ~Borrowed(m)
    /\ addr' = [addr EXCEPT ![m] = Zero]
    /\ UNCHANGED <<mutex_address, callVars, held>>

Lock(t, m) ==
    /\ stage[t] = "idle"
    /\ addr[m] # Zero
    /\ ~Locked(m)
    /\ held' = [held EXCEPT ![t] = @ \cup {m}]
    /\ UNCHANGED <<addr, mutex_address, callVars>>

Unlock(t, m) ==
    /\ stage[t] = "idle"
    /\ m \in held[t]
    /\ held' = [held EXCEPT ![t] = @ \ {m}]
    /\ UNCHANGED <<addr, mutex_address, callVars>>

-----------------------------------------------------------------------------
\* The calls.

\* process, with any guard g that the caller has: nothing compares g with m.
\* lock_and_process is Lock, and process with that guard.
process(t, m, g) ==
    /\ Step(t, "idle", "asserting")
    /\ g \in held[t]
    /\ addr[m] # Zero
    /\ held' = [held EXCEPT ![t] = @ \ {g}]
    /\ guard' = [guard EXCEPT ![t] = g]
    /\ mutex' = [mutex EXCEPT ![t] = m]
    /\ method' = [method EXCEPT ![t] = "process"]
    /\ UNCHANGED <<addr, mutex_address>>

\* is_queue_poisoned and clear_queue_poison, whatever guards the caller has.
queue_poison(t, m) ==
    /\ Step(t, "idle", "asserting")
    /\ addr[m] # Zero
    /\ mutex' = [mutex EXCEPT ![t] = m]
    /\ method' = [method EXCEPT ![t] = "queue_poison"]
    /\ UNCHANGED <<addr, mutex_address, guard, held>>

\* Mutants: a store where the code has a compare_exchange; its failure ignored.
store(a) == mutex_address' = a
ignore_failure(a) ==
    mutex_address' = IF mutex_address = Zero THEN a ELSE mutex_address

\* compare_exchange(0, a), or the address was stored before.
compare_exchange(a) ==
    /\ mutex_address \in {Zero, a}
    /\ mutex_address' = a

\* What follows a good assert: process has its guard already.
assert_mutex_good(t) ==
    /\ Step(t, "asserting",
            IF method[t] = "process" THEN "exclusive" ELSE "passed")
    /\ compare_exchange(addr[mutex[t]])
    /\ UNCHANGED <<addr, method, mutex, guard, held>>

\* The panic drops the guard that was passed to process.
AssertPanics(t) ==
    /\ Step(t, "asserting", "idle")
    /\ mutex_address \notin {Zero, addr[mutex[t]]}
    /\ guard' = [guard EXCEPT ![t] = NoMutex]
    /\ UNCHANGED <<addr, mutex_address, method, mutex, held>>

\* Mutant of LockArgument: on with the access, without the lock.
AccessUnlocked(t) ==
    /\ Step(t, "passed", "exclusive")
    /\ UNCHANGED <<addr, mutex_address, method, mutex, guard, held>>

\* mutex.lock() inside a call: of the poison methods, of ReLock::drop, and of
\* the Err branch of process_unchecked.  It blocks for ever if the caller
\* itself has kept a guard of that mutex.
LockArgument(t) ==
    /\ Step(t, "passed", "exclusive")
    /\ ~Locked(mutex[t])
    /\ guard' = [guard EXCEPT ![t] = mutex[t]]
    /\ UNCHANGED <<addr, mutex_address, method, mutex, held>>

\* QueueHandle::unlocked, or a panic of process: the guard is dropped, and
\* the call locks its argument again.
DropInside(t) ==
    /\ Step(t, "exclusive", "passed")
    /\ method[t] = "process"
    /\ guard' = [guard EXCEPT ![t] = NoMutex]
    /\ UNCHANGED <<addr, mutex_address, method, mutex, held>>

\* Condvar::wait unlocks the mutex of the guard it is given ...
Wait(t) ==
    /\ Step(t, "exclusive", "waiting")
    /\ method[t] = "process"
    /\ UNCHANGED <<addr, mutex_address, method, mutex, guard, held>>

\* ... and locks that mutex again.
EndWait(t) ==
    /\ Step(t, "waiting", "exclusive")
    /\ ~Locked(guard[t])
    /\ UNCHANGED <<addr, mutex_address, method, mutex, guard, held>>

\* process gives its guard back, or drops it when it unwinds; lock_and_process
\* and the poison methods drop theirs.
Return(t) ==
    /\ Step(t, "exclusive", "idle")
    /\ \/ /\ method[t] = "process"
          /\ held' = [held EXCEPT ![t] = @ \cup {guard[t]}]
       \/ UNCHANGED held
    /\ guard' = [guard EXCEPT ![t] = NoMutex]
    /\ UNCHANGED <<addr, mutex_address, method, mutex>>

Next ==
    \/ \E m \in Mutexes : Remove(m) \/ (\E a \in Addrs : Place(m, a))
    \/ \E t \in Threads :
        \/ \E m \in Mutexes : Lock(t, m) \/ Unlock(t, m) \/ queue_poison(t, m)
        \/ \E m, g \in Mutexes : process(t, m, g)
        \/ assert_mutex_good(t)
        \/ AssertPanics(t)
        \/ LockArgument(t)
        \/ DropInside(t)
        \/ Wait(t)
        \/ EndWait(t)
        \/ Return(t)

Spec == Init /\ [][Next]_bindingVars

-----------------------------------------------------------------------------
InUse(t) == stage[t] \in {"passed", "exclusive", "waiting"}

\* All calls that are past assert_mutex_good at the same time have the same
\* Mutex, although the queue compares addresses only, and although a Mutex
\* may be replaced by another one at the same place between calls.
OneMutexInUse ==
    \A t, u \in Threads : InUse(t) /\ InUse(u) => mutex[t] = mutex[u]

\* The contents of mutex_exclusive are accessed by one thread at a time (the
\* robust guarantee of assert_mutex_good and the safety condition of
\* mutex_exclusive_mut).
ExclusiveAccess ==
    \A t, u \in Threads :
        stage[t] = "exclusive" /\ stage[u] = "exclusive" => t = u

\* The call works under a guard that is not one of its mutex argument.
Foreign(t) == guard[t] \notin {NoMutex, mutex[t]}

\* What ExclusiveAccess needs of the callers, and all it needs: two threads
\* access the queue at once only if one of them passed process a guard of
\* another mutex.  No wait, unlocked, unwinding, moved or replaced mutex, and
\* no call that assert_mutex_good refuses, lets a second thread in.
OnlyForeignGuardsOverlap ==
    \A t, u \in Threads :
        stage[t] = "exclusive" /\ stage[u] = "exclusive" /\ t # u =>
            Foreign(t) \/ Foreign(u)

\* Where a call has no guard: process is passed one, the poison methods are not.
Guardless(t) ==
    \/ stage[t] \in {"idle", "passed"}
    \/ stage[t] = "asserting" /\ method[t] = "queue_poison"

\* Everything that makes the two inductive: locks exclude, what is borrowed
\* does not move, two mutexes are never at one place, a call in use has the
\* mutex at mutex_address, and a guard, of whatever mutex, where it accesses
\* the queue or waits.
BindingInv ==
    /\ BindingTypeOK
    /\ \A m \in Mutexes, t, u \in Threads :
        LockedBy(t, m) /\ LockedBy(u, m) => t = u
    /\ \A t \in Threads : guard[t] \notin held[t]
    /\ \A m, n \in Mutexes : addr[m] = addr[n] /\ addr[m] # Zero => m = n
    /\ \A m \in Mutexes : Borrowed(m) => addr[m] # Zero
    /\ \A t \in Threads : InUse(t) => addr[mutex[t]] = mutex_address
    /\ \A t \in Threads : Guardless(t) <=> guard[t] = NoMutex
==============================================================================
