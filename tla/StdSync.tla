------------------------------- MODULE StdSync -------------------------------
(***************************************************************************)
(* The std::sync primitives the crate is built on, as src/ uses them: one  *)
(* Mutex with its poison flag, and one Condvar per waiting thread (a       *)
(* TaskState holds its own Condvar, so it has at most one waiter).         *)
(*                                                                         *)
(* Assumed of std, because its documentation promises it:                  *)
(*   - lock() blocks while any guard is live, also for the thread that     *)
(*     owns that guard ("this function will not return on the second       *)
(*     call"; the futex and pthread builds deadlock);                      *)
(*   - dropping a guard while its thread unwinds from a panic that began   *)
(*     after the lock was taken poisons the mutex, any other drop leaves   *)
(*     the flag as it is;                                                  *)
(*   - Condvar::wait unlocks and parks in one atomic step, may wake        *)
(*     spuriously, and re-locks before it returns.                         *)
(***************************************************************************)

CONSTANTS Threads,    \* the threads that may use the queue
          NoThread    \* owner of an unlocked mutex

ASSUME NoThreadAssumption == NoThread \notin Threads

VARIABLES owner,      \* the thread whose MutexGuard is live, or NoThread
          poisoned,   \* the poison flag of the mutex
          parked      \* the threads blocked inside Condvar::wait

syncVars == <<owner, poisoned, parked>>

SyncTypeOK ==
    /\ owner \in Threads \cup {NoThread}
    /\ poisoned \in BOOLEAN
    /\ parked \subseteq Threads

SyncInit ==
    /\ owner = NoThread
    /\ poisoned = FALSE
    /\ parked = {}

\* Mutex::lock by a caller that reads the guard out of a PoisonError, if any.
Lock(t) ==
    /\ owner = NoThread
    /\ owner' = t

\* A guard dropped by a thread that is not unwinding.
DropGuard ==
    /\ owner' = NoThread
    /\ UNCHANGED poisoned

\* A guard dropped by the unwinding of a panic.
DropGuardUnwinding ==
    /\ owner' = NoThread
    /\ poisoned' = TRUE

\* Condvar::wait up to the point where the thread blocks.
UnlockAndPark(t) ==
    /\ owner' = NoThread
    /\ parked' = parked \cup {t}
    /\ UNCHANGED poisoned

\* Condvar::notify_one on the condition variable t waits on.
NotifyOne(t) == parked' = parked \ {t}

\* Condvar::wait is back from blocking and needs the mutex again.
CanRelock(t) ==
    /\ t \notin parked
    /\ owner = NoThread
==============================================================================
