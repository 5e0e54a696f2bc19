------------------------------- MODULE QueueView -------------------------------
(***************************************************************************)
(* What a ContentionQueue sees of threads that also do other things with   *)
(* its Mutex, such as calls of another ContentionQueue (NestedCalls).      *)
(***************************************************************************)
EXTENDS ContentionQueueProps

\* The steps of a thread in this queue, and outside of all queues.  A closure
\* given to unlocked that uses the mutex is not in this queue then; and what a
\* thread waits for here is woken up spuriously only here.
QueueStep(t) ==
    \/ UserStep(t) /\ ~ClosurePoisonsMutex(t)
    \/ CallStep(t)
    \/ HandleStep(t)
    \/ pc[t] \in {"entering", "waiting"} /\ EnvStep(t)

\* Whoever has the mutex and is not in this queue, be it in another one or not,
\* is a caller with its guard.
pcSeen == [t \in Threads |->
            IF pc[t] = "idle" /\ owner = t THEN "guarded" ELSE pc[t]]

\* The queue has no step for a closure of its own that has the mutex: it sees
\* nobody.
ownerSeen == IF owner \in Threads /\ pc[owner] = "unlocked"
             THEN NoThread
             ELSE owner

parkedSeen == {t \in parked : pc[t] = "waiting"}

Seen == INSTANCE ContentionQueueProps WITH
    owner <- ownerSeen, parked <- parkedSeen, pc <- pcSeen,
    calls <- [t \in Threads |-> 0], MaxCalls <- Unbounded
==============================================================================
