-------------------------- MODULE MutexBindingProofs --------------------------
(***************************************************************************)
(* BindingInv is inductive, and implies that one mutex is in use at a time *)
(* and that only a foreign guard lets a second thread into the queue.  No  *)
(* theorem assumes anything of the callers.                                *)
(***************************************************************************)
EXTENDS MutexBinding, TLAPS

\* A queue that was never called satisfies the invariant.
LEMMA BindingInit == Init => BindingInv
BY BindingAssumption
   DEF Init, BindingInv, BindingTypeOK, Stages, InUse, LockedBy, Borrowed,
       Guardless

\* The mutex argument of a call does not go away, and no other is in its place.
LEMMA ArgumentIsPlaced ==
    ASSUME BindingInv, NEW t \in Threads, stage[t] # "idle"
    PROVE  /\ addr[mutex[t]] # Zero
           /\ \A m \in Mutexes : addr[m] = addr[mutex[t]] => m = mutex[t]
<1>1. mutex[t] \in Mutexes /\ Borrowed(mutex[t])
  BY DEF BindingInv, BindingTypeOK, Borrowed
<1>2. QED BY <1>1 DEF BindingInv

\* Every step of the program around the queue, and of the calls, preserves it.
LEMMA BindingStep ==
    ASSUME BindingInv, [Next]_bindingVars
    PROVE  BindingInv'
<1> USE BindingAssumption
    DEF BindingInv, BindingTypeOK, Stages, InUse, LockedBy, Borrowed,
        Guardless, callVars
<1>1. ASSUME NEW m \in Mutexes, Remove(m) PROVE BindingInv'
  BY <1>1 DEF Remove
<1>2. ASSUME NEW m \in Mutexes, NEW a \in Addrs, Place(m, a) PROVE BindingInv'
  BY <1>2 DEF Place
<1>3. ASSUME NEW t \in Threads, NEW m \in Mutexes, Lock(t, m) PROVE BindingInv'
  BY <1>3 DEF Lock, Locked
<1>4. ASSUME NEW t \in Threads, NEW m \in Mutexes, NEW g \in Mutexes,
             process(t, m, g)
      PROVE  BindingInv'
  BY <1>4 DEF process, Step
<1>5. ASSUME NEW t \in Threads, NEW m \in Mutexes, queue_poison(t, m)
      PROVE  BindingInv'
  BY <1>5 DEF queue_poison, Step
<1>6. ASSUME NEW t \in Threads, NEW m \in Mutexes, Unlock(t, m)
      PROVE  BindingInv'
  BY <1>6 DEF Unlock
<1>7. ASSUME NEW t \in Threads, assert_mutex_good(t) PROVE BindingInv'
  <2>1. PICK to \in {"exclusive", "passed"} :
          /\ stage[t] = "asserting" /\ stage' = [stage EXCEPT ![t] = to]
          /\ to = "exclusive" <=> method[t] = "process"
    BY <1>7 DEF assert_mutex_good, Step
  <2>2. /\ mutex_address \in {Zero, addr[mutex[t]]}
        /\ mutex_address' = addr[mutex[t]]
        /\ UNCHANGED <<addr, method, mutex, guard, held>>
    BY <1>7 DEF assert_mutex_good, compare_exchange
  <2>3. \A u \in Threads : InUse(u) => addr[mutex[u]] = mutex_address'
    BY <2>2, ArgumentIsPlaced
  <2>4. /\ \A u \in Threads, m \in Mutexes : LockedBy(u, m)' <=> LockedBy(u, m)
        /\ \A m \in Mutexes : Borrowed(m)' <=> Borrowed(m)
        /\ \A u \in Threads : InUse(u)' => InUse(u) \/ u = t
    BY <2>1, <2>2
  <2>5. BindingTypeOK'
    BY <2>1, <2>2
  <2>6. \A u \in Threads : InUse(u)' => addr'[mutex'[u]] = mutex_address'
    BY <2>2, <2>3, <2>4
  <2>7. \A u \in Threads : Guardless(u)' <=> guard'[u] = NoMutex
    BY <2>1, <2>2
  <2> HIDE DEF BindingTypeOK, LockedBy, Borrowed, InUse, Guardless
  <2>8. QED BY <2>2, <2>4, <2>5, <2>6, <2>7
<1>8. ASSUME NEW t \in Threads, AssertPanics(t) PROVE BindingInv'
  BY <1>8 DEF AssertPanics, Step
<1>9. ASSUME NEW t \in Threads, LockArgument(t) PROVE BindingInv'
  BY <1>9 DEF LockArgument, Locked, Step
<1>10. ASSUME NEW t \in Threads, DropInside(t) PROVE BindingInv'
  BY <1>10 DEF DropInside, Step
<1>11. ASSUME NEW t \in Threads, Wait(t) PROVE BindingInv'
  BY <1>11 DEF Wait, Step
<1>12. ASSUME NEW t \in Threads, EndWait(t) PROVE BindingInv'
  BY <1>12 DEF EndWait, Locked, Step
<1>13. ASSUME NEW t \in Threads, Return(t) PROVE BindingInv'
  BY <1>13 DEF Return, Step
<1>14. CASE UNCHANGED bindingVars
  BY <1>14 DEF bindingVars
<1>15. QED
  BY <1>1, <1>2, <1>3, <1>4, <1>5, <1>6, <1>7, <1>8, <1>9, <1>10, <1>11,
     <1>12, <1>13, <1>14 DEF Next

\* The invariant holds of every program that calls the queue, whatever guards
\* it passes to process.
THEOREM BindingInvariant == Spec => []BindingInv
<1>1. BindingInv /\ [Next]_bindingVars => BindingInv'
  BY BindingStep
<1>2. QED
  BY <1>1, BindingInit, PTL DEF Spec

\* For every number of threads, mutexes and addresses, comparing addresses is
\* enough for all calls past assert_mutex_good to have one and the same mutex.
THEOREM OneMutexIsInUse == Spec => []OneMutexInUse
<1>1. BindingInv => OneMutexInUse
  BY ArgumentIsPlaced DEF BindingInv, BindingTypeOK, OneMutexInUse, InUse
<1>2. QED
  BY <1>1, BindingInvariant, PTL

\* Where two threads access the queue at once, one of them works under a guard
\* that is not of its mutex argument: what assert_mutex_good does guarantee.
THEOREM OverlapNeedsForeignGuard == Spec => []OnlyForeignGuardsOverlap
<1>1. BindingInv => OnlyForeignGuardsOverlap
  <2> SUFFICES ASSUME BindingInv,
                      NEW t \in Threads, NEW u \in Threads,
                      stage[t] = "exclusive", stage[u] = "exclusive",
                      ~Foreign(t), ~Foreign(u)
               PROVE  t = u
    BY DEF OnlyForeignGuardsOverlap
  <2> USE BindingAssumption DEF BindingInv, BindingTypeOK
  <2>1. guard[t] = mutex[t] /\ guard[u] = mutex[u]
    BY DEF Foreign, Guardless
  <2>2. mutex[t] = mutex[u]
    BY ArgumentIsPlaced DEF InUse
  <2>3. LockedBy(t, mutex[t]) /\ LockedBy(u, mutex[t])
    BY <2>1, <2>2 DEF LockedBy
  <2>4. QED
    BY <2>3
<1>2. QED
  BY <1>1, BindingInvariant, PTL
==============================================================================
