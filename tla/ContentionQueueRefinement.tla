----------------------- MODULE ContentionQueueRefinement -----------------------
(***************************************************************************)
(* ContentionQueue implements FifoFront, for any number of threads, every  *)
(* PanicOptions and all faults: each of its steps is one of FifoFront, or  *)
(* leaves holder, line and merged as they are.                             *)
(*                                                                         *)
(* Before that, what becomes of values and of panics: no value is lost,    *)
(* processed twice, or reported as processed when it was not.  FateInv,    *)
(* the invariant behind it, relates value, fate, outcome and pc of each    *)
(* call; PoisonInv tells where poison comes from.                          *)
(***************************************************************************)
EXTENDS ContentionQueueProofs

\* How the result and the fate of a call go with its place in the code.
CallInv ==
    \A t \in Threads :
        /\ value[t] => pc[t] = "waiting" /\ fate[t] = "pending"
        /\ pc[t] \in {"idle", "guarded", "entering"} =>
                outcome[t] = "none" /\ fate[t] = "none"
        /\ pc[t] = "waiting" =>
                /\ outcome[t] = "none"
                /\ fate[t] # "none" /\ (fate[t] = "pending" => value[t])
        /\ pc[t] = "atFront" =>
                outcome[t] \in
                    {"Process", "ProcessedElsewhere", "ProcessingPanicked"}
        /\ pc[t] = "atFront" /\ outcome[t] = "Process" => fate[t] = "pending"
        /\ pc[t] = "begin" =>
                outcome[t] \in {"none", "Process"} /\ fate[t] = "pending"
        /\ pc[t] \in {"processing", "unlocked", "relock"} =>
                outcome[t] \in {"none", "Process"} /\ fate[t] = "inCallback"
        /\ pc[t] = "relockUnwinding" =>
                outcome[t] \in {"none", "Process"} /\ fate[t] = "abandoned"
        /\ LeakedGuard(t) => fate[t] = "abandoned"
        /\ pc[t] = "returned" =>
                /\ outcome[t] \in
                    {"Processed", "ProcessedElsewhere", "ProcessingPanicked"}
                /\ fate[t] = "processed"
        /\ outcome[t] \in {"ProcessedElsewhere", "ProcessingPanicked"} =>
                fate[t] = "processed"

\* A value that a callback has, or had when it panicked, is in the hands of a
\* call that has the front: nobody else reaches the end of a wait meanwhile.
HandsInv ==
    \A t \in Threads :
        /\ fate[t] = "inCallback" =>
                \E s \in Threads :
                    pc[s] \in {"processing", "unlocked", "relock"}
        /\ fate[t] = "abandoned" =>
                \E s \in Threads : \/ pc[s] = "relockUnwinding"
                                   \/ pc[s] = "caught" /\ owner = s

FateInv == CallInv /\ HandsInv

\* Nobody has called the queue yet.
LEMMA FateInit == Init => FateInv
BY DEF Init, FateInv, CallInv, HandsInv, LeakedGuard

\* A wait ends only when nobody else has the front: a value that was taken
\* has been processed by then.
LEMMA TakenMeansProcessed ==
    ASSUME IInv, FateInv, NEW t \in Threads, ReachFront(t)
    PROVE  IF value[t] THEN fate[t] = "pending" ELSE fate[t] = "processed"
<1> USE DEF IInv, TypeOK
<1>1. pc[t] = "waiting" /\ HasFront(t)
  BY DEF ReachFront, Goto, LeaveWait, HasFront, Granted
<1>2. \A s \in Threads : s # t => pc[s] \notin FrontPcs
  BY <1>1 DEF QueueInv, FrontExclusive, HasFront
<1>3. fate[t] \notin {"inCallback", "abandoned"}
  BY <1>1, <1>2 DEF FateInv, HandsInv, FrontPcs
<1>4. QED BY <1>1, <1>3 DEF FateInv, CallInv, Fates

\* Every step keeps result and fate in line with where the call is.
LEMMA CallStepKeeps ==
    ASSUME IInv, FateInv, [Next]_vars
    PROVE  CallInv'
<1>0. \A s, u \in Threads : pc[s] \in FrontPcs /\ pc[u] \in FrontPcs => s = u
  BY DEF IInv, QueueInv, FrontExclusive, HasFront
<1> USE <1>0, NoThreadAssumption DEF IInv, TypeOK, SyncTypeOK, FateInv, CallInv,
     FrontPcs, LeakedGuard, GuardDiscipline, GuardPcs, syncVars
<1>1. ASSUME NEW t \in Threads, UserStep(t) PROVE CallInv'
  <2>1. CASE UserLock(t)
    BY <2>1 DEF UserLock, Goto, Lock, queueVars, constVars
  <2>2. CASE UserUnlock(t)
    BY <2>2 DEF UserUnlock, Goto, DropGuard, queueVars, constVars
  <2>3. CASE UserPanic(t)
    BY <2>3 DEF UserPanic, Goto, DropGuardUnwinding, queueVars, constVars
  <2>4. CASE ClosurePoisonsMutex(t)
    BY <2>4 DEF ClosurePoisonsMutex, DropGuardUnwinding, queueVars, callVars,
      constVars
  <2>5. CASE ClearQueuePoison(t)
    BY <2>5 DEF ClearQueuePoison, syncVars, callVars, constVars
  <2>6. CASE process(t)
    BY <2>6 DEF process, Enter, Goto, queueVars, constVars
  <2>7. CASE lock_and_process(t)
    BY <2>7 DEF lock_and_process, Enter, Lock, Goto, queueVars, constVars
  <2>8. CASE LockIsPoisoned(t)
    BY <2>8 DEF LockIsPoisoned, DropGuardUnwinding, queueVars, callVars,
      constVars
  <2>9. QED BY <1>1, <2>1, <2>2, <2>3, <2>4, <2>5, <2>6, <2>7, <2>8 DEF
    UserStep
<1>2. ASSUME NEW t \in Threads, CallStep(t) PROVE CallInv'
  <2>1. CASE TakeFront(t)
    BY <2>1 DEF TakeFront, Goto, SetFate, try_acquire_front_fast, syncVars,
      constVars
  <2>2. CASE PushAndWait(t)
    BY <2>2 DEF PushAndWait, Push, Goto, SetFate, UnlockAndPark, NewTaskState,
      constVars
  <2>3. CASE ReachFront(t)
    <3>1. /\ pc[t] = "waiting" /\ pc' = [pc EXCEPT ![t] = "atFront"]
          /\ value' = [value EXCEPT ![t] = FALSE]
          /\ outcome' = [outcome EXCEPT ![t] = WaitResult(t)]
          /\ fate' = fate /\ owner' = t
      BY <2>3 DEF ReachFront, Goto, SetOutcome, LeaveWait
    <3>2. /\ WaitResult(t) \in
                {"Process", "ProcessedElsewhere", "ProcessingPanicked"}
          /\ WaitResult(t) = "Process" => fate[t] = "pending"
          /\ WaitResult(t) # "Process" => fate[t] = "processed"
      BY <2>3, TakenMeansProcessed DEF WaitResult
    <3>3. QED BY <3>1, <3>2
  <2>4. CASE QueuePoisonPanic(t)
    BY <2>4 DEF QueuePoisonPanic, Goto, DropGuardUnwinding, queueVars,
      constVars
  <2>5. CASE TakeOwnValue(t)
    BY <2>5 DEF TakeOwnValue, AfterWait, Goto, syncVars, queueVars, constVars
  <2>6. CASE ReturnUnprocessed(t)
    BY <2>6 DEF ReturnUnprocessed, AfterWait, Goto, syncVars, queueVars,
      constVars
  <2>7. CASE MutexPoisonPanic(t)
    BY <2>7 DEF MutexPoisonPanic, Goto, DropGuardUnwinding, queueVars,
      constVars
  <2>8. CASE StartCallback(t)
    BY <2>8 DEF StartCallback, Goto, NewHandle, syncVars, queueVars, constVars,
      SetFate
  <2>9. CASE HandOff(t)
    <3>1. PICK to \in {"idle", "guarded"} : pc' = [pc EXCEPT ![t] = to]
      BY <2>9 DEF HandOff, Goto
    <3>2. /\ outcome' = [outcome EXCEPT ![t] = "none"]
          /\ fate' = [fate EXCEPT ![t] = "none"]
          /\ value' = value /\ pc[t] = "returned"
      BY <2>9 DEF HandOff, Goto, CallEnds, SetFate
    <3>3. QED BY <3>1, <3>2
  <2>10. CASE CatchUnwind(t)
    BY <2>10 DEF CatchUnwind, Goto, CallEnds, constVars, SetFate
  <2>11. QED BY <1>2, <2>1, <2>2, <2>3, <2>4, <2>5, <2>6, <2>7, <2>8, <2>9,
    <2>10 DEF CallStep
<1>3. ASSUME NEW t \in Threads, HandleStep(t) PROVE CallInv'
  <2>1. CASE Pop(t)
    <3>1. PICK u \in Threads :
            /\ value[u] /\ pc' = pc
            /\ value' = [value EXCEPT ![u] = FALSE]
            /\ fate' = [fate EXCEPT ![u] = "inCallback"]
      BY <2>1, PopSucceeds DEF ValueInv
    <3>2. outcome' = outcome /\ owner' = owner
      BY <2>1 DEF Pop
    <3>3. QED BY <3>1, <3>2
  <2>2. CASE HandleClearsPoison(t)
    BY <2>2 DEF HandleClearsPoison, syncVars, callVars
  <2>3. CASE Unlocked(t)
    BY <2>3 DEF Unlocked, Goto, DropGuard, queueVars, constVars
  <2>4. CASE ClosureReturns(t)
    BY <2>4 DEF ClosureReturns, Goto, syncVars, queueVars, constVars
  <2>5. CASE ClosurePanics(t)
    BY <2>5 DEF ClosurePanics, Goto, SettleFates, syncVars, queueVars,
      constVars
  <2>6. CASE RelockAndResume(t)
    BY <2>6 DEF RelockAndResume, Goto, Lock, queueVars, constVars
  <2>7. CASE RelockAndUnwind(t)
    BY <2>7 DEF RelockAndUnwind, Goto, Lock, queueVars, constVars
  <2>8. CASE CallbackReturns(t)
    BY <2>8 DEF CallbackReturns, Goto, SetOutcome, SettleFates, syncVars,
      queueVars, constVars
  <2>9. CASE CallbackPanics(t)
    BY <2>9 DEF CallbackPanics, Goto, SettleFates, syncVars, queueVars,
      constVars
  <2>10. QED BY <1>3, <2>1, <2>2, <2>3, <2>4, <2>5, <2>6, <2>7, <2>8, <2>9 DEF
    HandleStep
<1>4. ASSUME NEW t \in Threads, EnvStep(t) PROVE CallInv'
  <2>1. CASE PushAborts(t)
    BY <2>1 DEF PushAborts, syncVars, queueVars, callVars
  <2>2. CASE SpuriousWakeup(t)
    BY <2>2 DEF SpuriousWakeup, queueVars, callVars, constVars
  <2>3. CASE KeepWaiting(t)
    BY <2>3 DEF KeepWaiting, WaitAgain, callVars, constVars, CanRelock
  <2>4. QED BY <1>4, <2>1, <2>2, <2>3 DEF EnvStep
<1>5. CASE ClearMutexPoison
  BY <1>5 DEF ClearMutexPoison, queueVars, callVars, constVars
<1>6. CASE UNCHANGED vars
  BY <1>6 DEF vars
<1>7. QED BY <1>1, <1>2, <1>3, <1>4, <1>5, <1>6 DEF Next, Terminated

HasValues(s) == pc[s] \in {"processing", "unlocked", "relock"}

HasPanicked(s) == pc[s] = "relockUnwinding" \/ (pc[s] = "caught" /\ owner = s)

\* A step that neither takes values nor lets go of them.
KeepsHands ==
    \A s \in Threads :
        /\ HasValues(s) => HasValues(s)'
        /\ HasPanicked(s) => HasPanicked(s)'
        /\ fate'[s] \in {"inCallback", "abandoned"} => fate'[s] = fate[s]

\* Such a step is of no interest to HandsInv.
LEMMA KeepsHandsKeeps == HandsInv /\ KeepsHands => HandsInv'
BY DEF KeepsHands, HandsInv, HasValues, HasPanicked

\* Values leave the hands of a call only when it decides what became of them.
LEMMA HandsStepKeeps ==
    ASSUME IInv, FateInv, [Next]_vars
    PROVE  HandsInv'
<1> USE KeepsHandsKeeps, NoThreadAssumption DEF IInv, TypeOK, SyncTypeOK,
     FateInv, GuardDiscipline, GuardPcs
<1>1. ASSUME NEW t \in Threads, UserStep(t) PROVE HandsInv'
  <2>1. CASE UserLock(t)
    <3>1. KeepsHands
      BY <2>1 DEF KeepsHands, HasValues, HasPanicked, UserLock, Goto, Lock,
        queueVars, constVars
    <3>2. QED BY <3>1
  <2>2. CASE UserUnlock(t)
    <3>1. KeepsHands
      BY <2>2 DEF KeepsHands, HasValues, HasPanicked, UserUnlock, Goto,
        DropGuard, queueVars, constVars
    <3>2. QED BY <3>1
  <2>3. CASE UserPanic(t)
    <3>1. KeepsHands
      BY <2>3 DEF KeepsHands, HasValues, HasPanicked, UserPanic, Goto,
        DropGuardUnwinding, queueVars, constVars
    <3>2. QED BY <3>1
  <2>4. CASE ClosurePoisonsMutex(t)
    <3>1. KeepsHands
      BY <2>4 DEF KeepsHands, HasValues, HasPanicked, ClosurePoisonsMutex,
        DropGuardUnwinding, queueVars, callVars, constVars
    <3>2. QED BY <3>1
  <2>5. CASE ClearQueuePoison(t)
    <3>1. KeepsHands
      BY <2>5 DEF KeepsHands, HasValues, HasPanicked, ClearQueuePoison, syncVars,
        callVars, constVars
    <3>2. QED BY <3>1
  <2>6. CASE process(t)
    <3>1. KeepsHands
      BY <2>6 DEF KeepsHands, HasValues, HasPanicked, process, Enter, Goto,
        queueVars, constVars
    <3>2. QED BY <3>1
  <2>7. CASE lock_and_process(t)
    <3>1. KeepsHands
      BY <2>7 DEF KeepsHands, HasValues, HasPanicked, lock_and_process, Enter,
        Lock, Goto, queueVars, constVars
    <3>2. QED BY <3>1
  <2>8. CASE LockIsPoisoned(t)
    <3>1. KeepsHands
      BY <2>8 DEF KeepsHands, HasValues, HasPanicked, LockIsPoisoned,
        DropGuardUnwinding, queueVars, callVars, constVars
    <3>2. QED BY <3>1
  <2>9. QED BY <1>1, <2>1, <2>2, <2>3, <2>4, <2>5, <2>6, <2>7, <2>8 DEF
    UserStep
<1>2. ASSUME NEW t \in Threads, CallStep(t) PROVE HandsInv'
  <2>1. CASE TakeFront(t)
    <3>1. KeepsHands
      BY <2>1 DEF KeepsHands, HasValues, HasPanicked, TakeFront, Goto, SetFate,
        try_acquire_front_fast, syncVars, constVars
    <3>2. QED BY <3>1
  <2>2. CASE PushAndWait(t)
    <3>1. KeepsHands
      BY <2>2 DEF KeepsHands, HasValues, HasPanicked, PushAndWait, Push, Goto,
        SetFate, UnlockAndPark, NewTaskState, constVars
    <3>2. QED BY <3>1
  <2>3. CASE ReachFront(t)
    <3>1. KeepsHands
      BY <2>3 DEF KeepsHands, HasValues, HasPanicked, ReachFront, Goto,
        SetOutcome, NewTaskState, LeaveWait, constVars, CanRelock
    <3>2. QED BY <3>1
  <2>4. CASE QueuePoisonPanic(t)
    <3>1. KeepsHands
      BY <2>4 DEF KeepsHands, HasValues, HasPanicked, QueuePoisonPanic, Goto,
        DropGuardUnwinding, queueVars, constVars
    <3>2. QED BY <3>1
  <2>5. CASE TakeOwnValue(t)
    <3>1. KeepsHands
      BY <2>5 DEF KeepsHands, HasValues, HasPanicked, TakeOwnValue, AfterWait,
        Goto, syncVars, queueVars, constVars
    <3>2. QED BY <3>1
  <2>6. CASE ReturnUnprocessed(t)
    <3>1. KeepsHands
      BY <2>6 DEF KeepsHands, HasValues, HasPanicked, ReturnUnprocessed,
        AfterWait, Goto, syncVars, queueVars, constVars
    <3>2. QED BY <3>1
  <2>7. CASE MutexPoisonPanic(t)
    <3>1. KeepsHands
      BY <2>7 DEF KeepsHands, HasValues, HasPanicked, MutexPoisonPanic, Goto,
        DropGuardUnwinding, queueVars, constVars
    <3>2. QED BY <3>1
  <2>8. CASE StartCallback(t)
    <3>1. /\ pc' = [pc EXCEPT ![t] = "processing"] /\ owner' = owner
          /\ fate' = [fate EXCEPT ![t] = "inCallback"]
          /\ pc[t] = "begin"
      BY <2>8 DEF StartCallback, Goto, NewHandle, SetFate, syncVars
    <3>2. QED BY <3>1 DEF HandsInv
  <2>9. CASE HandOff(t)
    <3>1. /\ pc[t] = "returned" /\ owner = t
          /\ \A s \in Threads : s # t => pc'[s] = pc[s]
          /\ fate' = [fate EXCEPT ![t] = "none"]
      BY <2>9 DEF HandOff, Goto, CallEnds, SetFate
    <3>2. KeepsHands
      BY <3>1 DEF KeepsHands, HasValues, HasPanicked
    <3>3. QED BY <3>2
  <2>10. CASE CatchUnwind(t)
    <3>1. KeepsHands
      BY <2>10 DEF KeepsHands, HasValues, HasPanicked, CatchUnwind, Goto,
        CallEnds, constVars, SetFate
    <3>2. QED BY <3>1
  <2>11. QED BY <1>2, <2>1, <2>2, <2>3, <2>4, <2>5, <2>6, <2>7, <2>8, <2>9,
    <2>10 DEF CallStep
<1>3. ASSUME NEW t \in Threads, HandleStep(t) PROVE HandsInv'
  <2>1. CASE Pop(t)
    <3>1. PICK u \in Threads :
            pc' = pc /\ fate' = [fate EXCEPT ![u] = "inCallback"]
      BY <2>1, PopSucceeds DEF ValueInv
    <3>2. pc[t] = "processing" /\ owner' = owner
      BY <2>1 DEF Pop, syncVars
    <3>3. QED BY <3>1, <3>2 DEF HandsInv
  <2>2. CASE HandleClearsPoison(t)
    <3>1. KeepsHands
      BY <2>2 DEF KeepsHands, HasValues, HasPanicked, HandleClearsPoison,
        syncVars, callVars
    <3>2. QED BY <3>1
  <2>3. CASE Unlocked(t)
    <3>1. KeepsHands
      BY <2>3 DEF KeepsHands, HasValues, HasPanicked, Unlocked, Goto, DropGuard,
        queueVars, constVars
    <3>2. QED BY <3>1
  <2>4. CASE ClosureReturns(t)
    <3>1. KeepsHands
      BY <2>4 DEF KeepsHands, HasValues, HasPanicked, ClosureReturns, Goto,
        syncVars, queueVars, constVars
    <3>2. QED BY <3>1
  <2>5. CASE ClosurePanics(t)
    <3>1. /\ pc' = [pc EXCEPT ![t] = "relockUnwinding"] /\ owner' = owner
          /\ \A s \in Threads : fate'[s] # "inCallback"
      BY <2>5 DEF ClosurePanics, Goto, SettleFates, syncVars
    <3>2. pc[t] = "unlocked"
      BY <2>5 DEF ClosurePanics, Goto
    <3>3. QED BY <3>1, <3>2 DEF HandsInv
  <2>6. CASE RelockAndResume(t)
    <3>1. KeepsHands
      BY <2>6 DEF KeepsHands, HasValues, HasPanicked, RelockAndResume, Goto,
        Lock, queueVars, constVars
    <3>2. QED BY <3>1
  <2>7. CASE RelockAndUnwind(t)
    <3>1. KeepsHands
      BY <2>7 DEF KeepsHands, HasValues, HasPanicked, RelockAndUnwind, Goto,
        Lock, queueVars, constVars
    <3>2. QED BY <3>1
  <2>8. CASE CallbackReturns(t)
    <3>1. /\ pc[t] = "processing" /\ owner = t /\ owner' = owner
          /\ pc' = [pc EXCEPT ![t] = "returned"]
          /\ \A s \in Threads :
                /\ fate'[s] # "inCallback"
                /\ fate'[s] = "abandoned" => fate[s] = "abandoned"
      BY <2>8 DEF CallbackReturns, Goto, SettleFates, syncVars
    <3>2. QED BY <3>1 DEF HandsInv
  <2>9. CASE CallbackPanics(t)
    <3>1. /\ pc' = [pc EXCEPT ![t] = "caught"] /\ owner' = owner
          /\ \A s \in Threads : fate'[s] # "inCallback"
      BY <2>9 DEF CallbackPanics, Goto, SettleFates, syncVars
    <3>2. pc[t] = "processing" /\ owner = t
      BY <2>9 DEF CallbackPanics, Goto
    <3>3. QED BY <3>1, <3>2 DEF HandsInv
  <2>10. QED BY <1>3, <2>1, <2>2, <2>3, <2>4, <2>5, <2>6, <2>7, <2>8, <2>9 DEF
    HandleStep
<1>4. ASSUME NEW t \in Threads, EnvStep(t) PROVE HandsInv'
  <2>1. CASE PushAborts(t)
    <3>1. KeepsHands
      BY <2>1 DEF KeepsHands, HasValues, HasPanicked, PushAborts, syncVars,
        queueVars, callVars
    <3>2. QED BY <3>1
  <2>2. CASE SpuriousWakeup(t)
    <3>1. KeepsHands
      BY <2>2 DEF KeepsHands, HasValues, HasPanicked, SpuriousWakeup, queueVars,
        callVars, constVars
    <3>2. QED BY <3>1
  <2>3. CASE KeepWaiting(t)
    <3>1. KeepsHands
      BY <2>3 DEF KeepsHands, HasValues, HasPanicked, KeepWaiting, WaitAgain,
        callVars, constVars, CanRelock
    <3>2. QED BY <3>1
  <2>4. QED BY <1>4, <2>1, <2>2, <2>3 DEF EnvStep
<1>5. CASE ClearMutexPoison
  <2>1. KeepsHands
    BY <1>5 DEF ClearMutexPoison, KeepsHands, HasValues, HasPanicked, queueVars,
       callVars, constVars
  <2>2. QED BY <2>1
<1>6. CASE UNCHANGED vars
  <2>1. KeepsHands
    BY <1>6 DEF vars, KeepsHands, HasValues, HasPanicked
  <2>2. QED BY <2>1
<1>7. QED BY <1>1, <1>2, <1>3, <1>4, <1>5, <1>6 DEF Next, Terminated

-----------------------------------------------------------------------------
\* A call's result and what became of its value agree, everywhere in a call.
THEOREM FateInvariant == Spec => []FateInv
<1>1. IInv /\ FateInv /\ [Next]_vars => FateInv'
  BY CallStepKeeps, HandsStepKeeps DEF FateInv
<1>2. QED BY FateInit, <1>1, Inductive, PTL DEF Spec

\* While a task waits somebody is at the front, awake, and hands it over, or a
\* callback panicked and its thread waits for the guard that it leaked: for any
\* number of threads, every PanicOptions and all faults.
THEOREM NobodyIsOrphaned == Spec => []NoOrphanedWaiter
<1>1. IInv /\ FateInv => NoOrphanedWaiter
  BY DEF IInv, QueueInv, FrontIsHeld, WokenTaskIsHead, HasFront, Granted,
     FateInv, CallInv, CanHandOver, NoOrphanedWaiter
<1>2. QED BY <1>1, Inductive, FateInvariant, PTL

\* A call runs its callback on a value nobody has processed, and none that
\* reports its value as merged reports that of a value nobody has touched: for
\* every number of threads, every fault and every option.
THEOREM ValuesAreNeitherLostNorRepeated == Spec => []ValueNeitherLostNorRepeated
<1>1. FateInv => ValueNeitherLostNorRepeated
  BY DEF FateInv, CallInv, ValueNeitherLostNorRepeated
<1>2. QED BY <1>1, FateInvariant, PTL

\* A panic of a callback is never reported as success, to any of the tasks it
\* merged.
THEOREM SuccessIsReal == Spec => []SuccessMeansProcessed
<1>1. FateInv => SuccessMeansProcessed
  BY DEF FateInv, CallInv, SuccessMeansProcessed
<1>2. QED BY <1>1, FateInvariant, PTL

-----------------------------------------------------------------------------
GivesOnce(t) ==
    fate'[t] = "inCallback" /\ fate[t] # "inCallback" => fate[t] = "pending"

\* Only two steps give a value to a callback: a call starts its own, or pops
\* that of a task that still has one.
LEMMA StepGivesOnce ==
    ASSUME IInv, FateInv, [Next]_vars, NEW t \in Threads
    PROVE  GivesOnce(t)
<1> USE DEF IInv, TypeOK, FateInv, CallInv
<1>1. ASSUME NEW u \in Threads, UserStep(u) PROVE GivesOnce(t)
  <2>1. CASE UserLock(u)
    <3>1. \A s \in Threads : fate'[s] = "inCallback" => fate[s] = "inCallback"
      BY <2>1 DEF UserLock, queueVars, constVars
    <3>2. QED BY <3>1 DEF GivesOnce
  <2>2. CASE UserUnlock(u)
    <3>1. \A s \in Threads : fate'[s] = "inCallback" => fate[s] = "inCallback"
      BY <2>2 DEF UserUnlock, queueVars, constVars
    <3>2. QED BY <3>1 DEF GivesOnce
  <2>3. CASE UserPanic(u)
    <3>1. \A s \in Threads : fate'[s] = "inCallback" => fate[s] = "inCallback"
      BY <2>3 DEF UserPanic, queueVars, constVars
    <3>2. QED BY <3>1 DEF GivesOnce
  <2>4. CASE ClosurePoisonsMutex(u)
    <3>1. \A s \in Threads : fate'[s] = "inCallback" => fate[s] = "inCallback"
      BY <2>4 DEF ClosurePoisonsMutex, queueVars, callVars, constVars
    <3>2. QED BY <3>1 DEF GivesOnce
  <2>5. CASE ClearQueuePoison(u)
    <3>1. \A s \in Threads : fate'[s] = "inCallback" => fate[s] = "inCallback"
      BY <2>5 DEF ClearQueuePoison, syncVars, callVars, constVars
    <3>2. QED BY <3>1 DEF GivesOnce
  <2>6. CASE process(u)
    <3>1. \A s \in Threads : fate'[s] = "inCallback" => fate[s] = "inCallback"
      BY <2>6 DEF process, Enter, queueVars, constVars
    <3>2. QED BY <3>1 DEF GivesOnce
  <2>7. CASE lock_and_process(u)
    <3>1. \A s \in Threads : fate'[s] = "inCallback" => fate[s] = "inCallback"
      BY <2>7 DEF lock_and_process, Enter, queueVars, constVars
    <3>2. QED BY <3>1 DEF GivesOnce
  <2>8. CASE LockIsPoisoned(u)
    <3>1. \A s \in Threads : fate'[s] = "inCallback" => fate[s] = "inCallback"
      BY <2>8 DEF LockIsPoisoned, queueVars, callVars, constVars
    <3>2. QED BY <3>1 DEF GivesOnce
  <2>9. QED BY <1>1, <2>1, <2>2, <2>3, <2>4, <2>5, <2>6, <2>7, <2>8 DEF
    UserStep
<1>2. ASSUME NEW u \in Threads, CallStep(u) PROVE GivesOnce(t)
  <2>1. CASE TakeFront(u)
    <3>1. \A s \in Threads : fate'[s] = "inCallback" => fate[s] = "inCallback"
      BY <2>1 DEF TakeFront, SetFate, try_acquire_front_fast, syncVars, constVars
    <3>2. QED BY <3>1 DEF GivesOnce
  <2>2. CASE PushAndWait(u)
    <3>1. \A s \in Threads : fate'[s] = "inCallback" => fate[s] = "inCallback"
      BY <2>2 DEF PushAndWait, Push, SetFate, constVars
    <3>2. QED BY <3>1 DEF GivesOnce
  <2>3. CASE ReachFront(u)
    <3>1. \A s \in Threads : fate'[s] = "inCallback" => fate[s] = "inCallback"
      BY <2>3 DEF ReachFront, constVars
    <3>2. QED BY <3>1 DEF GivesOnce
  <2>4. CASE QueuePoisonPanic(u)
    <3>1. \A s \in Threads : fate'[s] = "inCallback" => fate[s] = "inCallback"
      BY <2>4 DEF QueuePoisonPanic, queueVars, constVars
    <3>2. QED BY <3>1 DEF GivesOnce
  <2>5. CASE TakeOwnValue(u)
    <3>1. \A s \in Threads : fate'[s] = "inCallback" => fate[s] = "inCallback"
      BY <2>5 DEF TakeOwnValue, AfterWait, syncVars, queueVars, constVars
    <3>2. QED BY <3>1 DEF GivesOnce
  <2>6. CASE ReturnUnprocessed(u)
    <3>1. \A s \in Threads : fate'[s] = "inCallback" => fate[s] = "inCallback"
      BY <2>6 DEF ReturnUnprocessed, AfterWait, syncVars, queueVars, constVars
    <3>2. QED BY <3>1 DEF GivesOnce
  <2>7. CASE MutexPoisonPanic(u)
    <3>1. \A s \in Threads : fate'[s] = "inCallback" => fate[s] = "inCallback"
      BY <2>7 DEF MutexPoisonPanic, queueVars, constVars
    <3>2. QED BY <3>1 DEF GivesOnce
  <2>8. CASE StartCallback(u)
    <3>1. pc[u] = "begin" /\ fate' = [fate EXCEPT ![u] = "inCallback"]
      BY <2>8 DEF StartCallback, Goto, SetFate, NewHandle
    <3>2. QED BY <3>1 DEF GivesOnce
  <2>9. CASE HandOff(u)
    <3>1. \A s \in Threads : fate'[s] = "inCallback" => fate[s] = "inCallback"
      BY <2>9 DEF HandOff, CallEnds, constVars, SetFate
    <3>2. QED BY <3>1 DEF GivesOnce
  <2>10. CASE CatchUnwind(u)
    <3>1. \A s \in Threads : fate'[s] = "inCallback" => fate[s] = "inCallback"
      BY <2>10 DEF CatchUnwind, CallEnds, constVars, SetFate
    <3>2. QED BY <3>1 DEF GivesOnce
  <2>11. QED BY <1>2, <2>1, <2>2, <2>3, <2>4, <2>5, <2>6, <2>7, <2>8, <2>9,
    <2>10 DEF CallStep
<1>3. ASSUME NEW u \in Threads, HandleStep(u) PROVE GivesOnce(t)
  <2>1. CASE Pop(u)
    <3>1. PICK s \in Threads :
            value[s] /\ fate' = [fate EXCEPT ![s] = "inCallback"]
      BY <2>1, PopSucceeds DEF ValueInv
    <3>2. QED BY <3>1 DEF GivesOnce
  <2>2. CASE HandleClearsPoison(u)
    <3>1. \A s \in Threads : fate'[s] = "inCallback" => fate[s] = "inCallback"
      BY <2>2 DEF HandleClearsPoison, syncVars, callVars
    <3>2. QED BY <3>1 DEF GivesOnce
  <2>3. CASE Unlocked(u)
    <3>1. \A s \in Threads : fate'[s] = "inCallback" => fate[s] = "inCallback"
      BY <2>3 DEF Unlocked, queueVars, constVars
    <3>2. QED BY <3>1 DEF GivesOnce
  <2>4. CASE ClosureReturns(u)
    <3>1. \A s \in Threads : fate'[s] = "inCallback" => fate[s] = "inCallback"
      BY <2>4 DEF ClosureReturns, syncVars, queueVars, constVars
    <3>2. QED BY <3>1 DEF GivesOnce
  <2>5. CASE ClosurePanics(u)
    <3>1. \A s \in Threads : fate'[s] = "inCallback" => fate[s] = "inCallback"
      BY <2>5 DEF ClosurePanics, SettleFates, syncVars, queueVars, constVars
    <3>2. QED BY <3>1 DEF GivesOnce
  <2>6. CASE RelockAndResume(u)
    <3>1. \A s \in Threads : fate'[s] = "inCallback" => fate[s] = "inCallback"
      BY <2>6 DEF RelockAndResume, queueVars, constVars
    <3>2. QED BY <3>1 DEF GivesOnce
  <2>7. CASE RelockAndUnwind(u)
    <3>1. \A s \in Threads : fate'[s] = "inCallback" => fate[s] = "inCallback"
      BY <2>7 DEF RelockAndUnwind, queueVars, constVars
    <3>2. QED BY <3>1 DEF GivesOnce
  <2>8. CASE CallbackReturns(u)
    <3>1. \A s \in Threads : fate'[s] = "inCallback" => fate[s] = "inCallback"
      BY <2>8 DEF CallbackReturns, SettleFates, syncVars, queueVars, constVars
    <3>2. QED BY <3>1 DEF GivesOnce
  <2>9. CASE CallbackPanics(u)
    <3>1. \A s \in Threads : fate'[s] = "inCallback" => fate[s] = "inCallback"
      BY <2>9 DEF CallbackPanics, SettleFates, syncVars, queueVars, constVars
    <3>2. QED BY <3>1 DEF GivesOnce
  <2>10. QED BY <1>3, <2>1, <2>2, <2>3, <2>4, <2>5, <2>6, <2>7, <2>8, <2>9 DEF
    HandleStep
<1>4. ASSUME NEW u \in Threads, EnvStep(u) PROVE GivesOnce(t)
  <2>1. CASE PushAborts(u)
    <3>1. \A s \in Threads : fate'[s] = "inCallback" => fate[s] = "inCallback"
      BY <2>1 DEF PushAborts, syncVars, queueVars, callVars
    <3>2. QED BY <3>1 DEF GivesOnce
  <2>2. CASE SpuriousWakeup(u)
    <3>1. \A s \in Threads : fate'[s] = "inCallback" => fate[s] = "inCallback"
      BY <2>2 DEF SpuriousWakeup, queueVars, callVars, constVars
    <3>2. QED BY <3>1 DEF GivesOnce
  <2>3. CASE KeepWaiting(u)
    <3>1. \A s \in Threads : fate'[s] = "inCallback" => fate[s] = "inCallback"
      BY <2>3 DEF KeepWaiting, callVars, constVars
    <3>2. QED BY <3>1 DEF GivesOnce
  <2>4. QED BY <1>4, <2>1, <2>2, <2>3 DEF EnvStep
<1>5. CASE ClearMutexPoison
  BY <1>5 DEF ClearMutexPoison, GivesOnce, queueVars, callVars, constVars
<1>6. CASE UNCHANGED vars
  BY <1>6 DEF vars, GivesOnce
<1>7. QED BY <1>1, <1>2, <1>3, <1>4, <1>5, <1>6 DEF Next, Terminated

\* A value is given to at most one callback, whoever pops it or gets it back.
THEOREM ValuesAreHandedOutOnce == Spec => HandedOutOnce
<1>1. IInv /\ FateInv /\ [Next]_vars =>
        [\A t \in Threads : GivesOnce(t)]_vars
  BY StepGivesOnce
<1>2. QED
  BY <1>1, Inductive, FateInvariant, PTL DEF Spec, HandedOutOnce, GivesOnce

-----------------------------------------------------------------------------
\* What poisons the mutex, or the queue, in the end.  A panic of a callback
\* does not: it keeps the mutex, and its call never gets as far as to poison
\* the queue; and a panic on poison only passes the poison on.
PoisonInv ==
    "user_panic" \notin Faults =>
        /\ ~poisoned /\ ~queuePoisoned
        /\ \A t \in Threads : pc[t] = "caught" => owner = t

LEMMA PoisonInit == Init => PoisonInv
BY DEF Init, SyncInit, PoisonInv

\* Whoever unwinds with the guard gone has found poison, and whoever has leaked
\* its guard blocks for ever.
LEMMA PoisonStep ==
    ASSUME IInv, PoisonInv, [Next]_vars
    PROVE  PoisonInv'
<1>0. TypeOK /\ ValueInv /\ GuardDiscipline
  BY DEF IInv
<1> USE <1>0, NoThreadAssumption DEF PoisonInv, GuardDiscipline, GuardPcs, TypeOK,
     SyncTypeOK, PC
<1>1. ASSUME NEW t \in Threads, UserStep(t) PROVE PoisonInv'
  <2>1. CASE UserLock(t)
    BY <2>1 DEF UserLock, Goto, Lock, queueVars, constVars
  <2>2. CASE UserUnlock(t)
    BY <2>2 DEF UserUnlock, Goto, DropGuard, queueVars, constVars
  <2>3. CASE UserPanic(t)
    BY <2>3 DEF UserPanic, Goto, DropGuardUnwinding, queueVars, constVars
  <2>4. CASE ClearQueuePoison(t)
    BY <2>4 DEF ClearQueuePoison, syncVars, callVars, constVars
  <2>5. CASE process(t)
    BY <2>5 DEF process, Enter, Goto, queueVars, constVars
  <2>6. CASE lock_and_process(t)
    BY <2>6 DEF lock_and_process, Lock, Enter, Goto, queueVars, constVars
  <2>7. CASE LockIsPoisoned(t)
    BY <2>7 DEF LockIsPoisoned, DropGuardUnwinding, queueVars, callVars,
         constVars
  <2>8. CASE ClosurePoisonsMutex(t)
    BY <2>8 DEF ClosurePoisonsMutex, DropGuardUnwinding, queueVars, callVars,
         constVars
  <2>9. QED BY <1>1, <2>1, <2>2, <2>3, <2>4, <2>5, <2>6, <2>7, <2>8 DEF UserStep
<1>2. ASSUME NEW t \in Threads, CallStep(t) PROVE PoisonInv'
  <2>1. CASE TakeFront(t)
    BY <2>1 DEF TakeFront, Goto, try_acquire_front_fast, SetFate, syncVars,
         constVars
  <2>2. CASE PushAndWait(t)
    BY <2>2 DEF PushAndWait, Push, Goto, NewTaskState, UnlockAndPark, SetFate,
         constVars
  <2>3. CASE ReachFront(t)
    BY <2>3 DEF ReachFront, Goto, LeaveWait, CanRelock, SetOutcome,
         NewTaskState, constVars
  <2>4. CASE QueuePoisonPanic(t)
    BY <2>4 DEF QueuePoisonPanic, Goto, DropGuardUnwinding, queueVars,
         constVars
  <2>5. CASE TakeOwnValue(t)
    BY <2>5 DEF TakeOwnValue, AfterWait, Goto, syncVars, queueVars, constVars
  <2>6. CASE ReturnUnprocessed(t)
    BY <2>6 DEF ReturnUnprocessed, AfterWait, Goto, syncVars, queueVars,
         constVars
  <2>7. CASE MutexPoisonPanic(t)
    BY <2>7 DEF MutexPoisonPanic, Goto, DropGuardUnwinding, queueVars,
         constVars
  <2>8. CASE StartCallback(t)
    BY <2>8 DEF StartCallback, Goto, NewHandle, SetFate, syncVars, queueVars,
         constVars
  <2>9. CASE HandOff(t)
    BY <2>9 DEF HandOff, Goto, CallEnds, SetFate, constVars
  <2>10. CASE CatchUnwind(t)
    BY <2>10 DEF CatchUnwind, Goto, CallEnds, SetFate, constVars
  <2>11. QED BY <1>2, <2>1, <2>2, <2>3, <2>4, <2>5, <2>6, <2>7, <2>8, <2>9,
       <2>10 DEF CallStep
<1>3. ASSUME NEW t \in Threads, HandleStep(t) PROVE PoisonInv'
  <2>1. CASE Pop(t)
    BY <2>1, PopSucceeds DEF ValueInv, Pop, syncVars
  <2>2. CASE HandleClearsPoison(t)
    BY <2>2 DEF HandleClearsPoison, syncVars, callVars
  <2>3. CASE Unlocked(t)
    BY <2>3 DEF Unlocked, Goto, DropGuard, queueVars, constVars
  <2>4. CASE ClosureReturns(t)
    BY <2>4 DEF ClosureReturns, Goto, syncVars, queueVars, constVars
  <2>5. CASE ClosurePanics(t)
    BY <2>5 DEF ClosurePanics, Goto, SettleFates, syncVars, queueVars,
         constVars
  <2>6. CASE RelockAndResume(t)
    BY <2>6 DEF RelockAndResume, Goto, Lock, queueVars, constVars
  <2>7. CASE RelockAndUnwind(t)
    BY <2>7 DEF RelockAndUnwind, Goto, Lock, queueVars, constVars
  <2>8. CASE CallbackReturns(t)
    BY <2>8 DEF CallbackReturns, Goto, SetOutcome, SettleFates, syncVars,
         queueVars, constVars
  <2>9. CASE CallbackPanics(t)
    BY <2>9 DEF CallbackPanics, Goto, SettleFates, syncVars, queueVars,
         constVars
  <2>10. QED BY <1>3, <2>1, <2>2, <2>3, <2>4, <2>5, <2>6, <2>7, <2>8, <2>9 DEF
       HandleStep
<1>4. ASSUME NEW t \in Threads, EnvStep(t) PROVE PoisonInv'
  <2>1. CASE PushAborts(t)
    BY <2>1 DEF PushAborts, syncVars, queueVars, callVars
  <2>2. CASE SpuriousWakeup(t)
    BY <2>2 DEF SpuriousWakeup, queueVars, callVars, constVars
  <2>3. CASE KeepWaiting(t)
    BY <2>3 DEF KeepWaiting, WaitAgain, CanRelock, callVars, constVars
  <2>4. QED BY <1>4, <2>1, <2>2, <2>3 DEF EnvStep
<1>5. CASE ClearMutexPoison
  BY <1>5 DEF ClearMutexPoison, queueVars, callVars, constVars
<1>6. CASE UNCHANGED vars
  BY <1>6 DEF vars
<1>7. QED BY <1>1, <1>2, <1>3, <1>4, <1>5, <1>6 DEF Next, Terminated

\* Without a panic of a caller that holds a guard, nothing is ever poisoned,
\* and a call that unwinds from a callback blocks on the guard it has leaked.
THEOREM OnlyCallersPoison == Spec => []PoisonInv
<1>1. IInv /\ PoisonInv /\ [Next]_vars => PoisonInv'
  BY PoisonStep
<1>2. QED BY <1>1, PoisonInit, Inductive, PTL DEF Spec

-----------------------------------------------------------------------------
\* What the proof of a step has at its disposal, before it and after it.
Inv == IInv /\ FateInv

\* The holder is whoever has the front.
LEMMA HolderIs ==
    ASSUME FrontExclusive, NEW t \in Threads, HasFront(t)
    PROVE  holder = t
BY DEF holder, FrontExclusive

LEMMA HolderIsNext ==
    ASSUME FrontExclusive', NEW t \in Threads, HasFront(t)'
    PROVE  holder' = t
BY DEF holder, FrontExclusive

LEMMA NoHolder ==
    ASSUME \A t \in Threads : ~HasFront(t)
    PROVE  holder = NoThread
BY DEF holder

LEMMA NoHolderNext ==
    ASSUME \A t \in Threads : ~HasFront(t)'
    PROVE  holder' = NoThread
BY DEF holder

\* The holder changes only when somebody gets or loses the front.
LEMMA SameHolder ==
    ASSUME FrontExclusive, FrontExclusive',
           \A t \in Threads : HasFront(t)' <=> HasFront(t)
    PROVE  holder' = holder
<1>1. CASE \E t \in Threads : HasFront(t)
  <2>1. PICK t \in Threads : HasFront(t)
    BY <1>1
  <2>2. HasFront(t)'
    BY <2>1
  <2>3. holder = t /\ holder' = t
    BY <2>1, <2>2, HolderIs, HolderIsNext
  <2>4. QED BY <2>3
<1>2. CASE \A t \in Threads : ~HasFront(t)
  <2>1. \A t \in Threads : ~HasFront(t)'
    BY <1>2
  <2>2. holder = NoThread /\ holder' = NoThread
    BY <1>2, <2>1, NoHolder, NoHolderNext
  <2>3. QED BY <2>2
<1>3. QED BY <1>1, <1>2

\* Where the values that are merged are.
Merged(t) == \/ pc[t] = "waiting" /\ ~value[t]
             \/ outcome[t] \in {"ProcessedElsewhere", "ProcessingPanicked"}

LEMMA SameMerged ==
    ASSUME \A t \in Threads : Merged(t)' <=> Merged(t)
    PROVE  merged' = merged
BY DEF merged, Merged

-----------------------------------------------------------------------------
\* Locking, unwinding, the callback and the waits themselves are not steps of
\* the line.
LEMMA QuietRefines ==
    ASSUME Inv, Inv', QuietStep
    PROVE  UNCHANGED <<holder, line, merged>>
<1> USE DEF Inv, IInv, QueueInv
<1>1. \A t \in Threads : HasFront(t)' <=> HasFront(t)
  BY DEF QuietStep, HasFront, Granted
<1>2. holder' = holder
  BY <1>1, SameHolder
<1>3. line' = line
  <2>1. CASE queue = <<>>
    BY <2>1 DEF QuietStep, line
  <2>2. CASE queue # <<>>
    <3>1. Head(queue) \in Threads
      BY <2>2, HeadTail DEF TypeOK
    <3>2. Granted(Head(queue))' <=> Granted(Head(queue))
      BY <3>1 DEF QuietStep, Granted
    <3>3. QED BY <3>2 DEF QuietStep, line
  <2>3. QED BY <2>1, <2>2
<1>4. \A t \in Threads : Merged(t)' <=> Merged(t)
  BY DEF QuietStep, Merged, FateInv, CallInv
<1>5. merged' = merged
  BY <1>4, SameMerged
<1>6. QED BY <1>2, <1>3, <1>5

\* The fast path.
LEMMA TakeFrontRefines ==
    ASSUME Inv, Inv', NEW t \in Threads, TakeFront(t)
    PROVE  Fifo!TakeFront(t)
<1> USE DEF Inv, IInv, QueueInv, TypeOK
<1>1. /\ pc[t] = "entering" /\ pc' = [pc EXCEPT ![t] = "begin"]
      /\ ~frontLocked
      /\ UNCHANGED <<queue, value, bits, outcome>>
  BY DEF TakeFront, Goto, try_acquire_front_fast
<1>2. \A u \in Threads : ~HasFront(u)
  BY <1>1 DEF FrontExclusive
<1>3. queue = <<>>
  BY <1>2 DEF FrontIsHeld
<1>4. holder = NoThread
  BY <1>2, NoHolder
<1>5. HasFront(t)'
  BY <1>1 DEF HasFront, FrontPcs
<1>6. holder' = t
  BY <1>5, HolderIsNext
<1>7. line = <<>> /\ line' = <<>>
  BY <1>1, <1>3 DEF line
<1>8. \A u \in Threads : Merged(u)' <=> Merged(u)
  BY <1>1 DEF Merged
<1>9. merged' = merged
  BY <1>8, SameMerged
<1>10. QED BY <1>4, <1>6, <1>7, <1>9 DEF Fifo!TakeFront

\* The queue is the line, and the task that was woken if there is one.
LEMMA PushRefines ==
    ASSUME Inv, Inv', NEW t \in Threads, PushAndWait(t)
    PROVE  Fifo!Join(t)
<1> USE NoThreadAssumption DEF Inv, IInv, QueueInv, TypeOK, BitsTypeOK
<1>1. /\ pc[t] = "entering" /\ pc' = [pc EXCEPT ![t] = "waiting"]
      /\ queue' = Append(queue, t)
      /\ value' = [value EXCEPT ![t] = TRUE]
      /\ bits' = [bits EXCEPT ![t] = {}]
      /\ outcome' = outcome /\ frontLocked
  BY DEF PushAndWait, Push, Goto, NewTaskState
<1>2. PICK h \in Threads : HasFront(h)
  BY <1>1 DEF FrontExclusive
<1>3. h # t
  BY <1>1, <1>2 DEF HasFront, Granted, FrontPcs
<1>4. \A u \in Threads : HasFront(u)' <=> HasFront(u)
  BY <1>1 DEF HasFront, Granted, FrontPcs
<1>5. holder = h /\ holder' = h
  BY <1>2, <1>4, HolderIs, HolderIsNext
<1>6. \A i \in 1..Len(queue) : queue[i] # t
  BY <1>1 DEF QueuedTasksAlive
<1>7. ~Fifo!InLine(t)
  <2>1. CASE line = queue
    BY <1>6, <2>1 DEF Fifo!InLine
  <2>2. CASE queue # <<>> /\ line = Tail(queue)
    <3>1. /\ Len(queue) \in Nat \ {0} /\ Len(line) = Len(queue) - 1
          /\ \A i \in 1..Len(line) : line[i] = queue[i + 1]
      BY <2>2, HeadTail
    <3>2. \A i \in 1..Len(line) : i + 1 \in 1..Len(queue)
      BY <3>1
    <3>3. QED BY <1>6, <3>1, <3>2 DEF Fifo!InLine
  <2>3. QED BY <2>1, <2>2 DEF line
<1>8. line' = Append(line, t)
  <2>1. CASE queue = <<>>
    <3>1. queue' # <<>> /\ Head(queue') = t
      BY <1>1, <2>1
    <3>2. ~Granted(t)'
      BY <1>1 DEF Granted
    <3>3. QED BY <1>1, <2>1, <3>1, <3>2 DEF line
  <2>2. CASE queue # <<>>
    <3>1. /\ queue' # <<>> /\ Head(queue') = Head(queue)
          /\ Tail(queue') = Append(Tail(queue), t)
      <4>1. queue \in Seq(Threads) /\ queue' = Append(queue, t)
        BY <1>1
      <4> HIDE DEF TypeOK
      <4>2. queue' # <<>> /\ Head(queue') = Head(queue)
        BY <2>2, <4>1, AppendFacts
      <4>3. Tail(queue') = Append(Tail(queue), t)
        BY <2>2, <4>1, TailOfAppend
      <4>4. QED BY <4>2, <4>3
    <3>2. Head(queue) \in Threads /\ Head(queue) # t
      <4>1. queue \in Seq(Threads)
        OBVIOUS
      <4>2. /\ Head(queue) \in Threads /\ Head(queue) = queue[1]
            /\ 1 \in 1..Len(queue)
        BY <2>2, <4>1, HeadTail
      <4>3. QED BY <1>6, <4>2
    <3>3. Granted(Head(queue)) <=>
            /\ pc'[Head(queue)] = "waiting"
            /\ FRONT_BIT \in bits'[Head(queue)]
      BY <1>1, <3>2 DEF Granted
    <3>4. QED BY <1>1, <2>2, <3>1, <3>3 DEF line, Granted
  <2>3. QED BY <2>1, <2>2
<1>9. \A u \in Threads : Merged(u)' <=> Merged(u)
  BY <1>1 DEF Merged
<1>10. merged' = merged
  BY <1>9, SameMerged
<1>11. QED BY <1>3, <1>5, <1>7, <1>8, <1>10 DEF Fifo!Join

\* The end of a wait: what was granted is taken, and the result tells what
\* the task did.
LEMMA ReachFrontRefines ==
    ASSUME Inv, Inv', NEW t \in Threads, ReachFront(t)
    PROVE  UNCHANGED <<holder, line, merged>>
<1> USE NoThreadAssumption DEF Inv, IInv, QueueInv, TypeOK, BitsTypeOK
<1>1. /\ pc[t] = "waiting" /\ pc' = [pc EXCEPT ![t] = "atFront"]
      /\ FRONT_BIT \in bits[t] /\ bits' = [bits EXCEPT ![t] = {}]
      /\ queue' = Tail(queue)
      /\ value' = [value EXCEPT ![t] = FALSE]
      /\ outcome' = [outcome EXCEPT ![t] = WaitResult(t)]
  BY DEF ReachFront, Goto, LeaveWait, SetOutcome, NewTaskState
<1>2. \A u \in Threads : HasFront(u)' <=> HasFront(u)
  BY <1>1 DEF HasFront, Granted, FrontPcs
<1>3. holder' = holder
  BY <1>2, SameHolder
<1>4. queue # <<>> /\ t = Head(queue) /\ Granted(t)
  BY <1>1 DEF WokenTaskIsHead, Granted
<1>5. line = queue'
  BY <1>1, <1>4 DEF line
<1>6. \A u \in Threads : ~Granted(u)'
  BY <1>1 DEF WokenTaskIsHead, Granted
<1>7. line' = queue'
  <2>1. CASE queue' = <<>>
    BY <2>1 DEF line
  <2>2. CASE queue' # <<>>
    <3>1. queue' \in Seq(Threads)
      OBVIOUS
    <3>2. Head(queue') \in Threads
      BY <2>2, <3>1, HeadTail
    <3>3. QED BY <1>6, <3>2 DEF line, Granted
  <2>3. QED BY <2>1, <2>2
<1>8. \A u \in Threads : Merged(u)' <=> Merged(u)
  <2>1. outcome[t] = "none"
    BY <1>1 DEF FateInv, CallInv
  <2>2. QED BY <1>1, <2>1 DEF Merged, WaitResult
<1>9. merged' = merged
  BY <1>8, SameMerged
<1>10. QED BY <1>3, <1>5, <1>7, <1>9

\* A pop merges the first value in line that is left.
LEMMA PopRefines ==
    ASSUME Inv, Inv', NEW t \in Threads, Pop(t)
    PROVE  Fifo!Merge
<1> USE NoThreadAssumption DEF Inv, IInv, QueueInv, TypeOK
<1> DEFINE i == nextIdx[t] + 1
<1>1. /\ i \in 1..Len(queue) /\ queue[i] \in Threads /\ value[queue[i]]
      /\ value' = [value EXCEPT ![queue[i]] = FALSE]
      /\ UNCHANGED <<pc, queue>>
  BY PopSucceeds DEF ValueInv
<1>2. /\ pc[t] = "processing" /\ UNCHANGED <<bits, outcome>>
  BY DEF Pop
<1>3. HasFront(t) /\ \A u \in Threads : HasFront(u) => u = t
  BY <1>2 DEF HasFront, FrontPcs, FrontExclusive
<1>4. \A u \in Threads : HasFront(u)' <=> HasFront(u)
  BY <1>1, <1>2 DEF HasFront, Granted
<1>5. holder = t /\ holder' = holder
  BY <1>3, <1>4, HolderIs, SameHolder
<1>6. line = queue /\ line' = queue
  <2>1. \A u \in Threads : ~Granted(u) /\ ~Granted(u)'
    BY <1>1, <1>2, <1>3 DEF HasFront, Granted
  <2>2. queue # <<>> => Head(queue) \in Threads
    BY HeadTail
  <2>3. QED BY <1>1, <2>1, <2>2 DEF line, Granted
<1>7. t \notin merged
  BY <1>2 DEF merged, FateInv, CallInv
<1>8. queue[i] \notin merged
  BY <1>1 DEF merged, FateInv, CallInv
<1>9. \A j \in 1..(i - 1) : queue[j] \in merged
  <2>1. ASSUME NEW j \in 1..(i - 1) PROVE queue[j] \in merged
    <3>1. nextIdx[t] \in Nat /\ Len(queue) \in Nat
      OBVIOUS
    <3>2. j \in 1..Len(queue) /\ ~(j > nextIdx[t])
      BY <1>1, <2>1, <3>1, UpTo
    <3>3. queue[j] \in Threads
      BY <3>2
    <3>4. pc[queue[j]] = "waiting"
      BY <3>2, <3>3 DEF QueuedTasksAlive
    <3>5. ~value[queue[j]]
      BY <1>2, <3>2 DEF ValueInv, HandleAtFirstUnprocessed, HandlePcs
    <3>6. QED BY <3>3, <3>4, <3>5 DEF merged
  <2>2. QED BY <2>1
<1>10. merged' = merged \cup {queue[i]}
  <2>1. pc[queue[i]] = "waiting"
    BY <1>1 DEF QueuedTasksAlive
  <2>2. \A u \in Threads : Merged(u)' <=> Merged(u) \/ u = queue[i]
    BY <1>1, <1>2, <2>1 DEF Merged
  <2>3. queue[i] \in Threads
    BY <1>1
  <2> HIDE DEF i
  <2>4. \A u : u \in merged' <=> u \in merged \cup {queue[i]}
    BY <2>2, <2>3 DEF merged, Merged
  <2>5. QED BY <2>4
<1> HIDE DEF i
<1>11. QED BY <1>1, <1>5, <1>6, <1>7, <1>8, <1>9, <1>10 DEF Fifo!Merge

\* A hand-over, after a return or a panic.
LEMMA PassRefines ==
    ASSUME Inv, Inv', NEW t \in Threads, pc[t] \in {"returned", "caught"},
           PassFront \/ PassFrontPanicking, NEW to \in {"idle", "guarded"},
           pc' = [pc EXCEPT ![t] = to],
           outcome' = [outcome EXCEPT ![t] = "none"],
           UNCHANGED <<queue, value>>
    PROVE  Fifo!Pass
<1> USE NoThreadAssumption DEF Inv, IInv, QueueInv, TypeOK, BitsTypeOK
<1>1. HasFront(t) /\ \A u \in Threads : HasFront(u) => u = t
  BY DEF HasFront, FrontPcs, FrontExclusive
<1>2. holder = t
  BY <1>1, HolderIs
<1>3. \A u \in Threads : ~Granted(u)
  BY <1>1 DEF HasFront, Granted
<1>4. queue # <<>> => Head(queue) \in Threads
  BY HeadTail
<1>5. line = queue
  BY <1>3, <1>4 DEF line
<1>6. merged' = merged \ {t}
  <2>1. \A u \in Threads : Merged(u)' <=> Merged(u) /\ u # t
    BY DEF Merged
  <2>2. QED BY <2>1 DEF merged, Merged
<1>7. CASE queue = <<>>
  <2>1. UNCHANGED bits
    BY <1>7 DEF PassFront, PassFrontPanicking
  <2>2. \A u \in Threads : ~HasFront(u)'
    BY <2>1, <1>1 DEF HasFront, FrontPcs, Granted
  <2>3. holder' = NoThread /\ line' = queue
    BY <1>7, <2>2, NoHolderNext DEF line
  <2>4. QED BY <1>2, <1>5, <1>6, <1>7, <2>3 DEF Fifo!Pass
<1>8. CASE queue # <<>>
  <2> DEFINE h == Head(queue)
  <2>1. PICK new \in {{FRONT_BIT}, {PANIC_BIT, FRONT_BIT}} :
            bits' = [bits EXCEPT ![h] = @ \cup new]
    BY <1>8 DEF PassFront, PassFrontPanicking, wake_front_task,
       wake_front_task_panicking, OrBitsAndNotify
  <2>2. h \in Threads /\ pc[h] = "waiting" /\ h # t
    <3>1. h \in Threads /\ h = queue[1] /\ 1 \in 1..Len(queue)
      BY <1>8, HeadTail
    <3>2. pc[h] = "waiting"
      BY <3>1 DEF QueuedTasksAlive
    <3>3. QED BY <3>1, <3>2
  <2>3. pc'[h] = "waiting" /\ FRONT_BIT \in bits'[h]
    BY <2>1, <2>2
  <2>4. HasFront(h)'
    BY <2>3 DEF HasFront, Granted
  <2>5. holder' = h
    BY <2>2, <2>4, HolderIsNext
  <2>6. line' = Tail(queue)
    BY <1>8, <2>3 DEF line, Granted
  <2>7. QED BY <1>2, <1>5, <1>6, <1>8, <2>5, <2>6 DEF Fifo!Pass
<1>9. QED BY <1>7, <1>8

-----------------------------------------------------------------------------
\* Every step is one of the line, or none.
LEMMA StepRefines ==
    ASSUME Inv, Inv', [Next]_vars
    PROVE  [Fifo!Next]_(Fifo!fifoVars)
<1>1. StepKinds
  BY StepCases DEF Inv, IInv
<1>2. CASE QuietStep
  BY <1>2, QuietRefines DEF Fifo!fifoVars
<1>3. ASSUME NEW t \in Threads, TakeFront(t) PROVE Fifo!Next
  BY <1>3, TakeFrontRefines DEF Fifo!Next
<1>4. ASSUME NEW t \in Threads, PushAndWait(t) PROVE Fifo!Next
  BY <1>4, PushRefines DEF Fifo!Next
<1>5. ASSUME NEW t \in Threads, ReachFront(t)
      PROVE  UNCHANGED Fifo!fifoVars
  BY <1>5, ReachFrontRefines DEF Fifo!fifoVars
<1>6. ASSUME NEW t \in Threads, Pop(t) PROVE Fifo!Next
  BY <1>6, PopRefines DEF Fifo!Next
<1>7. ASSUME NEW t \in Threads, HandOff(t) PROVE Fifo!Next
  <2>1. PICK to \in {"idle", "guarded"} : pc' = [pc EXCEPT ![t] = to]
    BY <1>7 DEF HandOff, Goto
  <2>2. /\ pc[t] = "returned" /\ PassFront
        /\ outcome' = [outcome EXCEPT ![t] = "none"]
        /\ UNCHANGED <<queue, value>>
    BY <1>7 DEF HandOff, Goto, CallEnds
  <2>3. QED BY <2>1, <2>2, PassRefines DEF Fifo!Next
<1>8. ASSUME NEW t \in Threads, CatchUnwind(t) PROVE Fifo!Next
  <2>1. /\ pc[t] = "caught" /\ PassFrontPanicking
        /\ pc' = [pc EXCEPT ![t] = "idle"]
        /\ outcome' = [outcome EXCEPT ![t] = "none"]
        /\ UNCHANGED <<queue, value>>
    BY <1>8 DEF CatchUnwind, Goto, CallEnds
  <2>2. QED BY <2>1, PassRefines DEF Fifo!Next
<1>9. QED BY <1>1, <1>2, <1>3, <1>4, <1>5, <1>6, <1>7, <1>8 DEF StepKinds

\* The queue serves its callers first come, first served, and merges their
\* values in order, for every schedule, panic and spurious wakeup.
THEOREM QueueIsFifo == Spec => ImplementsFifoFront
<1>1. Init => Fifo!Init
  <2>1. ASSUME Init PROVE Fifo!Init
    <3>1. \A t \in Threads : ~HasFront(t)
      BY <2>1 DEF Init, BitsInit, HasFront, Granted, FrontPcs
    <3>2. holder = NoThread
      BY <3>1, NoHolder
    <3>3. line = <<>> /\ merged = {}
      BY <2>1 DEF Init, line, merged
    <3>4. QED BY <3>2, <3>3 DEF Fifo!Init
  <2>2. QED BY <2>1
<1>2. Inv /\ Inv' /\ [Next]_vars => [Fifo!Next]_(Fifo!fifoVars)
  BY StepRefines
<1>3. IInv /\ FateInv => Inv
  BY DEF Inv
<1>4. QED
  BY <1>1, <1>2, <1>3, Inductive, FateInvariant, PTL
     DEF Spec, ImplementsFifoFront, Fifo!Spec
==============================================================================
