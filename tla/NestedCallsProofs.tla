--------------------------- MODULE NestedCallsProofs ---------------------------
(***************************************************************************)
(* Two queues on one mutex, for any number of threads, every PanicOptions  *)
(* and all faults: each is a ContentionQueue, with the other one among its *)
(* callers.  So both keep their lines, and what is proved of one queue.    *)
(*                                                                         *)
(* PA and PB are A and B of NestedCalls, with what QueueViewProofs says of *)
(* them.                                                                   *)
(***************************************************************************)
EXTENDS NestedCalls, TLAPS

PA == INSTANCE QueueViewProofs WITH
    bits <- bitsA, options <- optionsA, frontLocked <- frontLockedA,
    queuePoisoned <- queuePoisonedA, queue <- queueA, value <- valueA,
    pc <- pcA, entry <- entryA, outcome <- outcomeA, nextIdx <- nextIdxA,
    aborted <- abortedA, calls <- callsA, fate <- fateA

PB == INSTANCE QueueViewProofs WITH
    bits <- bitsB, options <- optionsB, frontLocked <- frontLockedB,
    queuePoisoned <- queuePoisonedB, queue <- queueB, value <- valueB,
    pc <- pcB, entry <- entryB, outcome <- outcomeB, nextIdx <- nextIdxB,
    aborted <- abortedB, calls <- callsB, fate <- fateB

\* Where the innermost call of a thread is, and which one has the mutex.
NestInv ==
    \A t \in Threads :
        /\ pcB[t] # "idle" => pcA[t] \in {"idle", "unlocked"}
        /\ owner = t => \/ pcA[t] \notin {"idle", "unlocked"}
                        \/ pcB[t] \notin {"idle", "unlocked"}

NInv == PA!ViewInv /\ PB!ViewInv /\ NestInv

-----------------------------------------------------------------------------
\* A and PA, and B and PB, are the same instance of QueueView, with and without
\* what is proved of it.
LEMMA SameA ==
    /\ A!Init <=> PA!Init
    /\ \A t \in Threads : A!QueueStep(t) <=> PA!QueueStep(t)
    /\ A!ClearMutexPoison <=> PA!ClearMutexPoison
<1>1. A!Init <=> PA!Init
  BY DEF A!SyncInit, A!BitsInit, A!Init, PA!SyncInit, PA!BitsInit, PA!Init
<1>2. A!ClearMutexPoison <=> PA!ClearMutexPoison
  BY DEF A!queueVars, A!callVars, A!constVars, A!ClearMutexPoison,
     PA!queueVars, PA!callVars, PA!constVars, PA!ClearMutexPoison
<1>3. ASSUME NEW t \in Threads PROVE A!QueueStep(t) <=> PA!QueueStep(t)
  <2>1. A!UserStep(t) <=> PA!UserStep(t)
    BY DEF A!syncVars, A!Lock, A!DropGuard, A!DropGuardUnwinding, A!queueVars,
       A!callVars, A!constVars, A!Goto, A!SpendCall, A!UserLock, A!UserUnlock,
       A!UserPanic, A!ClosurePoisonsMutex, A!ClearQueuePoison, A!Enter,
       A!process, A!lock_and_process, A!LockIsPoisoned, A!UserStep,
       PA!syncVars, PA!Lock, PA!DropGuard, PA!DropGuardUnwinding, PA!queueVars,
       PA!callVars, PA!constVars, PA!Goto, PA!SpendCall, PA!UserLock,
       PA!UserUnlock, PA!UserPanic, PA!ClosurePoisonsMutex,
       PA!ClearQueuePoison, PA!Enter, PA!process, PA!lock_and_process,
       PA!LockIsPoisoned, PA!UserStep
  <2>2. A!CallStep(t) <=> PA!CallStep(t)
    BY DEF A!syncVars, A!DropGuardUnwinding, A!UnlockAndPark, A!NotifyOne,
       A!CanRelock, A!FRONT_BIT, A!PANIC_BIT, A!NewTaskState,
       A!OrBitsAndNotify, A!wake_front_task, A!wake_front_task_panicking,
       A!LeaveWait, A!queueVars, A!constVars, A!Goto, A!SetOutcome, A!SetFate,
       A!NewHandle, A!try_acquire_front_fast, A!TakeFront, A!Push,
       A!PushAndWait, A!WaitResult, A!ReachFront, A!QueuePoisonPanic,
       A!AfterWait, A!TakeOwnValue, A!ReturnUnprocessed, A!MutexPoisonPanic,
       A!StartCallback, A!PassFront, A!PassFrontPanicking, A!CallEnds,
       A!HandOff, A!CatchUnwind, A!CallStep, PA!syncVars,
       PA!DropGuardUnwinding, PA!UnlockAndPark, PA!NotifyOne, PA!CanRelock,
       PA!FRONT_BIT, PA!PANIC_BIT, PA!NewTaskState, PA!OrBitsAndNotify,
       PA!wake_front_task, PA!wake_front_task_panicking, PA!LeaveWait,
       PA!queueVars, PA!constVars, PA!Goto, PA!SetOutcome, PA!SetFate,
       PA!NewHandle, PA!try_acquire_front_fast, PA!TakeFront, PA!Push,
       PA!PushAndWait, PA!WaitResult, PA!ReachFront, PA!QueuePoisonPanic,
       PA!AfterWait, PA!TakeOwnValue, PA!ReturnUnprocessed,
       PA!MutexPoisonPanic, PA!StartCallback, PA!PassFront,
       PA!PassFrontPanicking, PA!CallEnds, PA!HandOff, PA!CatchUnwind,
       PA!CallStep
  <2>3. A!HandleStep(t) <=> PA!HandleStep(t)
    BY DEF A!syncVars, A!Lock, A!DropGuard, A!queueVars, A!callVars,
       A!constVars, A!Goto, A!SetOutcome, A!SetFate, A!SettleFates, A!Pop,
       A!HandleClearsPoison, A!Unlocked, A!ClosureReturns, A!ClosurePanics,
       A!RelockAndResume, A!RelockAndUnwind, A!CallbackReturns,
       A!CallbackPanics, A!HandleStep, PA!syncVars, PA!Lock, PA!DropGuard,
       PA!queueVars, PA!callVars, PA!constVars, PA!Goto, PA!SetOutcome,
       PA!SetFate, PA!SettleFates, PA!Pop, PA!HandleClearsPoison, PA!Unlocked,
       PA!ClosureReturns, PA!ClosurePanics, PA!RelockAndResume,
       PA!RelockAndUnwind, PA!CallbackReturns, PA!CallbackPanics, PA!HandleStep
  <2>4. A!EnvStep(t) <=> PA!EnvStep(t)
    BY DEF A!syncVars, A!CanRelock, A!FRONT_BIT, A!WaitAgain, A!queueVars,
       A!callVars, A!constVars, A!SpuriousWakeup, A!PushAborts, A!KeepWaiting,
       A!EnvStep, PA!syncVars, PA!CanRelock, PA!FRONT_BIT, PA!WaitAgain,
       PA!queueVars, PA!callVars, PA!constVars, PA!SpuriousWakeup,
       PA!PushAborts, PA!KeepWaiting, PA!EnvStep
  <2>5. A!ClosurePoisonsMutex(t) <=> PA!ClosurePoisonsMutex(t)
    BY DEF A!DropGuardUnwinding, A!queueVars, A!callVars, A!constVars,
       A!ClosurePoisonsMutex, PA!DropGuardUnwinding, PA!queueVars, PA!callVars,
       PA!constVars, PA!ClosurePoisonsMutex
  <2>6. QED BY <2>1, <2>2, <2>3, <2>4, <2>5 DEF A!QueueStep, PA!QueueStep
<1>4. QED BY <1>1, <1>2, <1>3

LEMMA SameSeenA ==
    /\ A!Seen!Init <=> PA!Seen!Init
    /\ [A!Seen!Next]_(A!Seen!vars) <=> [PA!Seen!Next]_(PA!Seen!vars)
BY DEF A!Seen!syncVars, A!Seen!SyncInit, A!Seen!Lock, A!Seen!DropGuard,
   A!Seen!DropGuardUnwinding, A!Seen!UnlockAndPark, A!Seen!NotifyOne,
   A!Seen!CanRelock, A!Seen!FRONT_BIT, A!Seen!PANIC_BIT, A!Seen!BitsInit,
   A!Seen!NewTaskState, A!Seen!OrBitsAndNotify, A!Seen!wake_front_task,
   A!Seen!wake_front_task_panicking, A!Seen!WaitAgain, A!Seen!LeaveWait,
   A!Seen!queueVars, A!Seen!callVars, A!Seen!constVars, A!Seen!vars,
   A!Seen!Init, A!Seen!Goto, A!Seen!SetOutcome, A!Seen!SetFate,
   A!Seen!SettleFates, A!Seen!NewHandle, A!Seen!Pop, A!Seen!HandleClearsPoison,
   A!Seen!Unlocked, A!Seen!ClosureReturns, A!Seen!ClosurePanics,
   A!Seen!RelockAndResume, A!Seen!RelockAndUnwind, A!Seen!CallbackReturns,
   A!Seen!CallbackPanics, A!Seen!HandleStep, A!Seen!SpendCall, A!Seen!UserLock,
   A!Seen!UserUnlock, A!Seen!UserPanic, A!Seen!ClosurePoisonsMutex,
   A!Seen!ClearMutexPoison, A!Seen!SpuriousWakeup, A!Seen!ClearQueuePoison,
   A!Seen!Enter, A!Seen!process, A!Seen!lock_and_process,
   A!Seen!LockIsPoisoned, A!Seen!try_acquire_front_fast, A!Seen!TakeFront,
   A!Seen!Push, A!Seen!PushAndWait, A!Seen!PushAborts, A!Seen!KeepWaiting,
   A!Seen!WaitResult, A!Seen!ReachFront, A!Seen!QueuePoisonPanic,
   A!Seen!AfterWait, A!Seen!TakeOwnValue, A!Seen!ReturnUnprocessed,
   A!Seen!MutexPoisonPanic, A!Seen!StartCallback, A!Seen!PassFront,
   A!Seen!PassFrontPanicking, A!Seen!CallEnds, A!Seen!HandOff,
   A!Seen!CatchUnwind, A!Seen!Terminated, A!Seen!CallStep, A!Seen!UserStep,
   A!Seen!EnvStep, A!Seen!Next, A!pcSeen, A!ownerSeen, A!parkedSeen,
   PA!Seen!syncVars, PA!Seen!SyncInit, PA!Seen!Lock, PA!Seen!DropGuard,
   PA!Seen!DropGuardUnwinding, PA!Seen!UnlockAndPark, PA!Seen!NotifyOne,
   PA!Seen!CanRelock, PA!Seen!FRONT_BIT, PA!Seen!PANIC_BIT, PA!Seen!BitsInit,
   PA!Seen!NewTaskState, PA!Seen!OrBitsAndNotify, PA!Seen!wake_front_task,
   PA!Seen!wake_front_task_panicking, PA!Seen!WaitAgain, PA!Seen!LeaveWait,
   PA!Seen!queueVars, PA!Seen!callVars, PA!Seen!constVars, PA!Seen!vars,
   PA!Seen!Init, PA!Seen!Goto, PA!Seen!SetOutcome, PA!Seen!SetFate,
   PA!Seen!SettleFates, PA!Seen!NewHandle, PA!Seen!Pop,
   PA!Seen!HandleClearsPoison, PA!Seen!Unlocked, PA!Seen!ClosureReturns,
   PA!Seen!ClosurePanics, PA!Seen!RelockAndResume, PA!Seen!RelockAndUnwind,
   PA!Seen!CallbackReturns, PA!Seen!CallbackPanics, PA!Seen!HandleStep,
   PA!Seen!SpendCall, PA!Seen!UserLock, PA!Seen!UserUnlock, PA!Seen!UserPanic,
   PA!Seen!ClosurePoisonsMutex, PA!Seen!ClearMutexPoison,
   PA!Seen!SpuriousWakeup, PA!Seen!ClearQueuePoison, PA!Seen!Enter,
   PA!Seen!process, PA!Seen!lock_and_process, PA!Seen!LockIsPoisoned,
   PA!Seen!try_acquire_front_fast, PA!Seen!TakeFront, PA!Seen!Push,
   PA!Seen!PushAndWait, PA!Seen!PushAborts, PA!Seen!KeepWaiting,
   PA!Seen!WaitResult, PA!Seen!ReachFront, PA!Seen!QueuePoisonPanic,
   PA!Seen!AfterWait, PA!Seen!TakeOwnValue, PA!Seen!ReturnUnprocessed,
   PA!Seen!MutexPoisonPanic, PA!Seen!StartCallback, PA!Seen!PassFront,
   PA!Seen!PassFrontPanicking, PA!Seen!CallEnds, PA!Seen!HandOff,
   PA!Seen!CatchUnwind, PA!Seen!Terminated, PA!Seen!CallStep, PA!Seen!UserStep,
   PA!Seen!EnvStep, PA!Seen!Next, PA!pcSeen, PA!ownerSeen, PA!parkedSeen

LEMMA SameB ==
    /\ B!Init <=> PB!Init
    /\ \A t \in Threads : B!QueueStep(t) <=> PB!QueueStep(t)
    /\ B!ClearMutexPoison <=> PB!ClearMutexPoison
<1>1. B!Init <=> PB!Init
  BY DEF B!SyncInit, B!BitsInit, B!Init, PB!SyncInit, PB!BitsInit, PB!Init
<1>2. B!ClearMutexPoison <=> PB!ClearMutexPoison
  BY DEF B!queueVars, B!callVars, B!constVars, B!ClearMutexPoison,
     PB!queueVars, PB!callVars, PB!constVars, PB!ClearMutexPoison
<1>3. ASSUME NEW t \in Threads PROVE B!QueueStep(t) <=> PB!QueueStep(t)
  <2>1. B!UserStep(t) <=> PB!UserStep(t)
    BY DEF B!syncVars, B!Lock, B!DropGuard, B!DropGuardUnwinding, B!queueVars,
       B!callVars, B!constVars, B!Goto, B!SpendCall, B!UserLock, B!UserUnlock,
       B!UserPanic, B!ClosurePoisonsMutex, B!ClearQueuePoison, B!Enter,
       B!process, B!lock_and_process, B!LockIsPoisoned, B!UserStep,
       PB!syncVars, PB!Lock, PB!DropGuard, PB!DropGuardUnwinding, PB!queueVars,
       PB!callVars, PB!constVars, PB!Goto, PB!SpendCall, PB!UserLock,
       PB!UserUnlock, PB!UserPanic, PB!ClosurePoisonsMutex,
       PB!ClearQueuePoison, PB!Enter, PB!process, PB!lock_and_process,
       PB!LockIsPoisoned, PB!UserStep
  <2>2. B!CallStep(t) <=> PB!CallStep(t)
    BY DEF B!syncVars, B!DropGuardUnwinding, B!UnlockAndPark, B!NotifyOne,
       B!CanRelock, B!FRONT_BIT, B!PANIC_BIT, B!NewTaskState,
       B!OrBitsAndNotify, B!wake_front_task, B!wake_front_task_panicking,
       B!LeaveWait, B!queueVars, B!constVars, B!Goto, B!SetOutcome, B!SetFate,
       B!NewHandle, B!try_acquire_front_fast, B!TakeFront, B!Push,
       B!PushAndWait, B!WaitResult, B!ReachFront, B!QueuePoisonPanic,
       B!AfterWait, B!TakeOwnValue, B!ReturnUnprocessed, B!MutexPoisonPanic,
       B!StartCallback, B!PassFront, B!PassFrontPanicking, B!CallEnds,
       B!HandOff, B!CatchUnwind, B!CallStep, PB!syncVars,
       PB!DropGuardUnwinding, PB!UnlockAndPark, PB!NotifyOne, PB!CanRelock,
       PB!FRONT_BIT, PB!PANIC_BIT, PB!NewTaskState, PB!OrBitsAndNotify,
       PB!wake_front_task, PB!wake_front_task_panicking, PB!LeaveWait,
       PB!queueVars, PB!constVars, PB!Goto, PB!SetOutcome, PB!SetFate,
       PB!NewHandle, PB!try_acquire_front_fast, PB!TakeFront, PB!Push,
       PB!PushAndWait, PB!WaitResult, PB!ReachFront, PB!QueuePoisonPanic,
       PB!AfterWait, PB!TakeOwnValue, PB!ReturnUnprocessed,
       PB!MutexPoisonPanic, PB!StartCallback, PB!PassFront,
       PB!PassFrontPanicking, PB!CallEnds, PB!HandOff, PB!CatchUnwind,
       PB!CallStep
  <2>3. B!HandleStep(t) <=> PB!HandleStep(t)
    BY DEF B!syncVars, B!Lock, B!DropGuard, B!queueVars, B!callVars,
       B!constVars, B!Goto, B!SetOutcome, B!SetFate, B!SettleFates, B!Pop,
       B!HandleClearsPoison, B!Unlocked, B!ClosureReturns, B!ClosurePanics,
       B!RelockAndResume, B!RelockAndUnwind, B!CallbackReturns,
       B!CallbackPanics, B!HandleStep, PB!syncVars, PB!Lock, PB!DropGuard,
       PB!queueVars, PB!callVars, PB!constVars, PB!Goto, PB!SetOutcome,
       PB!SetFate, PB!SettleFates, PB!Pop, PB!HandleClearsPoison, PB!Unlocked,
       PB!ClosureReturns, PB!ClosurePanics, PB!RelockAndResume,
       PB!RelockAndUnwind, PB!CallbackReturns, PB!CallbackPanics, PB!HandleStep
  <2>4. B!EnvStep(t) <=> PB!EnvStep(t)
    BY DEF B!syncVars, B!CanRelock, B!FRONT_BIT, B!WaitAgain, B!queueVars,
       B!callVars, B!constVars, B!SpuriousWakeup, B!PushAborts, B!KeepWaiting,
       B!EnvStep, PB!syncVars, PB!CanRelock, PB!FRONT_BIT, PB!WaitAgain,
       PB!queueVars, PB!callVars, PB!constVars, PB!SpuriousWakeup,
       PB!PushAborts, PB!KeepWaiting, PB!EnvStep
  <2>5. B!ClosurePoisonsMutex(t) <=> PB!ClosurePoisonsMutex(t)
    BY DEF B!DropGuardUnwinding, B!queueVars, B!callVars, B!constVars,
       B!ClosurePoisonsMutex, PB!DropGuardUnwinding, PB!queueVars, PB!callVars,
       PB!constVars, PB!ClosurePoisonsMutex
  <2>6. QED BY <2>1, <2>2, <2>3, <2>4, <2>5 DEF B!QueueStep, PB!QueueStep
<1>4. QED BY <1>1, <1>2, <1>3

LEMMA SameSeenB ==
    /\ B!Seen!Init <=> PB!Seen!Init
    /\ [B!Seen!Next]_(B!Seen!vars) <=> [PB!Seen!Next]_(PB!Seen!vars)
BY DEF B!Seen!syncVars, B!Seen!SyncInit, B!Seen!Lock, B!Seen!DropGuard,
   B!Seen!DropGuardUnwinding, B!Seen!UnlockAndPark, B!Seen!NotifyOne,
   B!Seen!CanRelock, B!Seen!FRONT_BIT, B!Seen!PANIC_BIT, B!Seen!BitsInit,
   B!Seen!NewTaskState, B!Seen!OrBitsAndNotify, B!Seen!wake_front_task,
   B!Seen!wake_front_task_panicking, B!Seen!WaitAgain, B!Seen!LeaveWait,
   B!Seen!queueVars, B!Seen!callVars, B!Seen!constVars, B!Seen!vars,
   B!Seen!Init, B!Seen!Goto, B!Seen!SetOutcome, B!Seen!SetFate,
   B!Seen!SettleFates, B!Seen!NewHandle, B!Seen!Pop, B!Seen!HandleClearsPoison,
   B!Seen!Unlocked, B!Seen!ClosureReturns, B!Seen!ClosurePanics,
   B!Seen!RelockAndResume, B!Seen!RelockAndUnwind, B!Seen!CallbackReturns,
   B!Seen!CallbackPanics, B!Seen!HandleStep, B!Seen!SpendCall, B!Seen!UserLock,
   B!Seen!UserUnlock, B!Seen!UserPanic, B!Seen!ClosurePoisonsMutex,
   B!Seen!ClearMutexPoison, B!Seen!SpuriousWakeup, B!Seen!ClearQueuePoison,
   B!Seen!Enter, B!Seen!process, B!Seen!lock_and_process,
   B!Seen!LockIsPoisoned, B!Seen!try_acquire_front_fast, B!Seen!TakeFront,
   B!Seen!Push, B!Seen!PushAndWait, B!Seen!PushAborts, B!Seen!KeepWaiting,
   B!Seen!WaitResult, B!Seen!ReachFront, B!Seen!QueuePoisonPanic,
   B!Seen!AfterWait, B!Seen!TakeOwnValue, B!Seen!ReturnUnprocessed,
   B!Seen!MutexPoisonPanic, B!Seen!StartCallback, B!Seen!PassFront,
   B!Seen!PassFrontPanicking, B!Seen!CallEnds, B!Seen!HandOff,
   B!Seen!CatchUnwind, B!Seen!Terminated, B!Seen!CallStep, B!Seen!UserStep,
   B!Seen!EnvStep, B!Seen!Next, B!pcSeen, B!ownerSeen, B!parkedSeen,
   PB!Seen!syncVars, PB!Seen!SyncInit, PB!Seen!Lock, PB!Seen!DropGuard,
   PB!Seen!DropGuardUnwinding, PB!Seen!UnlockAndPark, PB!Seen!NotifyOne,
   PB!Seen!CanRelock, PB!Seen!FRONT_BIT, PB!Seen!PANIC_BIT, PB!Seen!BitsInit,
   PB!Seen!NewTaskState, PB!Seen!OrBitsAndNotify, PB!Seen!wake_front_task,
   PB!Seen!wake_front_task_panicking, PB!Seen!WaitAgain, PB!Seen!LeaveWait,
   PB!Seen!queueVars, PB!Seen!callVars, PB!Seen!constVars, PB!Seen!vars,
   PB!Seen!Init, PB!Seen!Goto, PB!Seen!SetOutcome, PB!Seen!SetFate,
   PB!Seen!SettleFates, PB!Seen!NewHandle, PB!Seen!Pop,
   PB!Seen!HandleClearsPoison, PB!Seen!Unlocked, PB!Seen!ClosureReturns,
   PB!Seen!ClosurePanics, PB!Seen!RelockAndResume, PB!Seen!RelockAndUnwind,
   PB!Seen!CallbackReturns, PB!Seen!CallbackPanics, PB!Seen!HandleStep,
   PB!Seen!SpendCall, PB!Seen!UserLock, PB!Seen!UserUnlock, PB!Seen!UserPanic,
   PB!Seen!ClosurePoisonsMutex, PB!Seen!ClearMutexPoison,
   PB!Seen!SpuriousWakeup, PB!Seen!ClearQueuePoison, PB!Seen!Enter,
   PB!Seen!process, PB!Seen!lock_and_process, PB!Seen!LockIsPoisoned,
   PB!Seen!try_acquire_front_fast, PB!Seen!TakeFront, PB!Seen!Push,
   PB!Seen!PushAndWait, PB!Seen!PushAborts, PB!Seen!KeepWaiting,
   PB!Seen!WaitResult, PB!Seen!ReachFront, PB!Seen!QueuePoisonPanic,
   PB!Seen!AfterWait, PB!Seen!TakeOwnValue, PB!Seen!ReturnUnprocessed,
   PB!Seen!MutexPoisonPanic, PB!Seen!StartCallback, PB!Seen!PassFront,
   PB!Seen!PassFrontPanicking, PB!Seen!CallEnds, PB!Seen!HandOff,
   PB!Seen!CatchUnwind, PB!Seen!Terminated, PB!Seen!CallStep, PB!Seen!UserStep,
   PB!Seen!EnvStep, PB!Seen!Next, PB!pcSeen, PB!ownerSeen, PB!parkedSeen

LEMMA ConstantsA == PA!ConstantsAssumption
BY NestedAssumption DEF PA!ConstantsAssumption, PA!PanicOptions, PA!AllFaults

LEMMA ConstantsB == PB!ConstantsAssumption
BY NestedAssumption DEF PB!ConstantsAssumption, PB!PanicOptions, PB!AllFaults

-----------------------------------------------------------------------------
\* How both queues see a step, and that it preserves the invariant.
SeenByBoth ==
    /\ [PA!Seen!Next]_(PA!Seen!vars)
    /\ [PB!Seen!Next]_(PB!Seen!vars)

\* A step in A is one of a thread that is elsewhere for B.
LEMMA StepOnA ==
    ASSUME NInv, NEW t \in Threads, RunsA(t), A!QueueStep(t), UNCHANGED varsB,
           ~abortedA, ~abortedB
    PROVE  SeenByBoth /\ NInv'
<1> USE NoThreadAssumption
<1>1. PA!QueueStep(t)
  BY SameA
<1>2. PA!Inside(t)
  BY DEF NInv, NestInv, PA!Inside, RunsA, MayRunB
<1>3. [PA!Seen!Next]_(PA!Seen!vars) /\ PA!OwnMove(t) /\ PA!ViewInv'
  BY <1>1, <1>2, PA!OwnStep, ConstantsA DEF NInv
<1>4. PB!ElsewhereStep(t)
  <2>1. pcB[t] \in {"idle", "unlocked"}
    BY DEF RunsA, MayRunB
  <2>2. PB!MutexStep(t)
    BY <1>3 DEF PA!OwnMove, PA!MutexStep, PB!MutexStep
  <2>3. \A u \in Threads : pcB[u] = "waiting" => (u \in parked' <=> u \in parked)
    BY <1>3 DEF NInv, NestInv, PA!OwnMove, PA!OnlyOursPark
  <2>4. parked' \subseteq Threads
    BY <1>3 DEF PA!OwnMove, PA!OnlyOursPark
  <2>5. QED
    BY <2>1, <2>2, <2>3, <2>4
       DEF PB!ElsewhereStep, varsB, PB!queueVars, PB!callVars, PB!constVars
<1>5. [PB!Seen!Next]_(PB!Seen!vars) /\ PB!ViewInv'
  BY <1>4, PB!OtherStep, ConstantsB DEF NInv
<1>6. NestInv'
  <2>1. \A u \in Threads : u # t => pcA'[u] = pcA[u] /\ (owner' = u => owner = u)
    BY <1>3 DEF NInv, PA!OwnMove, PA!MutexStep, PA!ViewInv
  <2>2. pcB' = pcB /\ (owner' = t => pcA'[t] \notin {"idle", "unlocked"})
    BY <1>3 DEF PA!OwnMove, PA!Inside, varsB
  <2>3. QED BY <2>1, <2>2 DEF NInv, NestInv, RunsA, MayRunB
<1>7. QED BY <1>3, <1>5, <1>6 DEF NInv, SeenByBoth

\* A step in B is one of a thread that is elsewhere for A.
LEMMA StepOnB ==
    ASSUME NInv, NEW t \in Threads, MayRunB(t), B!QueueStep(t), UNCHANGED varsA,
           ~abortedA, ~abortedB
    PROVE  SeenByBoth /\ NInv'
<1> USE NoThreadAssumption
<1>1. PB!QueueStep(t)
  BY SameB
<1>2. PB!Inside(t)
  BY DEF NInv, NestInv, PB!Inside, RunsA, MayRunB
<1>3. [PB!Seen!Next]_(PB!Seen!vars) /\ PB!OwnMove(t) /\ PB!ViewInv'
  BY <1>1, <1>2, PB!OwnStep, ConstantsB DEF NInv
<1>4. PA!ElsewhereStep(t)
  <2>1. pcA[t] \in {"idle", "unlocked"}
    BY DEF RunsA, MayRunB
  <2>2. PA!MutexStep(t)
    BY <1>3 DEF PB!OwnMove, PB!MutexStep, PA!MutexStep
  <2>3. \A u \in Threads : pcA[u] = "waiting" => (u \in parked' <=> u \in parked)
    BY <1>3 DEF NInv, NestInv, PB!OwnMove, PB!OnlyOursPark
  <2>4. parked' \subseteq Threads
    BY <1>3 DEF PB!OwnMove, PB!OnlyOursPark
  <2>5. QED
    BY <2>1, <2>2, <2>3, <2>4
       DEF PA!ElsewhereStep, varsA, PA!queueVars, PA!callVars, PA!constVars
<1>5. [PA!Seen!Next]_(PA!Seen!vars) /\ PA!ViewInv'
  BY <1>4, PA!OtherStep, ConstantsA DEF NInv
<1>6. NestInv'
  <2>1. \A u \in Threads : u # t => pcB'[u] = pcB[u] /\ (owner' = u => owner = u)
    BY <1>3 DEF NInv, PB!OwnMove, PB!MutexStep, PB!ViewInv
  <2>2. pcA' = pcA /\ (owner' = t => pcB'[t] \notin {"idle", "unlocked"})
    BY <1>3 DEF PB!OwnMove, PB!Inside, varsA
  <2>3. QED BY <2>1, <2>2 DEF NInv, NestInv, RunsA, MayRunB
<1>7. QED BY <1>3, <1>5, <1>6 DEF NInv, SeenByBoth

\* Both see the poison of the mutex cleared.
LEMMA StepClears ==
    ASSUME NInv, A!ClearMutexPoison, UNCHANGED varsB, ~abortedA, ~abortedB
    PROVE  SeenByBoth /\ NInv'
<1> USE NoThreadAssumption
<1>1. PA!ClearMutexPoison
  BY SameA
<1>2. /\ poisoned /\ poisoned' = FALSE
      /\ UNCHANGED <<owner, parked, pcA>>
  BY <1>1 DEF PA!ClearMutexPoison, PA!callVars
<1>3. PB!ClearMutexPoison
  BY <1>2 DEF PB!ClearMutexPoison, varsB, PB!queueVars, PB!callVars, PB!constVars
<1>4. [PA!Seen!Next]_(PA!Seen!vars) /\ PA!ViewInv'
  BY <1>1, PA!ClearStep, ConstantsA DEF NInv
<1>5. [PB!Seen!Next]_(PB!Seen!vars) /\ PB!ViewInv'
  BY <1>3, PB!ClearStep, ConstantsB DEF NInv
<1>6. NestInv'
  BY <1>2 DEF NInv, NestInv, varsB
<1>7. QED BY <1>4, <1>5, <1>6 DEF NInv, SeenByBoth

LEMMA StepStutters ==
    ASSUME NInv, UNCHANGED vars
    PROVE  SeenByBoth /\ NInv'
<1> USE NoThreadAssumption
<1>1. UNCHANGED PA!vars /\ UNCHANGED PB!vars
  BY DEF vars, varsA, varsB, PA!vars, PB!vars
<1>2. UNCHANGED PA!Seen!vars /\ PA!ViewInv'
  BY <1>1, PA!StutterStep, ConstantsA DEF NInv
<1>3. UNCHANGED PB!Seen!vars /\ PB!ViewInv'
  BY <1>1, PB!StutterStep, ConstantsB DEF NInv
<1>4. NestInv'
  BY DEF NInv, NestInv, vars, varsA, varsB
<1>5. QED BY <1>2, <1>3, <1>4 DEF NInv, SeenByBoth

LEMMA NestedStep == NInv /\ [Next]_vars => SeenByBoth /\ NInv'
<1> SUFFICES ASSUME NInv, [Next]_vars PROVE SeenByBoth /\ NInv'
  OBVIOUS
<1>1. ASSUME ~abortedA, ~abortedB, NEW t \in Threads, Step(t)
      PROVE  SeenByBoth /\ NInv'
  BY <1>1, StepOnA, StepOnB DEF Step, OnA, OnB
<1>2. ASSUME ~abortedA, ~abortedB, A!ClearMutexPoison, UNCHANGED varsB
      PROVE  SeenByBoth /\ NInv'
  BY <1>2, StepClears
<1>3. CASE Terminated
  <2>1. UNCHANGED vars
    BY <1>3 DEF Terminated, A!Terminated, B!Terminated, A!vars, B!vars, vars,
       varsA, varsB
  <2>2. QED BY <2>1, StepStutters
<1>4. CASE UNCHANGED vars
  BY <1>4, StepStutters
<1>5. QED BY <1>1, <1>2, <1>3, <1>4 DEF Next

\* Both queues are new, and nobody is in them.
LEMMA NestedInit == Init => NInv /\ PA!Seen!Init /\ PB!Seen!Init
<1> USE NoThreadAssumption
<1> SUFFICES ASSUME Init PROVE NInv /\ PA!Seen!Init /\ PB!Seen!Init
  OBVIOUS
<1>1. PA!Init /\ PB!Init
  BY SameA, SameB DEF Init
<1>2. PA!ViewInv /\ PB!ViewInv
  BY <1>1, PA!InitViewInv, PB!InitViewInv, ConstantsA, ConstantsB
<1>3. PA!Seen!Init /\ PB!Seen!Init
  BY <1>1, PA!InitSeen, PB!InitSeen, ConstantsA, ConstantsB
<1>4. NestInv
  BY <1>1 DEF PA!Init, PB!Init, PA!SyncInit, NestInv
<1>5. QED BY <1>2, <1>3, <1>4 DEF NInv

\* In every reachable state of two queues, each of them satisfies, as it is seen,
\* the inductive invariant of one, and calls are nested in the right order.
THEOREM NestedInvariant == Spec => []NInv
<1>1. Init => NInv
  BY NestedInit
<1>2. NInv /\ [Next]_vars => NInv'
  BY NestedStep
<1>3. QED BY <1>1, <1>2, PTL DEF Spec

-----------------------------------------------------------------------------
LEMMA BothAreSeen == Spec => PA!Seen!Spec /\ PB!Seen!Spec
<1>1. NInv /\ [Next]_vars => /\ [PA!Seen!Next]_(PA!Seen!vars)
                             /\ [PB!Seen!Next]_(PB!Seen!vars)
  BY NestedStep DEF SeenByBoth
<1>2. Init => PA!Seen!Init /\ PB!Seen!Init
  BY NestedInit
<1>3. QED
  BY <1>1, <1>2, NestedInvariant, PTL DEF Spec, PA!Seen!Spec, PB!Seen!Spec

\* To each of two queues on a mutex the other one is a caller like any other,
\* also when one is called from closures of the other.
THEOREM OtherQueueIsOnlyACaller == Spec => OtherQueueIsACaller
<1>1. /\ PA!Seen!Init => A!Seen!Init
      /\ PB!Seen!Init => B!Seen!Init
      /\ [PA!Seen!Next]_(PA!Seen!vars) => [A!Seen!Next]_(A!Seen!vars)
      /\ [PB!Seen!Next]_(PB!Seen!vars) => [B!Seen!Next]_(B!Seen!vars)
  BY SameSeenA, SameSeenB
<1>2. QED
  BY <1>1, BothAreSeen, PTL
     DEF PA!Seen!Spec, PB!Seen!Spec, A!Seen!Spec, B!Seen!Spec,
         OtherQueueIsACaller

-----------------------------------------------------------------------------
\* So what is proved of one queue holds of each of two.  The front of each is
\* exclusive, somebody is on the way to hand it over while tasks wait, unless a
\* callback of this queue leaked the guard (one of the other queue stops both),
\* its tasks are those of calls that wait, only its first one is woken, and its
\* values are where pop expects them.
THEOREM EachQueueIsSafe ==
    Spec => /\ []A!FrontExclusive /\ []B!FrontExclusive
            /\ []A!NoOrphanedWaiter /\ []B!NoOrphanedWaiter
            /\ []A!QueuedTasksAlive /\ []B!QueuedTasksAlive
            /\ []A!WokenTaskIsHead /\ []B!WokenTaskIsHead
            /\ []A!HandleAtFirstUnprocessed /\ []B!HandleAtFirstUnprocessed
            /\ []A!NonesThenSomes /\ []B!NonesThenSomes
<1>1. PA!ViewInv => /\ A!FrontExclusive
                   /\ A!QueuedTasksAlive
                   /\ A!WokenTaskIsHead
                   /\ A!HandleAtFirstUnprocessed
                   /\ A!NonesThenSomes
  <2>1. PA!ViewInv => PA!QueueSafety
    BY PA!SeenSafety, ConstantsA, NoThreadAssumption
  <2>2. PA!FrontExclusive => A!FrontExclusive
    BY DEF PA!FrontExclusive, PA!HasFront, PA!Granted, PA!FrontPcs,
       PA!FRONT_BIT, A!FrontExclusive, A!HasFront, A!Granted, A!FrontPcs,
       A!FRONT_BIT
  <2>4. PA!QueuedTasksAlive => A!QueuedTasksAlive
    BY DEF PA!QueuedTasksAlive, A!QueuedTasksAlive
  <2>5. PA!WokenTaskIsHead => A!WokenTaskIsHead
    BY DEF PA!WokenTaskIsHead, PA!FRONT_BIT, A!WokenTaskIsHead, A!FRONT_BIT
  <2>6. PA!HandleAtFirstUnprocessed => A!HandleAtFirstUnprocessed
    BY DEF PA!HandleAtFirstUnprocessed, PA!HandlePcs,
       A!HandleAtFirstUnprocessed, A!HandlePcs
  <2>7. PA!NonesThenSomes => A!NonesThenSomes
    BY DEF PA!NonesThenSomes, A!NonesThenSomes
  <2>8. QED BY <2>1, <2>2, <2>4, <2>5, <2>6, <2>7 DEF PA!QueueSafety
<1>2. PB!ViewInv => /\ B!FrontExclusive
                   /\ B!QueuedTasksAlive
                   /\ B!WokenTaskIsHead
                   /\ B!HandleAtFirstUnprocessed
                   /\ B!NonesThenSomes
  <2>1. PB!ViewInv => PB!QueueSafety
    BY PB!SeenSafety, ConstantsB, NoThreadAssumption
  <2>2. PB!FrontExclusive => B!FrontExclusive
    BY DEF PB!FrontExclusive, PB!HasFront, PB!Granted, PB!FrontPcs,
       PB!FRONT_BIT, B!FrontExclusive, B!HasFront, B!Granted, B!FrontPcs,
       B!FRONT_BIT
  <2>4. PB!QueuedTasksAlive => B!QueuedTasksAlive
    BY DEF PB!QueuedTasksAlive, B!QueuedTasksAlive
  <2>5. PB!WokenTaskIsHead => B!WokenTaskIsHead
    BY DEF PB!WokenTaskIsHead, PB!FRONT_BIT, B!WokenTaskIsHead, B!FRONT_BIT
  <2>6. PB!HandleAtFirstUnprocessed => B!HandleAtFirstUnprocessed
    BY DEF PB!HandleAtFirstUnprocessed, PB!HandlePcs,
       B!HandleAtFirstUnprocessed, B!HandlePcs
  <2>7. PB!NonesThenSomes => B!NonesThenSomes
    BY DEF PB!NonesThenSomes, B!NonesThenSomes
  <2>8. QED BY <2>1, <2>2, <2>4, <2>5, <2>6, <2>7 DEF PB!QueueSafety
<1>3. PA!Seen!Spec => []A!NoOrphanedWaiter
  <2>1. PA!Seen!Spec => []PA!NoOrphanedWaiter
    BY PA!SeenOrphans, ConstantsA, NoThreadAssumption
  <2>2. PA!NoOrphanedWaiter => A!NoOrphanedWaiter
    BY DEF PA!NoOrphanedWaiter, PA!CanHandOver, PA!LeakedGuard, PA!Granted,
       PA!FrontPcs, PA!FRONT_BIT, A!NoOrphanedWaiter, A!CanHandOver,
       A!LeakedGuard, A!Granted, A!FrontPcs, A!FRONT_BIT
  <2>3. QED BY <2>1, <2>2, PTL
<1>4. PB!Seen!Spec => []B!NoOrphanedWaiter
  <2>1. PB!Seen!Spec => []PB!NoOrphanedWaiter
    BY PB!SeenOrphans, ConstantsB, NoThreadAssumption
  <2>2. PB!NoOrphanedWaiter => B!NoOrphanedWaiter
    BY DEF PB!NoOrphanedWaiter, PB!CanHandOver, PB!LeakedGuard, PB!Granted,
       PB!FrontPcs, PB!FRONT_BIT, B!NoOrphanedWaiter, B!CanHandOver,
       B!LeakedGuard, B!Granted, B!FrontPcs, B!FRONT_BIT
  <2>3. QED BY <2>1, <2>2, PTL
<1>5. QED
  BY <1>1, <1>2, <1>3, <1>4, NestedInvariant, BothAreSeen, PTL DEF NInv

\* Each queue serves its callers first come, first served, whatever goes on in
\* the other one.
THEOREM EachQueueIsFifo == Spec => A!ImplementsFifoFront /\ B!ImplementsFifoFront
<1>1. PA!Seen!Spec => A!ImplementsFifoFront
  <2>1. PA!Seen!Spec => PA!ImplementsFifoFront
    BY PA!SeenIsFifo, ConstantsA, NoThreadAssumption
  <2>2. /\ PA!Fifo!Init => A!Fifo!Init
        /\ [PA!Fifo!Next]_(PA!Fifo!fifoVars) => [A!Fifo!Next]_(A!Fifo!fifoVars)
    BY DEF PA!Fifo!Next, PA!Fifo!TakeFront, PA!Fifo!Join, PA!Fifo!Merge,
       PA!Fifo!Pass, PA!Fifo!InLine, PA!Fifo!fifoVars, PA!Fifo!Init, PA!holder,
       PA!line, PA!merged, PA!HasFront, PA!Granted, PA!FrontPcs, PA!FRONT_BIT,
       A!Fifo!Next, A!Fifo!TakeFront, A!Fifo!Join, A!Fifo!Merge, A!Fifo!Pass,
       A!Fifo!InLine, A!Fifo!fifoVars, A!Fifo!Init, A!holder, A!line, A!merged,
       A!HasFront, A!Granted, A!FrontPcs, A!FRONT_BIT
  <2>3. QED
    BY <2>1, <2>2, PTL
       DEF PA!ImplementsFifoFront, PA!Fifo!Spec, A!ImplementsFifoFront,
           A!Fifo!Spec
<1>2. PB!Seen!Spec => B!ImplementsFifoFront
  <2>1. PB!Seen!Spec => PB!ImplementsFifoFront
    BY PB!SeenIsFifo, ConstantsB, NoThreadAssumption
  <2>2. /\ PB!Fifo!Init => B!Fifo!Init
        /\ [PB!Fifo!Next]_(PB!Fifo!fifoVars) => [B!Fifo!Next]_(B!Fifo!fifoVars)
    BY DEF PB!Fifo!Next, PB!Fifo!TakeFront, PB!Fifo!Join, PB!Fifo!Merge,
       PB!Fifo!Pass, PB!Fifo!InLine, PB!Fifo!fifoVars, PB!Fifo!Init, PB!holder,
       PB!line, PB!merged, PB!HasFront, PB!Granted, PB!FrontPcs, PB!FRONT_BIT,
       B!Fifo!Next, B!Fifo!TakeFront, B!Fifo!Join, B!Fifo!Merge, B!Fifo!Pass,
       B!Fifo!InLine, B!Fifo!fifoVars, B!Fifo!Init, B!holder, B!line, B!merged,
       B!HasFront, B!Granted, B!FrontPcs, B!FRONT_BIT
  <2>3. QED
    BY <2>1, <2>2, PTL
       DEF PB!ImplementsFifoFront, PB!Fifo!Spec, B!ImplementsFifoFront,
           B!Fifo!Spec
<1>3. QED BY <1>1, <1>2, BothAreSeen

\* A value that is given to either queue is neither lost nor processed twice,
\* and is reported as processed only if it was.
THEOREM EachValueOnce ==
    Spec => /\ [](A!ValueNeitherLostNorRepeated /\ A!SuccessMeansProcessed)
            /\ [](B!ValueNeitherLostNorRepeated /\ B!SuccessMeansProcessed)
            /\ A!HandedOutOnce /\ B!HandedOutOnce
<1>1. PA!Seen!Spec =>
        /\ [](A!ValueNeitherLostNorRepeated /\ A!SuccessMeansProcessed)
        /\ A!HandedOutOnce
  <2>1. PA!Seen!Spec => /\ []PA!ValueNeitherLostNorRepeated
                        /\ []PA!SuccessMeansProcessed
                        /\ PA!HandedOutOnce
    BY PA!SeenFates, ConstantsA, NoThreadAssumption
  <2>2. PA!ValueNeitherLostNorRepeated => A!ValueNeitherLostNorRepeated
    BY DEF PA!ValueNeitherLostNorRepeated, A!ValueNeitherLostNorRepeated
  <2>3. PA!SuccessMeansProcessed => A!SuccessMeansProcessed
    BY DEF PA!SuccessMeansProcessed, A!SuccessMeansProcessed
  <2>4. PA!vars = A!vars
    BY DEF PA!vars, A!vars
  <2>5. PA!HandedOutOnce => A!HandedOutOnce
    BY <2>4, PTL DEF PA!HandedOutOnce, A!HandedOutOnce, PA!vars, A!vars
  <2>6. QED BY <2>1, <2>2, <2>3, <2>5, PTL
<1>2. PB!Seen!Spec =>
        /\ [](B!ValueNeitherLostNorRepeated /\ B!SuccessMeansProcessed)
        /\ B!HandedOutOnce
  <2>1. PB!Seen!Spec => /\ []PB!ValueNeitherLostNorRepeated
                        /\ []PB!SuccessMeansProcessed
                        /\ PB!HandedOutOnce
    BY PB!SeenFates, ConstantsB, NoThreadAssumption
  <2>2. PB!ValueNeitherLostNorRepeated => B!ValueNeitherLostNorRepeated
    BY DEF PB!ValueNeitherLostNorRepeated, B!ValueNeitherLostNorRepeated
  <2>3. PB!SuccessMeansProcessed => B!SuccessMeansProcessed
    BY DEF PB!SuccessMeansProcessed, B!SuccessMeansProcessed
  <2>4. PB!vars = B!vars
    BY DEF PB!vars, B!vars
  <2>5. PB!HandedOutOnce => B!HandedOutOnce
    BY <2>4, PTL DEF PB!HandedOutOnce, B!HandedOutOnce, PB!vars, B!vars
  <2>6. QED BY <2>1, <2>2, <2>3, <2>5, PTL
<1>3. QED BY <1>1, <1>2, BothAreSeen
================================================================================
