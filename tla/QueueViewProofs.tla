--------------------------- MODULE QueueViewProofs ---------------------------
(***************************************************************************)
(* A thread that runs code of the queue is seen to take that step, and one *)
(* that is outside, or in a closure of the queue, is seen as a caller that *)
(* locks and unlocks the mutex, or not at all.  So whatever is proved of a *)
(* ContentionQueue is true of what the queue sees: S is that instance.     *)
(***************************************************************************)
EXTENDS QueueView, TLAPS

S == INSTANCE ContentionQueueRefinement WITH
    owner <- ownerSeen, parked <- parkedSeen, pc <- pcSeen,
    calls <- [t \in Threads |-> 0], MaxCalls <- Unbounded

\* The mutex, who waits in the queue and where the threads are, as they are;
\* and what holds of the queue as it is seen.
ViewInv ==
    /\ owner \in Threads \cup {NoThread}
    /\ parked \subseteq Threads
    /\ pc \in [Threads -> PC]
    /\ S!IInv
    /\ S!PoisonInv

\* If t has the mutex then it has it for this queue.
Inside(t) == owner = t => pc[t] \notin {"idle", "unlocked"}

\* What a thread may do to the mutex.
MutexStep(t) ==
    \/ UNCHANGED <<owner, poisoned>>
    \/ owner = NoThread /\ owner' = t /\ UNCHANGED poisoned
    \/ /\ owner = t /\ owner' = NoThread
       /\ UNCHANGED poisoned \/ (poisoned' = TRUE /\ "user_panic" \in Faults)

\* Those that cannot wait in this queue now are not woken in it, and parked
\* nowhere.
OnlyOursPark ==
    /\ parked' \subseteq Threads
    /\ \A u \in Threads :
        pc[u] \notin {"entering", "waiting"} => (u \in parked' <=> u \in parked)

\* What a step of a thread in this queue is for everybody else.
OwnMove(t) ==
    /\ \E to \in PC : pc' = [pc EXCEPT ![t] = to]
    /\ MutexStep(t)
    /\ OnlyOursPark
    /\ Inside(t)'

-----------------------------------------------------------------------------
\* What ViewInv says of the threads themselves.

\* Code of the queue that needs the mutex has it.
LEMMA HasGuard ==
    ASSUME ViewInv, NEW t \in Threads, pc[t] \in GuardPcs
    PROVE  owner = t
<1>1. pcSeen[t] \in S!GuardPcs
  BY DEF GuardPcs, S!GuardPcs, pcSeen
<1>2. ownerSeen = t
  BY <1>1 DEF ViewInv, S!IInv, S!GuardDiscipline
<1>3. QED BY <1>2, NoThreadAssumption DEF ownerSeen

\* The first task in the queue is that of a thread that waits.
LEMMA HeadWaits ==
    ASSUME ViewInv, queue # <<>>
    PROVE  Head(queue) \in Threads /\ pc[Head(queue)] = "waiting"
<1>1. queue \in Seq(Threads)
  BY DEF ViewInv, S!IInv, S!TypeOK
<1>2. Head(queue) \in Threads /\ 1 \in 1..Len(queue) /\ queue[1] = Head(queue)
  BY <1>1
<1>3. pcSeen[Head(queue)] = "waiting"
  BY <1>2 DEF ViewInv, S!IInv, S!QueueInv, S!QueuedTasksAlive
<1>4. QED BY <1>2, <1>3 DEF pcSeen

\* A poison flag is set only where callers may panic.
LEMMA Poisoned ==
    ASSUME ViewInv, poisoned \/ queuePoisoned
    PROVE  "user_panic" \in Faults
BY DEF ViewInv, S!PoisonInv

-----------------------------------------------------------------------------
\* What a step in the queue is for everybody else.
LEMMA StepOwnMove ==
    ASSUME ViewInv, NEW t \in Threads, Inside(t), QueueStep(t)
    PROVE  OwnMove(t)
<1>0. /\ owner \in Threads \cup {NoThread}
      /\ parked \subseteq Threads
      /\ pc \in [Threads -> PC]
  BY DEF ViewInv
<1> USE <1>0, NoThreadAssumption DEF OwnMove, MutexStep, OnlyOursPark, Inside,
     PC, GuardPcs
<1>1. ASSUME UserStep(t), ~ClosurePoisonsMutex(t) PROVE OwnMove(t)
  <2>1. CASE UserLock(t)
    BY <2>1 DEF UserLock, Goto, Lock, queueVars, constVars
  <2>2. CASE UserUnlock(t)
    BY <2>2, HasGuard DEF UserUnlock, Goto, DropGuard, queueVars, constVars
  <2>3. CASE UserPanic(t)
    BY <2>3, HasGuard DEF UserPanic, Goto, DropGuardUnwinding, queueVars,
       constVars
  <2>4. CASE ClearQueuePoison(t)
    BY <2>4 DEF ClearQueuePoison, syncVars, callVars, constVars
  <2>5. CASE process(t)
    BY <2>5 DEF process, Enter, Goto, queueVars, constVars
  <2>6. CASE lock_and_process(t)
    BY <2>6 DEF lock_and_process, Lock, Enter, Goto, queueVars, constVars
  <2>7. CASE LockIsPoisoned(t)
    BY <2>7 DEF LockIsPoisoned, DropGuardUnwinding, queueVars, callVars,
       constVars
  <2>8. QED BY <1>1, <2>1, <2>2, <2>3, <2>4, <2>5, <2>6, <2>7 DEF UserStep
<1>2. ASSUME CallStep(t) PROVE OwnMove(t)
  <2>1. CASE TakeFront(t)
    BY <2>1 DEF TakeFront, Goto, syncVars, constVars
  <2>2. CASE PushAndWait(t)
    BY <2>2, HasGuard DEF PushAndWait, Push, Goto, UnlockAndPark, constVars
  <2>3. CASE ReachFront(t)
    BY <2>3 DEF ReachFront, Goto, LeaveWait, constVars, CanRelock
  <2>4. CASE QueuePoisonPanic(t)
    BY <2>4, HasGuard, Poisoned DEF QueuePoisonPanic, Goto, DropGuardUnwinding,
       queueVars, constVars
  <2>5. CASE TakeOwnValue(t)
    BY <2>5 DEF TakeOwnValue, AfterWait, Goto, syncVars, queueVars, constVars
  <2>6. CASE ReturnUnprocessed(t)
    BY <2>6 DEF ReturnUnprocessed, AfterWait, Goto, syncVars, queueVars,
       constVars
  <2>7. CASE MutexPoisonPanic(t)
    BY <2>7, HasGuard, Poisoned DEF MutexPoisonPanic, Goto, DropGuardUnwinding,
       queueVars, constVars
  <2>8. CASE StartCallback(t)
    BY <2>8 DEF StartCallback, Goto, syncVars, queueVars, constVars
  <2>9. CASE HandOff(t)
    BY <2>9, HasGuard, HeadWaits DEF HandOff, PassFront, Goto, constVars,
       wake_front_task, OrBitsAndNotify, NotifyOne
  <2>10. CASE CatchUnwind(t)
    BY <2>10, HeadWaits DEF CatchUnwind, Goto, PassFrontPanicking, constVars,
       wake_front_task_panicking, OrBitsAndNotify, NotifyOne
  <2>11. QED BY <1>2, <2>1, <2>2, <2>3, <2>4, <2>5, <2>6, <2>7, <2>8, <2>9,
     <2>10 DEF CallStep
<1>3. ASSUME HandleStep(t) PROVE OwnMove(t)
  <2>1. CASE Pop(t)
    BY <2>1 DEF Pop, Goto, syncVars
  <2>2. CASE HandleClearsPoison(t)
    BY <2>2 DEF HandleClearsPoison, syncVars, callVars
  <2>3. CASE Unlocked(t)
    BY <2>3, HasGuard DEF Unlocked, Goto, DropGuard, queueVars, constVars
  <2>4. CASE ClosureReturns(t)
    BY <2>4 DEF ClosureReturns, Goto, syncVars, queueVars, constVars
  <2>5. CASE ClosurePanics(t)
    BY <2>5 DEF ClosurePanics, Goto, syncVars, queueVars, constVars
  <2>6. CASE RelockAndResume(t)
    BY <2>6 DEF RelockAndResume, Goto, Lock, queueVars, constVars
  <2>7. CASE RelockAndUnwind(t)
    BY <2>7 DEF RelockAndUnwind, Goto, Lock, queueVars, constVars
  <2>8. CASE CallbackReturns(t)
    BY <2>8 DEF CallbackReturns, Goto, syncVars, queueVars, constVars
  <2>9. CASE CallbackPanics(t)
    BY <2>9 DEF CallbackPanics, Goto, syncVars, queueVars, constVars
  <2>10. QED BY <1>3, <2>1, <2>2, <2>3, <2>4, <2>5, <2>6, <2>7, <2>8, <2>9 DEF
     HandleStep
<1>4. ASSUME EnvStep(t), pc[t] \in {"entering", "waiting"} PROVE OwnMove(t)
  <2>1. CASE PushAborts(t)
    BY <2>1, <1>4 DEF PushAborts, syncVars, queueVars, callVars
  <2>2. CASE SpuriousWakeup(t)
    BY <2>2, <1>4 DEF SpuriousWakeup, queueVars, callVars, constVars
  <2>3. CASE KeepWaiting(t)
    BY <2>3, <1>4 DEF KeepWaiting, WaitAgain, callVars, constVars, CanRelock
  <2>4. QED BY <1>4, <2>1, <2>2, <2>3 DEF EnvStep
<1>5. QED BY <1>1, <1>2, <1>3, <1>4 DEF QueueStep

-----------------------------------------------------------------------------
\* How a step of t in the queue is seen.

LEMMA SeenMove ==
    ASSUME ViewInv, NEW t \in Threads, Inside(t), OwnMove(t)
    PROVE  /\ pcSeen[t] = pc[t]
           /\ \A to : pc' = [pc EXCEPT ![t] = to] =>
                        pcSeen' = [pcSeen EXCEPT ![t] = to]
           /\ pc' = pc => pcSeen' = pcSeen
           /\ owner \in {t, NoThread} => ownerSeen = owner
           /\ owner' \in {t, NoThread} => ownerSeen' = owner'
           /\ owner' = owner => ownerSeen' = ownerSeen
<1> USE NoThreadAssumption DEF OwnMove, MutexStep, Inside, ViewInv
<1>1. pcSeen[t] = pc[t]
  BY DEF pcSeen
<1>2. ASSUME NEW to, pc' = [pc EXCEPT ![t] = to]
      PROVE  pcSeen' = [pcSeen EXCEPT ![t] = to]
  <2>1. \A u \in Threads \ {t} : pc'[u] = pc[u] /\ (owner' = u <=> owner = u)
    BY <1>2
  <2>2. pcSeen'[t] = to /\ \A u \in Threads \ {t} : pcSeen'[u] = pcSeen[u]
    BY <1>2, <2>1 DEF pcSeen
  <2>3. QED BY <2>2 DEF pcSeen
<1>3. pc' = pc => pcSeen' = pcSeen
  <2>1. pc = [pc EXCEPT ![t] = pc[t]] /\ pcSeen = [pcSeen EXCEPT ![t] = pc[t]]
    BY <1>1 DEF pcSeen
  <2>2. QED BY <1>2, <2>1
<1>4. /\ owner \in {t, NoThread} => ownerSeen = owner
      /\ owner' \in {t, NoThread} => ownerSeen' = owner'
  BY DEF ownerSeen
<1>5. owner' = owner => ownerSeen' = ownerSeen
  <2>1. CASE owner \in {t, NoThread}
    BY <2>1, <1>4
  <2>2. CASE owner \notin {t, NoThread}
    <3>1. owner \in Threads /\ pc'[owner] = pc[owner]
      BY <2>2
    <3>2. QED BY <3>1 DEF ownerSeen
  <2>3. QED BY <2>1, <2>2
<1>6. QED BY <1>1, <1>2, <1>3, <1>4, <1>5

\* Who is seen to be parked afterwards.
LEMMA SeenParked ==
    ASSUME ViewInv, NEW t \in Threads, OwnMove(t)
    PROVE  /\ /\ parked' = parked
              /\ t \notin parked \/ (pc'[t] = "waiting" <=> pc[t] = "waiting")
              => parkedSeen' = parkedSeen
           /\ pc'[t] = "waiting" /\ parked' = parked \cup {t} =>
                parkedSeen' = parkedSeen \cup {t}
           /\ \A h : /\ pc'[t] = "waiting" <=> pc[t] = "waiting"
                     /\ parked' = parked \ {h}
                     => parkedSeen' = parkedSeen \ {h}
<1>1. \A u \in Threads \ {t} : pc'[u] = pc[u]
  BY DEF ViewInv, OwnMove
<1>2. parked \subseteq Threads /\ parked' \subseteq Threads
  BY DEF ViewInv, OwnMove, OnlyOursPark
<1>3. QED BY <1>1, <1>2 DEF parkedSeen

\* It is seen as that step of a ContentionQueue.
LEMMA OwnStepSeen ==
    ASSUME ViewInv, NEW t \in Threads, Inside(t), QueueStep(t)
    PROVE  \/ Seen!UserStep(t)
           \/ Seen!CallStep(t)
           \/ Seen!HandleStep(t)
           \/ Seen!EnvStep(t)
           \/ UNCHANGED Seen!vars
<1>1. /\ pcSeen[t] = pc[t]
      /\ \A to : pc' = [pc EXCEPT ![t] = to] =>
                   pcSeen' = [pcSeen EXCEPT ![t] = to]
      /\ pc' = pc => pcSeen' = pcSeen
      /\ owner \in {t, NoThread} => ownerSeen = owner
      /\ owner' \in {t, NoThread} => ownerSeen' = owner'
      /\ owner' = owner => ownerSeen' = ownerSeen
  BY StepOwnMove, SeenMove
<1>2. /\ /\ parked' = parked
         /\ t \notin parked \/ (pc'[t] = "waiting" <=> pc[t] = "waiting")
         => parkedSeen' = parkedSeen
      /\ pc'[t] = "waiting" /\ parked' = parked \cup {t} =>
           parkedSeen' = parkedSeen \cup {t}
      /\ \A h : /\ pc'[t] = "waiting" <=> pc[t] = "waiting"
                /\ parked' = parked \ {h}
                => parkedSeen' = parkedSeen \ {h}
  BY StepOwnMove, SeenParked
<1>3. pc \in [Threads -> PC]
  BY DEF ViewInv
<1> USE <1>1, <1>2, <1>3, NoThreadAssumption
<1>4. ASSUME UserStep(t), ~ClosurePoisonsMutex(t)
      PROVE  Seen!UserStep(t)
  <2>1. CASE UserLock(t)
    BY <2>1 DEF UserLock, Goto, Lock, queueVars, constVars, Seen!UserLock,
       Seen!Goto, Seen!Lock, Seen!SpendCall, Seen!queueVars, Seen!constVars,
       Seen!UserStep
  <2>2. CASE UserUnlock(t)
    BY <2>2, HasGuard DEF UserUnlock, Goto, DropGuard, queueVars, constVars,
       Seen!UserUnlock, Seen!Goto, Seen!DropGuard, Seen!queueVars,
       Seen!constVars, Seen!UserStep, GuardPcs
  <2>3. CASE UserPanic(t)
    BY <2>3, HasGuard DEF UserPanic, Goto, DropGuardUnwinding, queueVars,
       constVars, Seen!UserPanic, Seen!Goto, Seen!DropGuardUnwinding,
       Seen!queueVars, Seen!constVars, Seen!UserStep, GuardPcs
  <2>4. CASE ClearQueuePoison(t)
    BY <2>4 DEF ClearQueuePoison, syncVars, callVars, constVars,
       Seen!ClearQueuePoison, Seen!syncVars, Seen!callVars, Seen!constVars,
       Seen!UserStep
  <2>5. CASE process(t)
    BY <2>5 DEF process, Enter, Goto, queueVars, constVars, Seen!process,
       Seen!Enter, Seen!Goto, Seen!SpendCall, Seen!queueVars, Seen!constVars,
       Seen!UserStep
  <2>6. CASE lock_and_process(t)
    BY <2>6 DEF lock_and_process, Lock, Enter, Goto, queueVars, constVars,
       Seen!lock_and_process, Seen!Lock, Seen!Enter, Seen!Goto, Seen!SpendCall,
       Seen!queueVars, Seen!constVars, Seen!UserStep
  <2>7. CASE LockIsPoisoned(t)
    BY <2>7 DEF LockIsPoisoned, DropGuardUnwinding, queueVars, callVars,
       constVars, Seen!LockIsPoisoned, Seen!SpendCall, Seen!DropGuardUnwinding,
       Seen!queueVars, Seen!callVars, Seen!constVars, Seen!UserStep
  <2>8. QED BY <1>4, <2>1, <2>2, <2>3, <2>4, <2>5, <2>6, <2>7 DEF UserStep
<1>5. ASSUME CallStep(t)
      PROVE  Seen!CallStep(t)
  <2>1. CASE TakeFront(t)
    BY <2>1 DEF TakeFront, Goto, try_acquire_front_fast, SetFate, syncVars,
       constVars, Seen!TakeFront, Seen!Goto, Seen!try_acquire_front_fast,
       Seen!SetFate, Seen!syncVars, Seen!constVars, Seen!CallStep
  <2>2. CASE PushAndWait(t)
    BY <2>2, HasGuard DEF PushAndWait, Push, Goto, NewTaskState, UnlockAndPark,
       SetFate, constVars, Seen!PushAndWait, Seen!Push, Seen!Goto,
       Seen!NewTaskState, Seen!UnlockAndPark, Seen!SetFate, Seen!constVars,
       Seen!CallStep, GuardPcs
  <2>3. CASE ReachFront(t)
    BY <2>3 DEF ReachFront, Goto, LeaveWait, SetOutcome, WaitResult,
       NewTaskState, constVars, CanRelock, FRONT_BIT, PANIC_BIT,
       Seen!ReachFront, Seen!Goto, Seen!LeaveWait, Seen!SetOutcome,
       Seen!WaitResult, Seen!NewTaskState, Seen!constVars, Seen!CanRelock,
       Seen!FRONT_BIT, Seen!PANIC_BIT, Seen!CallStep, parkedSeen
  <2>4. CASE QueuePoisonPanic(t)
    BY <2>4, HasGuard DEF QueuePoisonPanic, Goto, DropGuardUnwinding,
       queueVars, constVars, Seen!QueuePoisonPanic, Seen!Goto,
       Seen!DropGuardUnwinding, Seen!queueVars, Seen!constVars, Seen!CallStep,
       GuardPcs
  <2>5. CASE TakeOwnValue(t)
    BY <2>5 DEF TakeOwnValue, AfterWait, Goto, syncVars, queueVars, constVars,
       Seen!TakeOwnValue, Seen!AfterWait, Seen!Goto, Seen!syncVars,
       Seen!queueVars, Seen!constVars, Seen!CallStep
  <2>6. CASE ReturnUnprocessed(t)
    BY <2>6 DEF ReturnUnprocessed, AfterWait, Goto, syncVars, queueVars,
       constVars, Seen!ReturnUnprocessed, Seen!AfterWait, Seen!Goto,
       Seen!syncVars, Seen!queueVars, Seen!constVars, Seen!CallStep
  <2>7. CASE MutexPoisonPanic(t)
    BY <2>7, HasGuard DEF MutexPoisonPanic, Goto, DropGuardUnwinding,
       queueVars, constVars, Seen!MutexPoisonPanic, Seen!Goto,
       Seen!DropGuardUnwinding, Seen!queueVars, Seen!constVars, Seen!CallStep,
       GuardPcs
  <2>8. CASE StartCallback(t)
    BY <2>8 DEF StartCallback, Goto, NewHandle, syncVars, queueVars, constVars,
       SetFate, Seen!StartCallback, Seen!Goto, Seen!NewHandle, Seen!syncVars,
       Seen!queueVars, Seen!constVars, Seen!SetFate, Seen!CallStep
  <2>9. CASE HandOff(t)
    BY <2>9, HasGuard DEF HandOff, PassFront, Goto, CallEnds, constVars,
       wake_front_task, SetFate, OrBitsAndNotify, FRONT_BIT, NotifyOne,
       Seen!HandOff, Seen!PassFront, Seen!Goto, Seen!CallEnds, Seen!constVars,
       Seen!wake_front_task, Seen!SetFate, Seen!OrBitsAndNotify,
       Seen!FRONT_BIT, Seen!NotifyOne, Seen!CallStep, GuardPcs
  <2>10. CASE CatchUnwind(t)
    BY <2>10 DEF CatchUnwind, Goto, PassFrontPanicking, CallEnds, constVars,
       wake_front_task_panicking, SetFate, OrBitsAndNotify, PANIC_BIT,
       FRONT_BIT, NotifyOne, Seen!CatchUnwind, Seen!Goto,
       Seen!PassFrontPanicking, Seen!CallEnds, Seen!constVars,
       Seen!wake_front_task_panicking, Seen!SetFate, Seen!OrBitsAndNotify,
       Seen!PANIC_BIT, Seen!FRONT_BIT, Seen!NotifyOne, Seen!CallStep
  <2>11. QED BY <1>5, <2>1, <2>2, <2>3, <2>4, <2>5, <2>6, <2>7, <2>8, <2>9,
     <2>10 DEF CallStep
<1>6. ASSUME HandleStep(t)
      PROVE  Seen!HandleStep(t)
  <2>1. CASE Pop(t)
    BY <2>1 DEF Pop, SetFate, SettleFates, Goto, syncVars, Seen!Pop,
       Seen!SetFate, Seen!SettleFates, Seen!Goto, Seen!syncVars,
       Seen!HandleStep
  <2>2. CASE HandleClearsPoison(t)
    BY <2>2 DEF HandleClearsPoison, syncVars, callVars,
       Seen!HandleClearsPoison, Seen!syncVars, Seen!callVars, Seen!HandleStep
  <2>3. CASE Unlocked(t)
    BY <2>3, HasGuard DEF Unlocked, Goto, DropGuard, queueVars, constVars,
       Seen!Unlocked, Seen!Goto, Seen!DropGuard, Seen!queueVars,
       Seen!constVars, Seen!HandleStep, GuardPcs
  <2>4. CASE ClosureReturns(t)
    BY <2>4 DEF ClosureReturns, Goto, syncVars, queueVars, constVars,
       Seen!ClosureReturns, Seen!Goto, Seen!syncVars, Seen!queueVars,
       Seen!constVars, Seen!HandleStep
  <2>5. CASE ClosurePanics(t)
    BY <2>5 DEF ClosurePanics, Goto, SettleFates, syncVars, queueVars,
       constVars, Seen!ClosurePanics, Seen!Goto, Seen!SettleFates,
       Seen!syncVars, Seen!queueVars, Seen!constVars, Seen!HandleStep
  <2>6. CASE RelockAndResume(t)
    BY <2>6 DEF RelockAndResume, Goto, Lock, queueVars, constVars,
       Seen!RelockAndResume, Seen!Goto, Seen!Lock, Seen!queueVars,
       Seen!constVars, Seen!HandleStep
  <2>7. CASE RelockAndUnwind(t)
    BY <2>7 DEF RelockAndUnwind, Goto, Lock, queueVars, constVars,
       Seen!RelockAndUnwind, Seen!Goto, Seen!Lock, Seen!queueVars,
       Seen!constVars, Seen!HandleStep
  <2>8. CASE CallbackReturns(t)
    BY <2>8 DEF CallbackReturns, Goto, SetOutcome, SettleFates, syncVars,
       queueVars, constVars, Seen!CallbackReturns, Seen!Goto, Seen!SetOutcome,
       Seen!SettleFates, Seen!syncVars, Seen!queueVars, Seen!constVars,
       Seen!HandleStep
  <2>9. CASE CallbackPanics(t)
    BY <2>9 DEF CallbackPanics, Goto, SettleFates, syncVars, queueVars,
       constVars, Seen!CallbackPanics, Seen!Goto, Seen!SettleFates,
       Seen!syncVars, Seen!queueVars, Seen!constVars, Seen!HandleStep
  <2>10. QED BY <1>6, <2>1, <2>2, <2>3, <2>4, <2>5, <2>6, <2>7, <2>8, <2>9 DEF
     HandleStep
<1>7. ASSUME EnvStep(t), pc[t] \in {"entering", "waiting"}
      PROVE  Seen!EnvStep(t) \/ UNCHANGED Seen!vars
  <2>1. CASE PushAborts(t)
    BY <2>1, <1>7 DEF PushAborts, syncVars, queueVars, callVars,
       Seen!PushAborts, Seen!syncVars, Seen!queueVars, Seen!callVars,
       Seen!EnvStep
  <2>2. CASE SpuriousWakeup(t)
    BY <2>2, <1>7 DEF SpuriousWakeup, queueVars, callVars, constVars,
       Seen!SpuriousWakeup, Seen!queueVars, Seen!callVars, Seen!constVars,
       Seen!EnvStep, Seen!vars, parkedSeen, vars
  <2>3. CASE KeepWaiting(t)
    BY <2>3, <1>7 DEF KeepWaiting, WaitAgain, callVars, constVars, CanRelock,
       FRONT_BIT, Seen!KeepWaiting, Seen!WaitAgain, Seen!callVars,
       Seen!constVars, Seen!CanRelock, Seen!FRONT_BIT, Seen!EnvStep, parkedSeen
  <2>4. QED BY <1>7, <2>1, <2>2, <2>3 DEF EnvStep
<1>8. QED BY <1>4, <1>5, <1>6, <1>7 DEF QueueStep

-----------------------------------------------------------------------------
\* How a step that t takes elsewhere is seen, when t is outside of the queue or
\* in a closure of it.
ElsewhereStep(t) ==
    /\ pc[t] \in {"idle", "unlocked"}
    /\ MutexStep(t)
    /\ parked' \subseteq Threads
    /\ \A u \in Threads : pc[u] = "waiting" => (u \in parked' <=> u \in parked)
    /\ UNCHANGED <<queueVars, callVars, constVars, fate>>

LEMMA ElsewhereSeen ==
    ASSUME ViewInv, NEW t \in Threads, ElsewhereStep(t)
    PROVE  Seen!UserStep(t) \/ UNCHANGED Seen!vars
<1> USE NoThreadAssumption DEF Seen!queueVars, Seen!constVars
<1>1. /\ UNCHANGED <<queueVars, callVars, constVars, fate>>
      /\ UNCHANGED <<queue, value, bits, frontLocked, queuePoisoned, options,
                     pc, entry, outcome, nextIdx, aborted>>
      /\ pc[t] \in {"idle", "unlocked"}
      /\ owner \in Threads \cup {NoThread}
  BY DEF ViewInv, ElsewhereStep, queueVars, callVars, constVars
<1>2. parkedSeen' = parkedSeen
  BY <1>1 DEF ViewInv, ElsewhereStep, parkedSeen
<1>3. CASE UNCHANGED <<owner, poisoned>>
  <2>1. ownerSeen' = ownerSeen /\ pcSeen' = pcSeen
    BY <1>1, <1>3 DEF ownerSeen, pcSeen
  <2>2. QED BY <1>1, <1>2, <1>3, <2>1 DEF Seen!vars
<1>4. CASE owner = NoThread /\ owner' = t /\ UNCHANGED poisoned
  <2>1. CASE pc[t] = "idle"
    <3>1. /\ ownerSeen = NoThread /\ ownerSeen' = t
          /\ pcSeen[t] = "idle" /\ pcSeen' = [pcSeen EXCEPT ![t] = "guarded"]
      BY <1>1, <1>4, <2>1 DEF ownerSeen, pcSeen
    <3>2. Seen!UserLock(t)
      BY <1>1, <1>2, <1>4, <3>1
         DEF Seen!UserLock, Seen!Goto, Seen!Lock, Seen!SpendCall
    <3>3. QED BY <3>2 DEF Seen!UserStep
  <2>2. CASE pc[t] = "unlocked"
    <3>1. ownerSeen' = ownerSeen /\ pcSeen' = pcSeen
      BY <1>1, <1>4, <2>2 DEF ownerSeen, pcSeen
    <3>2. QED BY <1>1, <1>2, <1>4, <3>1 DEF Seen!vars
  <2>3. QED BY <1>1, <2>1, <2>2
<1>5. CASE /\ owner = t /\ owner' = NoThread
           /\ UNCHANGED poisoned \/ (poisoned' = TRUE /\ "user_panic" \in Faults)
  <2>1. CASE pc[t] = "idle"
    <3>1. /\ ownerSeen = t /\ ownerSeen' = NoThread
          /\ pcSeen[t] = "guarded" /\ pcSeen' = [pcSeen EXCEPT ![t] = "idle"]
      BY <1>1, <1>5, <2>1 DEF ownerSeen, pcSeen
    <3>2. Seen!UserUnlock(t) \/ Seen!UserPanic(t)
      BY <1>1, <1>2, <1>5, <3>1
         DEF Seen!UserUnlock, Seen!UserPanic, Seen!Goto, Seen!DropGuard,
             Seen!DropGuardUnwinding
    <3>3. QED BY <3>2 DEF Seen!UserStep
  <2>2. CASE pc[t] = "unlocked"
    <3>1. /\ ownerSeen = NoThread /\ ownerSeen' = NoThread
          /\ pcSeen[t] = "unlocked" /\ pcSeen' = pcSeen
      BY <1>1, <1>5, <2>2 DEF ownerSeen, pcSeen
    <3>2. CASE UNCHANGED poisoned
      BY <1>1, <1>2, <3>1, <3>2 DEF Seen!vars
    <3>3. CASE poisoned' = TRUE /\ "user_panic" \in Faults
      <4>1. Seen!ClosurePoisonsMutex(t)
        BY <1>1, <1>2, <3>1, <3>3
           DEF Seen!ClosurePoisonsMutex, Seen!DropGuardUnwinding, Seen!callVars
      <4>2. QED BY <4>1 DEF Seen!UserStep
    <3>4. QED BY <1>5, <3>2, <3>3
  <2>3. QED BY <1>1, <2>1, <2>2
<1>6. QED BY <1>3, <1>4, <1>5 DEF ElsewhereStep, MutexStep

\* The poison flag is everybody's.
LEMMA ClearSeen == ClearMutexPoison => Seen!ClearMutexPoison
BY DEF ClearMutexPoison, Seen!ClearMutexPoison, queueVars, callVars, constVars,
   Seen!queueVars, Seen!callVars, Seen!constVars, ownerSeen, parkedSeen, pcSeen

-----------------------------------------------------------------------------
\* Seen and S are the same instance of ContentionQueueProps, with and without
\* what is proved of it.
LEMMA SameNext == [Seen!Next]_(Seen!vars) <=> [S!Next]_(S!vars)
BY DEF Seen!syncVars, Seen!Lock, Seen!DropGuard, Seen!DropGuardUnwinding,
   Seen!UnlockAndPark, Seen!NotifyOne, Seen!CanRelock, Seen!FRONT_BIT,
   Seen!PANIC_BIT, Seen!NewTaskState, Seen!OrBitsAndNotify,
   Seen!wake_front_task, Seen!wake_front_task_panicking, Seen!WaitAgain,
   Seen!LeaveWait, Seen!queueVars, Seen!callVars, Seen!constVars, Seen!vars,
   Seen!Goto, Seen!SetOutcome, Seen!SetFate, Seen!SettleFates, Seen!NewHandle,
   Seen!Pop, Seen!HandleClearsPoison, Seen!Unlocked, Seen!ClosureReturns,
   Seen!ClosurePanics, Seen!RelockAndResume, Seen!RelockAndUnwind,
   Seen!CallbackReturns, Seen!CallbackPanics, Seen!HandleStep, Seen!SpendCall,
   Seen!UserLock, Seen!UserUnlock, Seen!UserPanic, Seen!ClosurePoisonsMutex,
   Seen!ClearMutexPoison, Seen!SpuriousWakeup, Seen!ClearQueuePoison,
   Seen!Enter, Seen!process, Seen!lock_and_process, Seen!LockIsPoisoned,
   Seen!try_acquire_front_fast, Seen!TakeFront, Seen!Push, Seen!PushAndWait,
   Seen!PushAborts, Seen!KeepWaiting, Seen!WaitResult, Seen!ReachFront,
   Seen!QueuePoisonPanic, Seen!AfterWait, Seen!TakeOwnValue,
   Seen!ReturnUnprocessed, Seen!MutexPoisonPanic, Seen!StartCallback,
   Seen!PassFront, Seen!PassFrontPanicking, Seen!CallEnds, Seen!HandOff,
   Seen!CatchUnwind, Seen!Terminated, Seen!CallStep, Seen!UserStep,
   Seen!EnvStep, Seen!Next, S!syncVars, S!Lock, S!DropGuard,
   S!DropGuardUnwinding, S!UnlockAndPark, S!NotifyOne, S!CanRelock,
   S!FRONT_BIT, S!PANIC_BIT, S!NewTaskState, S!OrBitsAndNotify,
   S!wake_front_task, S!wake_front_task_panicking, S!WaitAgain, S!LeaveWait,
   S!queueVars, S!callVars, S!constVars, S!vars, S!Goto, S!SetOutcome,
   S!SetFate, S!SettleFates, S!NewHandle, S!Pop, S!HandleClearsPoison,
   S!Unlocked, S!ClosureReturns, S!ClosurePanics, S!RelockAndResume,
   S!RelockAndUnwind, S!CallbackReturns, S!CallbackPanics, S!HandleStep,
   S!SpendCall, S!UserLock, S!UserUnlock, S!UserPanic, S!ClosurePoisonsMutex,
   S!ClearMutexPoison, S!SpuriousWakeup, S!ClearQueuePoison, S!Enter,
   S!process, S!lock_and_process, S!LockIsPoisoned, S!try_acquire_front_fast,
   S!TakeFront, S!Push, S!PushAndWait, S!PushAborts, S!KeepWaiting,
   S!WaitResult, S!ReachFront, S!QueuePoisonPanic, S!AfterWait, S!TakeOwnValue,
   S!ReturnUnprocessed, S!MutexPoisonPanic, S!StartCallback, S!PassFront,
   S!PassFrontPanicking, S!CallEnds, S!HandOff, S!CatchUnwind, S!Terminated,
   S!CallStep, S!UserStep, S!EnvStep, S!Next

LEMMA SameInit == Seen!Init <=> S!Init
BY DEF Seen!Init, Seen!SyncInit, Seen!BitsInit, S!Init, S!SyncInit, S!BitsInit

LEMMA SeenConstants == S!ConstantsAssumption
BY ConstantsAssumption
   DEF S!ConstantsAssumption, PanicOptions, AllFaults, S!PanicOptions,
       S!AllFaults

\* A new queue is seen as one.
LEMMA InitSeen == Init => Seen!Init
<1>1. ASSUME Init PROVE ownerSeen = NoThread /\ parkedSeen = {}
                        /\ pcSeen = [t \in Threads |-> "idle"]
  BY <1>1, NoThreadAssumption
     DEF Init, SyncInit, ownerSeen, parkedSeen, pcSeen
<1>2. QED
  BY <1>1 DEF Init, SyncInit, BitsInit, Seen!Init, Seen!SyncInit, Seen!BitsInit

LEMMA InitViewInv == Init => ViewInv
<1>1. Init => S!Init
  BY InitSeen, SameInit
<1>2. S!Init => S!IInv /\ S!PoisonInv
  BY S!InitIInv, S!PoisonInit, SeenConstants, NoThreadAssumption
<1>3. QED BY <1>1, <1>2 DEF Init, SyncInit, ViewInv, PC

\* What is seen of a queue keeps the invariant of a ContentionQueue.
LEMMA SeenKeepsInv ==
    ASSUME ViewInv, [Seen!Next]_(Seen!vars)
    PROVE  S!IInv' /\ S!PoisonInv'
<1>1. S!IInv /\ S!PoisonInv /\ [S!Next]_(S!vars)
  BY SameNext DEF ViewInv
<1>2. QED
  BY <1>1, S!StepIInv, S!PoisonStep, SeenConstants, NoThreadAssumption

\* A step in the queue, as the queue and as everybody else sees it.
LEMMA OwnStep ==
    ASSUME ViewInv, NEW t \in Threads, Inside(t), QueueStep(t), ~aborted
    PROVE  [Seen!Next]_(Seen!vars) /\ OwnMove(t) /\ ViewInv'
<1>1. [Seen!Next]_(Seen!vars)
  BY OwnStepSeen DEF Seen!Next
<1>2. OwnMove(t)
  BY StepOwnMove
<1>3. owner' \in Threads \cup {NoThread} /\ parked' \subseteq Threads
  BY <1>2 DEF ViewInv, OwnMove, MutexStep, OnlyOursPark
<1>4. pc' \in [Threads -> PC]
  BY <1>2 DEF ViewInv, OwnMove
<1>5. QED BY <1>1, <1>2, <1>3, <1>4, SeenKeepsInv DEF ViewInv

\* A step elsewhere.
LEMMA OtherStep ==
    ASSUME ViewInv, NEW t \in Threads, ElsewhereStep(t), ~aborted
    PROVE  [Seen!Next]_(Seen!vars) /\ ViewInv'
<1>1. [Seen!Next]_(Seen!vars)
  BY ElsewhereSeen DEF Seen!Next
<1>2. owner' \in Threads \cup {NoThread} /\ parked' \subseteq Threads
  BY DEF ViewInv, ElsewhereStep, MutexStep
<1>3. pc' \in [Threads -> PC]
  BY DEF ViewInv, ElsewhereStep, callVars
<1>4. QED BY <1>1, <1>2, <1>3, SeenKeepsInv DEF ViewInv

LEMMA ClearStep ==
    ASSUME ViewInv, ClearMutexPoison, ~aborted
    PROVE  [Seen!Next]_(Seen!vars) /\ ViewInv'
<1>1. [Seen!Next]_(Seen!vars)
  BY ClearSeen DEF Seen!Next
<1>2. /\ owner' \in Threads \cup {NoThread} /\ parked' \subseteq Threads
      /\ pc' \in [Threads -> PC]
  BY DEF ViewInv, ClearMutexPoison, callVars
<1>3. QED BY <1>1, <1>2, SeenKeepsInv DEF ViewInv

\* Nothing happens.
LEMMA StutterStep ==
    ASSUME ViewInv, UNCHANGED vars
    PROVE  UNCHANGED Seen!vars /\ ViewInv'
<1>1. UNCHANGED Seen!vars
  BY DEF vars, Seen!vars, ownerSeen, parkedSeen, pcSeen
<1>2. QED BY <1>1, SeenKeepsInv DEF ViewInv, vars

-----------------------------------------------------------------------------
\* The queue is as it is seen, where its line and its tasks are concerned.
QueueSafety ==
    /\ FrontExclusive
    /\ QueuedTasksAlive
    /\ WokenTaskIsHead
    /\ HandleAtFirstUnprocessed
    /\ NonesThenSomes

LEMMA SameFront == \A t \in Threads :
                    /\ S!Granted(t) <=> Granted(t)
                    /\ S!HasFront(t) <=> HasFront(t)
BY DEF S!HasFront, HasFront, S!Granted, Granted, S!FrontPcs, FrontPcs,
   S!FRONT_BIT, FRONT_BIT, pcSeen

LEMMA SeenSafety == ViewInv => QueueSafety
<1> SUFFICES ASSUME ViewInv PROVE QueueSafety
  OBVIOUS
<1> USE DEF ViewInv, S!IInv, S!QueueInv, S!ValueInv
<1>1. FrontExclusive
  BY SameFront DEF S!FrontExclusive, FrontExclusive
<1>2. \A t \in Threads : pc[t] # "idle" => pcSeen[t] = pc[t]
  BY DEF pcSeen
<1>3. \A t \in Threads : pc[t] = "waiting" <=> pcSeen[t] = "waiting"
  BY DEF pcSeen
<1>4. QueuedTasksAlive
  BY <1>3 DEF S!QueuedTasksAlive, QueuedTasksAlive
<1>5. WokenTaskIsHead
  <2>1. ASSUME NEW t \in Threads, FRONT_BIT \in bits[t]
        PROVE  queue # <<>> /\ t = Head(queue) /\ t \notin parked
    <3>1. queue # <<>> /\ t = Head(queue) /\ t \notin parkedSeen
      BY <2>1 DEF S!WokenTaskIsHead, S!FRONT_BIT, FRONT_BIT
    <3>2. pc[t] = "waiting"
      BY <3>1, HeadWaits
    <3>3. QED BY <3>1, <3>2 DEF parkedSeen
  <2>2. QED BY <2>1 DEF WokenTaskIsHead
<1>6. HandleAtFirstUnprocessed
  BY <1>2 DEF S!HandleAtFirstUnprocessed, HandleAtFirstUnprocessed,
     S!HandlePcs, HandlePcs
<1>7. NonesThenSomes
  BY <1>2 DEF S!NonesThenSomes, NonesThenSomes
<1>8. QED BY <1>1, <1>4, <1>5, <1>6, <1>7 DEF QueueSafety

\* It keeps the line that it is seen to keep.
LineIsSeen ==
    /\ S!holder = holder
    /\ S!line = line
    /\ S!merged = merged

LEMMA SameLine == S!IInv => LineIsSeen
<1> SUFFICES ASSUME S!IInv PROVE LineIsSeen
  OBVIOUS
<1>1. S!holder = holder
  BY SameFront DEF S!holder, holder
<1>2. S!line = line
  <2>1. queue \in Seq(Threads)
    BY DEF S!IInv, S!TypeOK
  <2>2. queue # <<>> => Head(queue) \in Threads
    BY <2>1
  <2>3. QED BY <2>2, SameFront DEF S!line, line
<1>3. S!merged = merged
  BY DEF S!merged, merged, pcSeen
<1>4. QED BY <1>1, <1>2, <1>3 DEF LineIsSeen

LEMMA SameFifo ==
    ASSUME LineIsSeen, LineIsSeen', [S!Fifo!Next]_(S!Fifo!fifoVars)
    PROVE  [Fifo!Next]_(Fifo!fifoVars)
BY DEF LineIsSeen, S!Fifo!Next, S!Fifo!TakeFront, S!Fifo!Join,
   S!Fifo!Merge, S!Fifo!Pass, S!Fifo!InLine, S!Fifo!fifoVars, Fifo!Next,
   Fifo!TakeFront, Fifo!Join, Fifo!Merge, Fifo!Pass, Fifo!InLine, Fifo!fifoVars

\* What is seen of a queue is a ContentionQueue.
LEMMA SeenIsS == Seen!Spec => S!Spec
<1>1. Seen!Init => S!Init
  BY SameInit
<1>2. [Seen!Next]_(Seen!vars) => [S!Next]_(S!vars)
  BY SameNext
<1>3. QED BY <1>1, <1>2, PTL DEF Seen!Spec, S!Spec

\* A queue that is seen as a ContentionQueue keeps a line.
THEOREM SeenIsFifo == Seen!Spec => ImplementsFifoFront
<1>1. S!Spec => []S!IInv
  BY S!Inductive, SeenConstants, NoThreadAssumption
<1>2. S!Spec => S!Fifo!Init /\ [][S!Fifo!Next]_(S!Fifo!fifoVars)
  BY S!QueueIsFifo, SeenConstants, NoThreadAssumption
     DEF S!ImplementsFifoFront, S!Fifo!Spec
<1>3. LineIsSeen /\ S!Fifo!Init => Fifo!Init
  BY DEF LineIsSeen, S!Fifo!Init, Fifo!Init
<1>4. LineIsSeen /\ LineIsSeen' /\ [S!Fifo!Next]_(S!Fifo!fifoVars) =>
        [Fifo!Next]_(Fifo!fifoVars)
  BY SameFifo
<1>5. QED
  BY <1>1, <1>2, <1>3, <1>4, SameLine, SeenIsS, PTL
     DEF ImplementsFifoFront, Fifo!Spec

\* It leaves no waiter to nobody: whoever is seen on the way to hand over is.
THEOREM SeenOrphans == Seen!Spec => []NoOrphanedWaiter
<1>1. S!Spec => []S!NoOrphanedWaiter
  BY S!NobodyIsOrphaned, SeenConstants, NoThreadAssumption
<1>2. ASSUME NEW t \in Threads
      PROVE  /\ S!LeakedGuard(t) <=> LeakedGuard(t)
             /\ S!CanHandOver(t) <=> CanHandOver(t)
  <2>1. S!LeakedGuard(t) <=> LeakedGuard(t)
    BY NoThreadAssumption DEF S!LeakedGuard, LeakedGuard, pcSeen, ownerSeen
  <2>2. Granted(t) => (t \in parkedSeen <=> t \in parked)
    BY DEF Granted, parkedSeen
  <2>3. pcSeen[t] \in S!FrontPcs <=> pc[t] \in FrontPcs
    BY DEF S!FrontPcs, FrontPcs, pcSeen
  <2>4. QED BY <2>1, <2>2, <2>3, SameFront DEF S!CanHandOver, CanHandOver
<1>3. S!NoOrphanedWaiter => NoOrphanedWaiter
  BY <1>2 DEF S!NoOrphanedWaiter, NoOrphanedWaiter
<1>4. QED BY <1>1, <1>3, SeenIsS, PTL

\* And does no more with a value than a ContentionQueue does.
THEOREM SeenFates == Seen!Spec => /\ []ValueNeitherLostNorRepeated
                                  /\ []SuccessMeansProcessed
                                  /\ HandedOutOnce
<1>1. S!Spec => /\ []S!ValueNeitherLostNorRepeated
                /\ []S!SuccessMeansProcessed
                /\ S!HandedOutOnce
  BY S!ValuesAreNeitherLostNorRepeated, S!SuccessIsReal,
     S!ValuesAreHandedOutOnce, SeenConstants, NoThreadAssumption
<1>2. S!ValueNeitherLostNorRepeated => ValueNeitherLostNorRepeated
  BY DEF S!ValueNeitherLostNorRepeated, ValueNeitherLostNorRepeated, pcSeen
<1>3. S!SuccessMeansProcessed => SuccessMeansProcessed
  BY DEF S!SuccessMeansProcessed, SuccessMeansProcessed, pcSeen
<1>4. [\A t \in Threads :
            fate'[t] = "inCallback" /\ fate[t] # "inCallback" =>
                fate[t] = "pending"]_(S!vars) =>
      [\A t \in Threads :
            fate'[t] = "inCallback" /\ fate[t] # "inCallback" =>
                fate[t] = "pending"]_vars
  BY DEF S!vars
<1>5. QED
  BY <1>1, <1>2, <1>3, <1>4, SeenIsS, PTL DEF S!HandedOutOnce, HandedOutOnce
==============================================================================
