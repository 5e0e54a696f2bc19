--------------------------- MODULE TaskFramesProofs ---------------------------
(***************************************************************************)
(* FramesInv is inductive, for any number of threads, and implies that the *)
(* queue's references never dangle, that its &muts do not alias and that   *)
(* nothing races on a TaskState.                                           *)
(*                                                                         *)
(* With it, and ValuesInv, TaskFrames implements FifoFront access by       *)
(* access: a push is a Join, the fast path a TakeFront, a take of a value  *)
(* a Merge, and the front is passed at the store of the front bit, before  *)
(* the notification.  No other access is visible in the line.              *)
(***************************************************************************)
EXTENDS TaskFrames, QueueLemmas

\* The queue was just made: nobody is in it.
LEMMA FramesInit == Init => FramesInv
<1> SUFFICES ASSUME Init PROVE FramesInv
  OBVIOUS
<1> USE DEF Init, BitsInit
<1>1. TypeOK
  <2>1. SyncTypeOK /\ BitsTypeOK /\ queue \in Seq(Threads)
    BY DEF SyncTypeOK, BitsTypeOK
  <2>2. pc \in [Threads -> PC]
    BY DEF PC
  <2>3. QED BY <2>1, <2>2 DEF TypeOK
<1>2. SectionInv /\ FrontInv /\ QueueInv /\ ReferenceInv
  BY DEF SectionInv, FrontInv, QueueInv, ReferenceInv, HasFront, GuardPcs,
     BorrowPcs, FrontPcs, QueuedPcs, FramePcs, PoppedPcs, CallbackPcs
<1>3. QED BY <1>1, <1>2 DEF FramesInv

\* Who stands in the queue is a thread, and so is whoever is woken.
LEMMA HeadIsQueued ==
    ASSUME TypeOK, QueueInv, queue # <<>>
    PROVE  /\ queue[1] \in Threads /\ Head(queue) = queue[1]
           /\ pc[queue[1]] \in QueuedPcs
           /\ Tail(queue) \in Seq(Threads)
<1>1. /\ Head(queue) \in Threads /\ Head(queue) = queue[1]
      /\ Tail(queue) \in Seq(Threads) /\ Len(queue) \in Nat \ {0}
  BY HeadTail DEF TypeOK
<1>2. QED BY <1>1 DEF QueueInv

\* Who is about to pop was woken at the head of the queue.
LEMMA WhoPopsIsHead ==
    ASSUME QueueInv, NEW t \in Threads, pc[t] = "popping"
    PROVE  queue # <<>> /\ t = queue[1] /\ HasFront(t)
<1>1. pc[t] \in QueuedPcs /\ pc[t] \notin PoppedPcs /\ pc[t] \in FrontPcs
  BY DEF QueuedPcs, PoppedPcs, FrontPcs
<1>2. FRONT_BIT \in bits[t] /\ \E i \in 1..Len(queue) : queue[i] = t
  BY <1>1 DEF QueueInv
<1>3. queue # <<>> /\ t = queue[1]
  BY <1>1, <1>2 DEF QueueInv
<1>4. QED BY <1>1, <1>3 DEF HasFront

\* Every access keeps the types.
LEMMA TypeStep == FramesInv /\ [Next]_vars => TypeOK'
<1> SUFFICES ASSUME FramesInv, [Next]_vars PROVE TypeOK'
  OBVIOUS
<1> USE NoThreadAssumption DEF FramesInv, TypeOK, SyncTypeOK, BitsTypeOK, PC
<1>1. ASSUME NEW t \in Threads, Waiting(t) PROVE TypeOK'
  <2>1. CASE LockAndEnter(t)
    BY <2>1 DEF LockAndEnter, Goto, Lock, dataVars, refVars
  <2>2. CASE LockQueuePoison(t)
    <3>1. CASE Goto(t, "idle", "clearing")
      BY <2>2, <3>1 DEF LockQueuePoison, Goto, Lock, get_mut, dataVars
    <3>2. CASE Goto(t, "unlocked", "clearingInside")
      BY <2>2, <3>2 DEF LockQueuePoison, Goto, Lock, get_mut, dataVars
    <3>3. QED BY <2>2, <3>1, <3>2 DEF LockQueuePoison
  <2>16. CASE clear_queue_poison(t)
    <3>1. CASE Goto(t, "clearing", "idle")
      BY <2>16, <3>1 DEF clear_queue_poison, Goto, EndBorrow, DropGuard
    <3>2. CASE Goto(t, "clearingInside", "unlocked")
      BY <2>16, <3>2 DEF clear_queue_poison, Goto, EndBorrow, DropGuard
    <3>3. QED BY <2>16, <3>1, <3>2 DEF clear_queue_poison
  <2>3. CASE BorrowForFastPath(t)
    BY <2>3 DEF BorrowForFastPath, Goto, get_mut, dataVars, syncVars
  <2>4. CASE try_acquire_front_fast(t)
    <3>1. PICK to \in {"begin", "newTask"} :
            pc[t] = "fastPath" /\ pc' = [pc EXCEPT ![t] = to]
      BY <2>4 DEF try_acquire_front_fast, Goto
    <3>2. QED BY <2>4, <3>1 DEF try_acquire_front_fast, EndBorrow, syncVars
  <2>5. CASE NewTask(t)
    BY <2>5 DEF NewTask, Goto, get_mut, NewTaskState, dataVars, syncVars
  <2>6. CASE PushBack(t)
    <3>1. Append(queue, t) \in Seq(Threads)
      BY AppendFacts
    <3>2. QED BY <2>6, <3>1 DEF PushBack, Goto, EndBorrow, syncVars
  <2>7. CASE Sleep(t)
    BY <2>7 DEF Sleep, Goto, UnlockAndPark, dataVars, refVars
  <2>8. CASE SpuriousWakeup(t)
    BY <2>8 DEF SpuriousWakeup, NotifyOne, dataVars, refVars
  <2>9. CASE WakeUp(t)
    BY <2>9 DEF WakeUp, Goto, CanRelock, dataVars, refVars
  <2>10. CASE ReadBits(t)
    <3>1. PICK to \in {"popping", "sleeping"} :
            pc[t] = "awake" /\ pc' = [pc EXCEPT ![t] = to]
      BY <2>10 DEF ReadBits, Goto
    <3>2. exclusive' = exclusive \/ exclusive' = exclusive \cup {t}
      BY <2>10 DEF ReadBits, get_mut
    <3>3. UNCHANGED <<syncVars, bits, dataVars, frames, task, loans, front>>
      BY <2>10 DEF ReadBits
    <3>4. QED BY <3>1, <3>2, <3>3 DEF syncVars, dataVars
  <2>11. CASE PopFront(t)
    <3>1. queue # <<>>
      BY <2>11 DEF PopFront, Goto, QueueInv, QueuedPcs
    <3>2. Tail(queue) \in Seq(Threads)
      BY <3>1, HeadIsQueued
    <3>3. QED BY <2>11, <3>2 DEF PopFront, Goto, EndBorrow, syncVars
  <2>17. CASE BorrowToCheck(t)
    BY <2>17 DEF BorrowToCheck, Goto, get_mut, dataVars, syncVars
  <2>12. CASE AfterWait(t)
    BY <2>12 DEF AfterWait, Goto, EndBorrow, DropTaskState, dataVars, syncVars
  <2>13. CASE QueuePoisonPanic(t)
    BY <2>13 DEF QueuePoisonPanic, Goto, EndBorrow, DropTaskState,
      DropGuardUnwinding, dataVars
  <2>14. CASE MutexPoisonPanic(t)
    BY <2>14 DEF MutexPoisonPanic, Goto, DropGuardUnwinding, dataVars, refVars
  <2>15. QED BY <1>1, <2>1, <2>2, <2>3, <2>4, <2>5, <2>6, <2>7, <2>8, <2>9,
    <2>10, <2>11, <2>12, <2>13, <2>14, <2>16, <2>17 DEF Waiting
<1>2. ASSUME NEW t \in Threads, Callback(t) PROVE TypeOK'
  <2>1. CASE StartCallback(t)
    BY <2>1 DEF StartCallback, Goto, get_mut, syncVars
  <2>2. CASE Pop(t)
    <3>1. /\ nextIdx[t] + 1 \in 1..Len(queue) /\ nextIdx[t] + 1 \in Nat
          /\ queue[nextIdx[t] + 1] \in Threads
      <4>1. nextIdx[t] \in Nat /\ Len(queue) \in Nat /\ nextIdx[t] < Len(queue)
        BY <2>2 DEF Pop, take
      <4>2. nextIdx[t] + 1 \in 1..Len(queue) /\ nextIdx[t] + 1 \in Nat
        BY <4>1
      <4>3. QED BY <4>2
    <3> DEFINE u == queue[nextIdx[t] + 1]
    <3>2. /\ value' = [value EXCEPT ![u] = FALSE]
          /\ loans' = [loans EXCEPT ![t] = @ \cup {u}]
          /\ nextIdx' = [nextIdx EXCEPT ![t] = @ + 1]
      BY <2>2 DEF Pop, take
    <3> HIDE DEF u
    <3>3. value' \in [Threads -> BOOLEAN]
      BY <3>2
    <3>4. u \in Threads
      BY <3>1 DEF u
    <3>5. loans' \in [Threads -> SUBSET Threads] /\ nextIdx' \in [Threads -> Nat]
      BY <3>2, <3>4
    <3>6. QED BY <2>2, <3>3, <3>5 DEF Pop, take, syncVars
  <2>10. CASE HandleClearsPoison(t)
    BY <2>10 DEF HandleClearsPoison, refVars, syncVars
  <2>3. CASE Unlocked(t)
    BY <2>3 DEF Unlocked, Goto, EndBorrow, DropGuard, dataVars
  <2>4. CASE ClosurePanics(t)
    BY <2>4 DEF ClosurePanics, Goto, dataVars, refVars, syncVars
  <2>5. CASE Relock(t)
    BY <2>5 DEF Relock, Goto, get_mut, Lock, dataVars
  <2>6. CASE CallbackReturns(t)
    BY <2>6 DEF CallbackReturns, Goto, EndCallback, dataVars, syncVars,
      EndBorrow
  <2>7. CASE CallbackPanics(t)
    BY <2>7 DEF CallbackPanics, Goto, EndCallback, dataVars, syncVars,
      EndBorrow
  <2>8. CASE RelockUnwinding(t)
    BY <2>8 DEF RelockUnwinding, Goto, EndCallback, Lock, dataVars, EndBorrow
  <2>9. QED BY <1>2, <2>1, <2>2, <2>3, <2>4, <2>5, <2>6, <2>7, <2>8,
    <2>10 DEF Callback
<1>3. ASSUME NEW t \in Threads, HandOver(t) PROVE TypeOK'
  <2>1. CASE LockToHandOver(t)
    BY <2>1 DEF LockToHandOver, Goto, Lock, get_mut
  <2>2. CASE BorrowToHandOver(t)
    BY <2>2 DEF BorrowToHandOver, Goto, get_mut, dataVars, syncVars
  <2>3. CASE ReleaseFront(t)
    BY <2>3 DEF ReleaseFront, Goto, EndBorrow, syncVars
  <2>4. CASE FindNext(t)
    <3>1. Head(queue) \in Threads
      BY <2>4, HeadIsQueued DEF FindNext, inner
    <3>2. QED BY <2>4, <3>1 DEF FindNext, inner, Goto, syncVars, dataVars
  <2>5. CASE OrBits(t)
    <3>1. bits' = [bits EXCEPT ![task[t]] = @ \cup {FRONT_BIT}]
      BY <2>5 DEF OrBits, OrBitsSilently
    <3>2. bits' \in [Threads -> SUBSET {FRONT_BIT, PANIC_BIT}]
      BY <3>1
    <3>3. QED BY <2>5, <3>2 DEF OrBits, OrBitsSilently, Goto, dataVars, refVars
  <2>6. CASE Notify(t)
    BY <2>6 DEF Notify, Goto, EndBorrow, NotifyOne, dataVars
  <2>7. CASE Release(t)
    BY <2>7 DEF Release, Goto, DropGuard, refVars
  <2>8. QED BY <1>3, <2>1, <2>2, <2>3, <2>4, <2>5, <2>6, <2>7 DEF HandOver
<1>4. CASE ClearMutexPoison
  BY <1>4 DEF ClearMutexPoison, dataVars, refVars
<1>5. CASE UNCHANGED vars
  BY <1>5 DEF vars, syncVars, dataVars, refVars
<1>6. QED BY <1>1, <1>2, <1>3, <1>4, <1>5 DEF Next

\* Every access keeps guard and borrows where they belong.
LEMMA SectionStep == FramesInv /\ [Next]_vars => SectionInv'
<1> SUFFICES ASSUME FramesInv, [Next]_vars PROVE SectionInv'
  OBVIOUS
<1> USE NoThreadAssumption DEF FramesInv, TypeOK, SyncTypeOK, SectionInv,
     GuardPcs, BorrowPcs, CallbackPcs
<1>1. ASSUME NEW t \in Threads, Waiting(t) PROVE SectionInv'
  <2>1. CASE LockAndEnter(t)
    BY <2>1 DEF LockAndEnter, Goto, Lock, dataVars, refVars
  <2>2. CASE LockQueuePoison(t)
    <3>1. CASE Goto(t, "idle", "clearing")
      BY <2>2, <3>1 DEF LockQueuePoison, Goto, Lock, get_mut, dataVars
    <3>2. CASE Goto(t, "unlocked", "clearingInside")
      BY <2>2, <3>2 DEF LockQueuePoison, Goto, Lock, get_mut, dataVars
    <3>3. QED BY <2>2, <3>1, <3>2 DEF LockQueuePoison
  <2>16. CASE clear_queue_poison(t)
    <3>1. CASE Goto(t, "clearing", "idle")
      BY <2>16, <3>1 DEF clear_queue_poison, Goto, EndBorrow, DropGuard
    <3>2. CASE Goto(t, "clearingInside", "unlocked")
      BY <2>16, <3>2 DEF clear_queue_poison, Goto, EndBorrow, DropGuard
    <3>3. QED BY <2>16, <3>1, <3>2 DEF clear_queue_poison
  <2>3. CASE BorrowForFastPath(t)
    BY <2>3 DEF BorrowForFastPath, Goto, get_mut, dataVars, syncVars
  <2>4. CASE try_acquire_front_fast(t)
    <3>1. PICK to \in {"begin", "newTask"} :
            pc[t] = "fastPath" /\ pc' = [pc EXCEPT ![t] = to]
      BY <2>4 DEF try_acquire_front_fast, Goto
    <3>2. QED BY <2>4, <3>1 DEF try_acquire_front_fast, EndBorrow, syncVars
  <2>5. CASE NewTask(t)
    BY <2>5 DEF NewTask, Goto, get_mut, NewTaskState, dataVars, syncVars
  <2>6. CASE PushBack(t)
    BY <2>6 DEF PushBack, Goto, EndBorrow, syncVars
  <2>7. CASE Sleep(t)
    BY <2>7 DEF Sleep, Goto, UnlockAndPark, dataVars, refVars
  <2>8. CASE SpuriousWakeup(t)
    BY <2>8 DEF SpuriousWakeup, NotifyOne, dataVars, refVars
  <2>9. CASE WakeUp(t)
    BY <2>9 DEF WakeUp, Goto, CanRelock, dataVars, refVars
  <2>10. CASE ReadBits(t)
    <3>1. \/ /\ pc[t] = "awake" /\ pc' = [pc EXCEPT ![t] = "popping"]
             /\ exclusive' = exclusive \cup {t}
          \/ /\ pc[t] = "awake" /\ pc' = [pc EXCEPT ![t] = "sleeping"]
             /\ exclusive' = exclusive
      BY <2>10 DEF ReadBits, Goto, get_mut
    <3>2. UNCHANGED <<syncVars, bits, dataVars, frames, task, loans, front>>
      BY <2>10 DEF ReadBits
    <3>3. UNCHANGED <<owner, front>>
      BY <3>2 DEF syncVars
    <3>4. CASE pc' = [pc EXCEPT ![t] = "popping"]
      BY <3>1, <3>3, <3>4
    <3>5. CASE pc' = [pc EXCEPT ![t] = "sleeping"]
      <4>1. t \notin exclusive /\ exclusive' = exclusive
        BY <3>1, <3>5
      <4>2. QED BY <3>1, <3>3, <3>5, <4>1
    <3>6. QED BY <3>1, <3>4, <3>5
  <2>11. CASE PopFront(t)
    BY <2>11 DEF PopFront, Goto, EndBorrow, syncVars
  <2>17. CASE BorrowToCheck(t)
    BY <2>17 DEF BorrowToCheck, Goto, get_mut, dataVars, syncVars
  <2>12. CASE AfterWait(t)
    BY <2>12 DEF AfterWait, Goto, EndBorrow, DropTaskState, dataVars, syncVars
  <2>13. CASE QueuePoisonPanic(t)
    BY <2>13 DEF QueuePoisonPanic, Goto, EndBorrow, DropTaskState,
      DropGuardUnwinding, dataVars
  <2>14. CASE MutexPoisonPanic(t)
    BY <2>14 DEF MutexPoisonPanic, Goto, DropGuardUnwinding, dataVars, refVars
  <2>15. QED BY <1>1, <2>1, <2>2, <2>3, <2>4, <2>5, <2>6, <2>7, <2>8, <2>9,
    <2>10, <2>11, <2>12, <2>13, <2>14, <2>16, <2>17 DEF Waiting
<1>2. ASSUME NEW t \in Threads, Callback(t) PROVE SectionInv'
  <2>1. CASE StartCallback(t)
    BY <2>1 DEF StartCallback, Goto, get_mut, syncVars
  <2>2. CASE Pop(t)
    BY <2>2 DEF Pop, take, syncVars
  <2>10. CASE HandleClearsPoison(t)
    BY <2>10 DEF HandleClearsPoison, refVars, syncVars
  <2>3. CASE Unlocked(t)
    BY <2>3 DEF Unlocked, Goto, EndBorrow, DropGuard, dataVars
  <2>4. CASE ClosurePanics(t)
    BY <2>4 DEF ClosurePanics, Goto, dataVars, refVars, syncVars
  <2>5. CASE Relock(t)
    BY <2>5 DEF Relock, Goto, get_mut, Lock, dataVars
  <2>6. CASE CallbackReturns(t)
    BY <2>6 DEF CallbackReturns, Goto, EndCallback, dataVars, syncVars,
      EndBorrow
  <2>7. CASE CallbackPanics(t)
    BY <2>7 DEF CallbackPanics, Goto, EndCallback, dataVars, syncVars,
      EndBorrow
  <2>8. CASE RelockUnwinding(t)
    BY <2>8 DEF RelockUnwinding, Goto, EndCallback, Lock, dataVars, EndBorrow
  <2>9. QED BY <1>2, <2>1, <2>2, <2>3, <2>4, <2>5, <2>6, <2>7, <2>8,
    <2>10 DEF Callback
<1>3. ASSUME NEW t \in Threads, HandOver(t) PROVE SectionInv'
  <2>1. CASE LockToHandOver(t)
    BY <2>1 DEF LockToHandOver, Goto, Lock, get_mut
  <2>2. CASE BorrowToHandOver(t)
    BY <2>2 DEF BorrowToHandOver, Goto, get_mut, dataVars, syncVars
  <2>3. CASE ReleaseFront(t)
    BY <2>3 DEF ReleaseFront, Goto, EndBorrow, syncVars
  <2>4. CASE FindNext(t)
    BY <2>4 DEF FindNext, inner, Goto, dataVars, syncVars
  <2>5. CASE OrBits(t)
    BY <2>5 DEF OrBits, Goto, OrBitsSilently, dataVars, refVars
  <2>6. CASE Notify(t)
    BY <2>6 DEF Notify, Goto, EndBorrow, NotifyOne, dataVars
  <2>7. CASE Release(t)
    BY <2>7 DEF Release, Goto, DropGuard, refVars
  <2>8. QED BY <1>3, <2>1, <2>2, <2>3, <2>4, <2>5, <2>6, <2>7 DEF HandOver
<1>4. CASE ClearMutexPoison
  BY <1>4 DEF ClearMutexPoison, dataVars, refVars
<1>5. CASE UNCHANGED vars
  BY <1>5 DEF vars, syncVars, dataVars, refVars
<1>6. QED BY <1>1, <1>2, <1>3, <1>4, <1>5 DEF Next

\* Every access keeps the references to tasks and values good.
LEMMA ReferenceStep == FramesInv /\ [Next]_vars => ReferenceInv'
<1> SUFFICES ASSUME FramesInv, [Next]_vars PROVE ReferenceInv'
  OBVIOUS
<1> USE NoThreadAssumption DEF FramesInv, TypeOK, SyncTypeOK, ReferenceInv,
     QueuedPcs, CallbackPcs
<1>1. ASSUME NEW t \in Threads, Waiting(t) PROVE ReferenceInv'
  <2>1. CASE LockAndEnter(t)
    BY <2>1 DEF LockAndEnter, Goto, Lock, dataVars, refVars
  <2>2. CASE LockQueuePoison(t)
    <3>1. CASE Goto(t, "idle", "clearing")
      BY <2>2, <3>1 DEF LockQueuePoison, Goto, Lock, get_mut, dataVars
    <3>2. CASE Goto(t, "unlocked", "clearingInside")
      BY <2>2, <3>2 DEF LockQueuePoison, Goto, Lock, get_mut, dataVars
    <3>3. QED BY <2>2, <3>1, <3>2 DEF LockQueuePoison
  <2>16. CASE clear_queue_poison(t)
    <3>1. CASE Goto(t, "clearing", "idle")
      BY <2>16, <3>1 DEF clear_queue_poison, Goto, EndBorrow, DropGuard
    <3>2. CASE Goto(t, "clearingInside", "unlocked")
      BY <2>16, <3>2 DEF clear_queue_poison, Goto, EndBorrow, DropGuard
    <3>3. QED BY <2>16, <3>1, <3>2 DEF clear_queue_poison
  <2>3. CASE BorrowForFastPath(t)
    BY <2>3 DEF BorrowForFastPath, Goto, get_mut, dataVars, syncVars
  <2>4. CASE try_acquire_front_fast(t)
    <3>1. PICK to \in {"begin", "newTask"} :
            pc[t] = "fastPath" /\ pc' = [pc EXCEPT ![t] = to]
      BY <2>4 DEF try_acquire_front_fast, Goto
    <3>2. QED BY <2>4, <3>1 DEF try_acquire_front_fast, EndBorrow, syncVars
  <2>5. CASE NewTask(t)
    BY <2>5 DEF NewTask, Goto, get_mut, NewTaskState, dataVars, syncVars
  <2>6. CASE PushBack(t)
    <3>1. /\ pc[t] = "pushing" /\ pc' = [pc EXCEPT ![t] = "sleeping"]
          /\ UNCHANGED <<task, loans>>
      BY <2>6 DEF PushBack, Goto
    <3>2. \A v \in Threads : pc[v] \notin {"waking", "notifying"}
      BY <3>1 DEF SectionInv, GuardPcs, BorrowPcs
    <3>3. QED BY <3>1, <3>2
  <2>7. CASE Sleep(t)
    BY <2>7 DEF Sleep, Goto, UnlockAndPark, dataVars, refVars
  <2>8. CASE SpuriousWakeup(t)
    BY <2>8 DEF SpuriousWakeup, NotifyOne, dataVars, refVars
  <2>9. CASE WakeUp(t)
    BY <2>9 DEF WakeUp, Goto, CanRelock, dataVars, refVars
  <2>10. CASE ReadBits(t)
    <3>1. PICK to \in {"popping", "sleeping"} :
            pc[t] = "awake" /\ pc' = [pc EXCEPT ![t] = to]
      BY <2>10 DEF ReadBits, Goto
    <3>2. exclusive' = exclusive \/ exclusive' = exclusive \cup {t}
      BY <2>10 DEF ReadBits, get_mut
    <3>3. UNCHANGED <<syncVars, bits, dataVars, frames, task, loans, front>>
      BY <2>10 DEF ReadBits
    <3>4. QED BY <3>1, <3>2, <3>3 DEF syncVars, dataVars
  <2>11. CASE PopFront(t)
    <3>1. /\ pc[t] = "popping" /\ pc' = [pc EXCEPT ![t] = "popped"]
          /\ UNCHANGED <<task, loans>>
      BY <2>11 DEF PopFront, Goto
    <3>2. \A v \in Threads : pc[v] \notin {"waking", "notifying"}
      BY <3>1 DEF SectionInv, GuardPcs, BorrowPcs
    <3>3. \A v \in Threads : pc[v] \notin CallbackPcs
      BY <3>1 DEF FrontInv, HasFront, FrontPcs, PoppedPcs
    <3>4. QED BY <3>1, <3>2, <3>3
  <2>17. CASE BorrowToCheck(t)
    BY <2>17 DEF BorrowToCheck, Goto, get_mut, dataVars, syncVars
  <2>12. CASE AfterWait(t)
    BY <2>12 DEF AfterWait, Goto, EndBorrow, DropTaskState, dataVars, syncVars
  <2>13. CASE QueuePoisonPanic(t)
    BY <2>13 DEF QueuePoisonPanic, Goto, EndBorrow, DropTaskState,
      DropGuardUnwinding, dataVars
  <2>14. CASE MutexPoisonPanic(t)
    BY <2>14 DEF MutexPoisonPanic, Goto, DropGuardUnwinding, dataVars, refVars
  <2>15. QED BY <1>1, <2>1, <2>2, <2>3, <2>4, <2>5, <2>6, <2>7, <2>8, <2>9,
    <2>10, <2>11, <2>12, <2>13, <2>14, <2>16, <2>17 DEF Waiting
<1>2. ASSUME NEW t \in Threads, Callback(t) PROVE ReferenceInv'
  <2>1. CASE StartCallback(t)
    BY <2>1 DEF StartCallback, Goto, get_mut, syncVars
  <2>2. CASE Pop(t)
    <3> DEFINE u == queue[nextIdx[t] + 1]
    <3>1. nextIdx[t] + 1 \in 1..Len(queue)
      <4>1. nextIdx[t] \in Nat /\ Len(queue) \in Nat /\ nextIdx[t] < Len(queue)
        BY <2>2 DEF Pop, take
      <4>2. QED BY <4>1
    <3>2. u \in Threads /\ pc[u] \in QueuedPcs
      BY <3>1 DEF QueueInv
    <3>3. /\ pc[t] = "processing" /\ UNCHANGED <<pc, task, queue>>
          /\ loans' = [loans EXCEPT ![t] = @ \cup {u}]
      BY <2>2 DEF Pop, take
    <3> HIDE DEF u
    <3>4. QED BY <3>2, <3>3
  <2>10. CASE HandleClearsPoison(t)
    BY <2>10 DEF HandleClearsPoison, refVars, syncVars
  <2>3. CASE Unlocked(t)
    BY <2>3 DEF Unlocked, Goto, EndBorrow, DropGuard, dataVars
  <2>4. CASE ClosurePanics(t)
    BY <2>4 DEF ClosurePanics, Goto, dataVars, refVars, syncVars
  <2>5. CASE Relock(t)
    BY <2>5 DEF Relock, Goto, get_mut, Lock, dataVars
  <2>6. CASE CallbackReturns(t)
    BY <2>6 DEF CallbackReturns, Goto, EndCallback, dataVars, syncVars,
      EndBorrow
  <2>7. CASE CallbackPanics(t)
    BY <2>7 DEF CallbackPanics, Goto, EndCallback, dataVars, syncVars,
      EndBorrow
  <2>8. CASE RelockUnwinding(t)
    BY <2>8 DEF RelockUnwinding, Goto, EndCallback, Lock, dataVars, EndBorrow
  <2>9. QED BY <1>2, <2>1, <2>2, <2>3, <2>4, <2>5, <2>6, <2>7, <2>8,
    <2>10 DEF Callback
<1>3. ASSUME NEW t \in Threads, HandOver(t) PROVE ReferenceInv'
  <2>1. CASE LockToHandOver(t)
    BY <2>1 DEF LockToHandOver, Goto, Lock, get_mut
  <2>2. CASE BorrowToHandOver(t)
    BY <2>2 DEF BorrowToHandOver, Goto, get_mut, dataVars, syncVars
  <2>3. CASE ReleaseFront(t)
    BY <2>3 DEF ReleaseFront, Goto, EndBorrow, syncVars
  <2>4. CASE FindNext(t)
    BY <2>4 DEF FindNext, inner, Goto, dataVars, syncVars
  <2>5. CASE OrBits(t)
    BY <2>5 DEF OrBits, Goto, OrBitsSilently, dataVars, refVars
  <2>6. CASE Notify(t)
    BY <2>6 DEF Notify, Goto, EndBorrow, NotifyOne, dataVars
  <2>7. CASE Release(t)
    BY <2>7 DEF Release, Goto, DropGuard, refVars
  <2>8. QED BY <1>3, <2>1, <2>2, <2>3, <2>4, <2>5, <2>6, <2>7 DEF HandOver
<1>4. CASE ClearMutexPoison
  BY <1>4 DEF ClearMutexPoison, dataVars, refVars
<1>5. CASE UNCHANGED vars
  BY <1>5 DEF vars, syncVars, dataVars, refVars
<1>6. QED BY <1>1, <1>2, <1>3, <1>4, <1>5 DEF Next

\* An access that moves neither the front nor the queue.
QuietAccess ==
    /\ UNCHANGED <<queue, frontLocked>>
    /\ \A u \in Threads :
        /\ HasFront(u)' <=> HasFront(u)
        /\ pc'[u] \in QueuedPcs <=> pc[u] \in QueuedPcs
        /\ pc'[u] \in FramePcs <=> u \in frames'
        /\ FRONT_BIT \in bits'[u] =>
            /\ FRONT_BIT \in bits[u]
            /\ \/ pc'[u] \in PoppedPcs
               \/ pc'[u] \in QueuedPcs /\ pc[u] \notin PoppedPcs
        /\ pc'[u] = "popping" => FRONT_BIT \in bits'[u]
        /\ pc'[u] \in {"newTask", "pushing"} => frontLocked

AccessKinds ==
    \/ QuietAccess
    \/ \E t \in Threads :
        \/ pc[t] = "fastPath" /\ try_acquire_front_fast(t)
        \/ PushBack(t)
        \/ PopFront(t)
        \/ ReleaseFront(t)
        \/ OrBits(t)

\* Five kinds of access matter to front and queue; the others are quiet.
LEMMA AccessCases == FramesInv /\ [Next]_vars => AccessKinds
<1> SUFFICES ASSUME FramesInv, [Next]_vars PROVE AccessKinds
  OBVIOUS
<1>0. \A u \in Threads :
        /\ pc[u] \in FramePcs <=> u \in frames
        /\ FRONT_BIT \in bits[u] => pc[u] \in PoppedPcs \cup QueuedPcs
        /\ pc[u] = "popping" => FRONT_BIT \in bits[u]
        /\ pc[u] \in {"newTask", "pushing"} => frontLocked
  BY DEF FramesInv, QueueInv, FrontInv
<1> USE <1>0 DEF FramesInv, TypeOK, SyncTypeOK, BitsTypeOK, HasFront,
     FrontPcs, CallbackPcs, QueuedPcs, FramePcs, PoppedPcs
<1> SUFFICES ASSUME ~\E t \in Threads :
                        \/ pc[t] = "fastPath" /\ try_acquire_front_fast(t)
                        \/ PushBack(t)
                        \/ PopFront(t)
                        \/ ReleaseFront(t)
                        \/ OrBits(t)
             PROVE  QuietAccess
  BY DEF AccessKinds
<1> USE DEF QuietAccess
<1>1. ASSUME NEW t \in Threads, Waiting(t) PROVE QuietAccess
  <2>1. CASE LockAndEnter(t)
    BY <2>1 DEF LockAndEnter, Goto, Lock, dataVars, refVars
  <2>2. CASE LockQueuePoison(t)
    <3>1. CASE Goto(t, "idle", "clearing")
      BY <2>2, <3>1 DEF LockQueuePoison, Goto, Lock, get_mut, dataVars
    <3>2. CASE Goto(t, "unlocked", "clearingInside")
      BY <2>2, <3>2 DEF LockQueuePoison, Goto, Lock, get_mut, dataVars
    <3>3. QED BY <2>2, <3>1, <3>2 DEF LockQueuePoison
  <2>16. CASE clear_queue_poison(t)
    <3>1. CASE Goto(t, "clearing", "idle")
      BY <2>16, <3>1 DEF clear_queue_poison, Goto, EndBorrow, DropGuard
    <3>2. CASE Goto(t, "clearingInside", "unlocked")
      BY <2>16, <3>2 DEF clear_queue_poison, Goto, EndBorrow, DropGuard
    <3>3. QED BY <2>16, <3>1, <3>2 DEF clear_queue_poison
  <2>3. CASE BorrowForFastPath(t)
    BY <2>3 DEF BorrowForFastPath, Goto, get_mut, dataVars, syncVars
  <2>4. CASE try_acquire_front_fast(t)
    BY <2>4 DEF try_acquire_front_fast, Goto
  <2>5. CASE NewTask(t)
    BY <2>5 DEF NewTask, Goto, get_mut, NewTaskState, dataVars, syncVars
  <2>6. CASE PushBack(t)
    BY <2>6
  <2>7. CASE Sleep(t)
    BY <2>7 DEF Sleep, Goto, UnlockAndPark, dataVars, refVars
  <2>8. CASE SpuriousWakeup(t)
    BY <2>8 DEF SpuriousWakeup, NotifyOne, dataVars, refVars
  <2>9. CASE WakeUp(t)
    BY <2>9 DEF WakeUp, Goto, CanRelock, dataVars, refVars
  <2>10. CASE ReadBits(t)
    BY <2>10 DEF ReadBits, Goto, get_mut, dataVars, syncVars
  <2>11. CASE PopFront(t)
    BY <2>11
  <2>17. CASE BorrowToCheck(t)
    BY <2>17 DEF BorrowToCheck, Goto, get_mut, dataVars, syncVars
  <2>12. CASE AfterWait(t)
    BY <2>12 DEF AfterWait, Goto, EndBorrow, DropTaskState, dataVars, syncVars
  <2>13. CASE QueuePoisonPanic(t)
    BY <2>13 DEF QueuePoisonPanic, Goto, EndBorrow, DropTaskState,
      DropGuardUnwinding, dataVars
  <2>14. CASE MutexPoisonPanic(t)
    BY <2>14 DEF MutexPoisonPanic, Goto, DropGuardUnwinding, dataVars, refVars
  <2>15. QED BY <1>1, <2>1, <2>2, <2>3, <2>4, <2>5, <2>6, <2>7, <2>8, <2>9,
    <2>10, <2>11, <2>12, <2>13, <2>14, <2>16, <2>17 DEF Waiting
<1>2. ASSUME NEW t \in Threads, Callback(t) PROVE QuietAccess
  <2>1. CASE StartCallback(t)
    BY <2>1 DEF StartCallback, Goto, get_mut, syncVars
  <2>2. CASE Pop(t)
    BY <2>2 DEF Pop, take, syncVars
  <2>10. CASE HandleClearsPoison(t)
    BY <2>10 DEF HandleClearsPoison, refVars, syncVars
  <2>3. CASE Unlocked(t)
    BY <2>3 DEF Unlocked, Goto, EndBorrow, DropGuard, dataVars
  <2>4. CASE ClosurePanics(t)
    BY <2>4 DEF ClosurePanics, Goto, dataVars, refVars, syncVars
  <2>5. CASE Relock(t)
    BY <2>5 DEF Relock, Goto, get_mut, Lock, dataVars
  <2>6. CASE CallbackReturns(t)
    BY <2>6 DEF CallbackReturns, Goto, EndCallback, dataVars, syncVars,
      EndBorrow
  <2>7. CASE CallbackPanics(t)
    BY <2>7 DEF CallbackPanics, Goto, EndCallback, dataVars, syncVars,
      EndBorrow
  <2>8. CASE RelockUnwinding(t)
    BY <2>8 DEF RelockUnwinding, Goto, EndCallback, Lock, dataVars, EndBorrow
  <2>9. QED BY <1>2, <2>1, <2>2, <2>3, <2>4, <2>5, <2>6, <2>7, <2>8,
    <2>10 DEF Callback
<1>3. ASSUME NEW t \in Threads, HandOver(t) PROVE QuietAccess
  <2>1. CASE LockToHandOver(t)
    BY <2>1 DEF LockToHandOver, Goto, Lock, get_mut
  <2>2. CASE BorrowToHandOver(t)
    BY <2>2 DEF BorrowToHandOver, Goto, get_mut, dataVars, syncVars
  <2>3. CASE ReleaseFront(t)
    BY <2>3
  <2>4. CASE FindNext(t)
    BY <2>4 DEF FindNext, inner, Goto, dataVars, syncVars
  <2>5. CASE OrBits(t)
    BY <2>5
  <2>6. CASE Notify(t)
    BY <2>6 DEF Notify, Goto, EndBorrow, NotifyOne, dataVars
  <2>7. CASE Release(t)
    BY <2>7 DEF Release, Goto, DropGuard, refVars
  <2>8. QED BY <1>3, <2>1, <2>2, <2>3, <2>4, <2>5, <2>6, <2>7 DEF HandOver
<1>4. CASE ClearMutexPoison
  BY <1>4 DEF ClearMutexPoison, dataVars, refVars
<1>5. CASE UNCHANGED vars
  BY <1>5 DEF vars, syncVars, dataVars, refVars
<1>6. QED BY <1>1, <1>2, <1>3, <1>4, <1>5 DEF Next

\* A quiet access keeps who has the front and who waits.
LEMMA QuietAccessKeeps ==
    ASSUME FrontInv, QueueInv, QuietAccess
    PROVE  FrontInv' /\ QueueInv'
<1>1. FrontInv'
  BY DEF QuietAccess, FrontInv
<1>2. QueueInv'
  BY DEF QuietAccess, QueueInv
<1>3. QED BY <1>1, <1>2

\* The fast path: the front is free and nobody waits, or it is left alone.
LEMMA FastPathKeeps ==
    ASSUME FramesInv, NEW t \in Threads, pc[t] = "fastPath",
           try_acquire_front_fast(t)
    PROVE  FrontInv' /\ QueueInv'
<1> USE DEF FramesInv, TypeOK
<1>1. PICK to \in {"begin", "newTask"} :
        /\ pc' = [pc EXCEPT ![t] = to]
        /\ to = "begin" <=> ~frontLocked
        /\ frontLocked'
        /\ UNCHANGED <<bits, queue, frames>>
  BY DEF try_acquire_front_fast, Goto
<1>2. \A u \in Threads :
        /\ HasFront(u)' <=> HasFront(u) \/ (u = t /\ ~frontLocked)
        /\ pc'[u] \in QueuedPcs <=> pc[u] \in QueuedPcs
        /\ pc'[u] \in FramePcs <=> pc[u] \in FramePcs
        /\ pc'[u] \in PoppedPcs <=> pc[u] \in PoppedPcs
        /\ pc'[u] = "popping" <=> pc[u] = "popping"
  BY <1>1 DEF HasFront, FrontPcs, CallbackPcs, QueuedPcs, FramePcs, PoppedPcs
<1>3. FrontInv'
  BY <1>1, <1>2 DEF FrontInv
<1>4. QueueInv'
  BY <1>1, <1>2 DEF QueueInv
<1>5. QED BY <1>3, <1>4

\* A push: t is in the queue, behind all others, and was not woken.
LEMMA PushBackKeeps ==
    ASSUME FramesInv, NEW t \in Threads, PushBack(t)
    PROVE  FrontInv' /\ QueueInv'
<1> USE DEF FramesInv, TypeOK, BitsTypeOK
<1>1. /\ pc[t] = "pushing" /\ pc' = [pc EXCEPT ![t] = "sleeping"]
      /\ queue' = Append(queue, t)
      /\ UNCHANGED <<bits, frontLocked, frames>>
  BY DEF PushBack, Goto
<1>2. FRONT_BIT \notin bits[t] /\ \A i \in 1..Len(queue) : queue[i] # t
  BY <1>1 DEF QueueInv, QueuedPcs, PoppedPcs
<1>3. \A u \in Threads :
        /\ HasFront(u)' <=> HasFront(u)
        /\ pc'[u] \in QueuedPcs <=> u = t \/ pc[u] \in QueuedPcs
        /\ pc'[u] \in FramePcs <=> pc[u] \in FramePcs
        /\ u # t => pc'[u] = pc[u]
  BY <1>1, <1>2 DEF HasFront, FrontPcs, CallbackPcs, QueuedPcs, FramePcs,
     PoppedPcs
<1>4. (\E u \in Threads : HasFront(u)) /\ FrontInv'
  BY <1>1, <1>3 DEF FrontInv
<1>5. queue # <<>> => queue'[1] = queue[1]
  BY <1>1, HeadTail, AppendFacts
<1>6. QueueInv'
  <2>1. /\ \A i, j \in 1..Len(queue') : queue'[i] = queue'[j] => i = j
        /\ \A u : (\E i \in 1..Len(queue') : queue'[i] = u) <=>
                    u = t \/ \E i \in 1..Len(queue) : queue[i] = u
    BY <1>1, <1>2, AppendMembers DEF QueueInv
  <2>2. ASSUME NEW u \in Threads, FRONT_BIT \in bits'[u]
        PROVE  pc'[u] \in PoppedPcs \/ (pc'[u] \in QueuedPcs /\ u = queue'[1])
    <3>1. /\ u # t
          /\ pc[u] \in PoppedPcs \/ (pc[u] \in QueuedPcs /\ u = queue[1])
      BY <1>1, <1>2, <2>2 DEF QueueInv
    <3>2. pc[u] \in QueuedPcs => queue # <<>>
      BY DEF QueueInv
    <3>3. QED BY <1>3, <1>5, <3>1, <3>2
  <2>3. \A u \in Threads : pc'[u] \in QueuedPcs <=> \E i \in 1..Len(queue') : queue'[i] = u
    BY <1>3, <2>1 DEF QueueInv
  <2>4. \A u \in Threads :
            /\ pc'[u] \in FramePcs <=> u \in frames'
            /\ pc'[u] = "popping" => FRONT_BIT \in bits'[u]
    BY <1>1, <1>3 DEF QueueInv
  <2>5. \E u \in Threads : HasFront(u)'
    BY <1>3, <1>4
  <2>6. QED BY <2>1, <2>2, <2>3, <2>4, <2>5 DEF QueueInv
<1>7. QED BY <1>4, <1>6

\* The end of a wait: what t pops is its own task.
LEMMA PopFrontKeeps ==
    ASSUME FramesInv, NEW t \in Threads, PopFront(t)
    PROVE  FrontInv' /\ QueueInv'
<1> USE DEF FramesInv, TypeOK, BitsTypeOK
<1>1. /\ pc[t] = "popping" /\ pc' = [pc EXCEPT ![t] = "popped"]
      /\ queue' = Tail(queue)
      /\ UNCHANGED <<bits, frontLocked, frames>>
  BY DEF PopFront, Goto
<1>2. queue # <<>> /\ t = queue[1] /\ HasFront(t)
  BY <1>1, WhoPopsIsHead
<1>3. \A u \in Threads :
        /\ HasFront(u)' <=> HasFront(u)
        /\ pc'[u] \in QueuedPcs <=> u # t /\ pc[u] \in QueuedPcs
        /\ pc'[u] \in FramePcs <=> pc[u] \in FramePcs
        /\ u # t => pc'[u] = pc[u]
  BY <1>1 DEF HasFront, FrontPcs, CallbackPcs, QueuedPcs, FramePcs, PoppedPcs
<1>4. FrontInv'
  BY <1>1, <1>3 DEF FrontInv
<1>5. QueueInv'
  <2>1. /\ \A i, j \in 1..Len(queue') : queue'[i] = queue'[j] => i = j
        /\ \A i \in 1..Len(queue') :
            i + 1 \in 1..Len(queue) /\ queue[i + 1] = queue'[i] /\ queue'[i] # queue[1]
        /\ \A i \in 1..Len(queue) :
            queue[i] # queue[1] => i - 1 \in 1..Len(queue') /\ queue'[i - 1] = queue[i]
    <3>1. queue \in Seq(Threads) /\ queue # <<>>
      BY <1>2
    <3>2. \A i, j \in 1..Len(queue) : queue[i] = queue[j] => i = j
      BY DEF QueueInv
    <3>3. /\ Len(queue') = Len(queue) - 1 /\ queue' \in Seq(Threads)
          /\ \A i \in 1..Len(queue') : queue'[i] = queue[i + 1]
      BY <1>1, <3>1, HeadTail
    <3>4. QED BY ONLY <3>1, <3>2, <3>3, TailMembers
  <2>2. \A u \in Threads :
            FRONT_BIT \in bits'[u] => u = t \/ pc'[u] \in PoppedPcs
    BY <1>1, <1>2 DEF QueueInv
  <2>3. ASSUME NEW u \in Threads
        PROVE  pc'[u] \in QueuedPcs <=> \E i \in 1..Len(queue') : queue'[i] = u
    <3>1. pc[u] \in QueuedPcs <=> \E i \in 1..Len(queue) : queue[i] = u
      BY DEF QueueInv
    <3>2. ASSUME NEW i \in 1..Len(queue'), queue'[i] = u
          PROVE  u # t /\ i + 1 \in 1..Len(queue) /\ queue[i + 1] = u
      BY <1>2, <2>1, <3>2
    <3>3. ASSUME NEW i \in 1..Len(queue), queue[i] = u, u # t
          PROVE  i - 1 \in 1..Len(queue') /\ queue'[i - 1] = u
      BY <1>2, <2>1, <3>3
    <3>4. QED BY <1>3, <3>1, <3>2, <3>3
  <2>4. \A u \in Threads :
            /\ pc'[u] \in FramePcs <=> u \in frames'
            /\ pc'[u] = "popping" => FRONT_BIT \in bits'[u]
    BY <1>1, <1>3 DEF QueueInv
  <2>5. (\E u \in Threads : HasFront(u)') /\ pc'[t] \in PoppedPcs
    BY <1>1, <1>2, <1>3 DEF PoppedPcs
  <2>6. QED BY <2>1, <2>2, <2>3, <2>4, <2>5 DEF QueueInv
<1>6. QED BY <1>4, <1>5

\* Nobody waits: the front is released.
LEMMA ReleaseFrontKeeps ==
    ASSUME FramesInv, NEW t \in Threads, ReleaseFront(t)
    PROVE  FrontInv' /\ QueueInv'
<1> USE DEF FramesInv, TypeOK
<1>1. /\ pc[t] = "handOver" /\ pc' = [pc EXCEPT ![t] = "release"]
      /\ ~frontLocked'
      /\ UNCHANGED <<bits, queue, frames>>
      /\ queue = <<>>
  BY DEF ReleaseFront, Goto
<1>2. owner = t /\ HasFront(t)
  BY <1>1 DEF SectionInv, GuardPcs, BorrowPcs, HasFront, FrontPcs, PoppedPcs
<1>3. \A u \in Threads :
        /\ ~HasFront(u)'
        /\ pc'[u] \in QueuedPcs <=> pc[u] \in QueuedPcs
        /\ pc'[u] \in FramePcs <=> pc[u] \in FramePcs
        /\ pc'[u] \in PoppedPcs <=> pc[u] \in PoppedPcs
        /\ pc'[u] = "popping" <=> pc[u] = "popping"
        /\ pc'[u] \notin {"newTask", "pushing"}
  <2>1. \A u \in Threads : HasFront(u) => u = t
    BY <1>2 DEF FrontInv
  <2>2. \A u \in Threads : u # t => pc[u] \notin {"newTask", "pushing"}
    BY <1>2 DEF SectionInv, GuardPcs, BorrowPcs
  <2>3. QED
    BY <1>1, <2>1, <2>2 DEF HasFront, FrontPcs, CallbackPcs, QueuedPcs,
       FramePcs, PoppedPcs
<1>4. FrontInv'
  BY <1>1, <1>3 DEF FrontInv
<1>5. QueueInv'
  BY <1>1, <1>3 DEF QueueInv
<1>6. QED BY <1>4, <1>5

\* The front bit is set in the word of the head: the front moves to it.
LEMMA OrBitsKeeps ==
    ASSUME FramesInv, NEW t \in Threads, OrBits(t)
    PROVE  FrontInv' /\ QueueInv'
<1> USE DEF FramesInv, TypeOK, BitsTypeOK
<1>1. /\ pc[t] = "waking" /\ pc' = [pc EXCEPT ![t] = "notifying"]
      /\ bits' = [bits EXCEPT ![task[t]] = @ \cup {FRONT_BIT}]
      /\ UNCHANGED <<queue, frontLocked, frames>>
  BY DEF OrBits, OrBitsSilently, Goto, dataVars, refVars
<1>2. task[t] = queue[1] /\ queue # <<>>
  BY <1>1 DEF ReferenceInv
<1>3. PICK h \in Threads : h = queue[1] /\ h = task[t] /\ pc[h] \in QueuedPcs
  BY <1>2, HeadIsQueued
<1>4. HasFront(t) /\ \A u \in Threads : HasFront(u) => u = t
  BY <1>1 DEF HasFront, FrontPcs, PoppedPcs, FrontInv
<1>5. h # t /\ \A u \in Threads :
        /\ pc'[u] \in QueuedPcs <=> pc[u] \in QueuedPcs
        /\ pc'[u] \in FramePcs <=> pc[u] \in FramePcs
        /\ pc'[u] \in PoppedPcs <=> pc[u] \in PoppedPcs
        /\ pc'[u] = "popping" <=> pc[u] = "popping"
        /\ pc'[u] \in {"newTask", "pushing"} <=> pc[u] \in {"newTask", "pushing"}
  BY <1>1, <1>3 DEF QueuedPcs, FramePcs, PoppedPcs
<1>6. \A u \in Threads : FRONT_BIT \in bits'[u] <=> u = h \/ FRONT_BIT \in bits[u]
  BY <1>1, <1>2, <1>3
<1>7. \A u \in Threads : HasFront(u)' <=> u = h
  <2>1. HasFront(h)'
    BY <1>3, <1>5, <1>6 DEF HasFront
  <2>2. ASSUME NEW u \in Threads, u # h PROVE ~HasFront(u)'
    <3>1. CASE u = t
      BY <1>1, <3>1 DEF HasFront, FrontPcs, PoppedPcs, CallbackPcs, QueuedPcs
    <3>2. CASE u # t
      <4>1. ~HasFront(u) /\ pc'[u] = pc[u]
        BY <1>1, <1>4, <3>2
      <4>2. QED BY <1>6, <2>2, <4>1 DEF HasFront
    <3>3. QED BY <3>1, <3>2
  <2>3. QED BY <2>1, <2>2
<1>8. FrontInv'
  BY <1>1, <1>3, <1>4, <1>5, <1>7 DEF FrontInv
<1>9. QueueInv'
  <2>1. ASSUME NEW u \in Threads, FRONT_BIT \in bits'[u]
        PROVE  pc'[u] \in PoppedPcs \/ (pc'[u] \in QueuedPcs /\ u = queue'[1])
    <3>1. CASE u = h
      BY <1>1, <1>3, <1>5, <3>1
    <3>2. CASE u # h
      <4>1. FRONT_BIT \in bits[u] /\ ~HasFront(u)'
        BY <1>6, <1>7, <2>1, <3>2
      <4>2. pc[u] \in PoppedPcs \/ pc[u] \in QueuedPcs
        BY <4>1 DEF QueueInv
      <4>3. HasFront(u)
        BY <4>1, <4>2 DEF HasFront, FrontPcs, PoppedPcs
      <4>4. u = t
        BY <1>4, <4>3
      <4>5. QED BY <1>1, <4>2, <4>4 DEF QueuedPcs, PoppedPcs
    <3>3. QED BY <3>1, <3>2
  <2>2. \A u \in Threads :
            /\ pc'[u] \in QueuedPcs <=> \E i \in 1..Len(queue') : queue'[i] = u
            /\ pc'[u] \in FramePcs <=> u \in frames'
            /\ pc'[u] = "popping" => FRONT_BIT \in bits'[u]
    BY <1>1, <1>5, <1>6 DEF QueueInv
  <2>3. \A i, j \in 1..Len(queue') : queue'[i] = queue'[j] => i = j
    BY <1>1 DEF QueueInv
  <2>4. \E u \in Threads : HasFront(u)'
    BY <1>3, <1>7
  <2>5. QED BY <2>1, <2>2, <2>3, <2>4 DEF QueueInv
<1>10. QED BY <1>8, <1>9

\* Every access keeps front and queue.
LEMMA QueueStep == FramesInv /\ [Next]_vars => FrontInv' /\ QueueInv'
<1> SUFFICES ASSUME FramesInv, [Next]_vars PROVE FrontInv' /\ QueueInv'
  OBVIOUS
<1>1. CASE QuietAccess
  BY <1>1, QuietAccessKeeps DEF FramesInv
<1>2. CASE ~QuietAccess
  BY <1>2, AccessCases, FastPathKeeps, PushBackKeeps, PopFrontKeeps,
     ReleaseFrontKeeps, OrBitsKeeps DEF AccessKinds
<1>3. QED BY <1>1, <1>2

\* Every reachable state satisfies the inductive invariant.
THEOREM FramesInvariant == Spec => []FramesInv
<1>1. FramesInv /\ [Next]_vars => FramesInv'
  BY TypeStep, SectionStep, QueueStep, ReferenceStep DEF FramesInv
<1>2. QED BY <1>1, FramesInit, PTL DEF Spec

\* No reference into the frame of another thread outlives that frame: neither
\* the queue's tasks, nor a TaskState between its two accesses of a wakeup,
\* nor a value that a callback has popped.
THEOREM ReferencesNeverDangle == Spec => []NoDanglingReference
<1>1. FramesInv => NoDanglingReference
  <2> SUFFICES ASSUME FramesInv PROVE NoDanglingReference
    OBVIOUS
  <2> USE DEF FramesInv
  <2>1. \A t \in Threads : pc[t] \in QueuedPcs => t \in frames
    BY DEF QueueInv, FramePcs, PoppedPcs
  <2>2. ASSUME NEW i \in 1..Len(queue) PROVE queue[i] \in frames
    <3>1. queue[i] \in Threads
      BY DEF TypeOK
    <3>2. QED BY <2>1, <3>1 DEF QueueInv
  <2>3. ASSUME NEW t \in Threads, task[t] # NoThread PROVE task[t] \in frames
    <3>1. queue # <<>> /\ task[t] = queue[1]
      BY <2>3 DEF ReferenceInv
    <3>2. QED BY <2>1, <3>1, HeadIsQueued
  <2>4. \A t \in Threads : loans[t] \subseteq frames
    BY <2>1 DEF ReferenceInv, TypeOK
  <2>5. QED BY <2>2, <2>3, <2>4 DEF NoDanglingReference
<1>2. QED BY <1>1, FramesInvariant, PTL

\* At most one &mut of each kind is alive, that of mutex_exclusive in the
\* hands of the owner of the mutex only.
THEOREM BorrowsNeverAlias == Spec => []NoAliasing
<1>1. FramesInv => NoAliasing
  <2> SUFFICES ASSUME FramesInv PROVE NoAliasing
    OBVIOUS
  <2> USE DEF FramesInv, TypeOK
  <2>1. ASSUME NEW t \in exclusive PROVE t = owner
    BY DEF SectionInv, BorrowPcs, GuardPcs
  <2>2. ASSUME NEW t \in front, NEW u \in front PROVE t = u
    <3>1. HasFront(t) /\ HasFront(u)
      BY DEF SectionInv, HasFront, FrontPcs, PoppedPcs
    <3>2. QED BY <3>1 DEF FrontInv
  <2>3. QED BY <2>1, <2>2 DEF NoAliasing
<1>2. QED BY <1>1, FramesInvariant, PTL

\* A TaskState is written while nobody else reads or writes it.
THEOREM TaskStateNeverRaces == Spec => []NoRaceOnTaskState
<1>1. FramesInv => NoRaceOnTaskState
  BY HeadIsQueued DEF FramesInv, SectionInv, GuardPcs, BorrowPcs, ReferenceInv,
     NoRaceOnTaskState
<1>2. QED BY <1>1, FramesInvariant, PTL

-----------------------------------------------------------------------------
\* The values, and the line that the accesses implement.

\* What the proof of an access has at its disposal, before it and after it.
Inv == FramesInv /\ ValuesInv

\* Nobody has called the queue yet.
LEMMA ValuesInit == Init => ValuesInv
BY DEF Init, ValuesInv, OwnValuePcs, CallbackPcs, AboutToProcess, PoppedPcs

\* The members of the queue are threads.
LEMMA MembersAreThreads ==
    ASSUME TypeOK
    PROVE  \A i \in 1..Len(queue) : queue[i] \in Threads
BY DEF TypeOK

\* What is popped is the first value that is left.
LEMMA PopTakes ==
    ASSUME Inv, NEW t \in Threads, Pop(t)
    PROVE  LET i == nextIdx[t] + 1 IN
            /\ i \in 1..Len(queue) /\ i \in Nat
            /\ queue[i] \in Threads /\ value[queue[i]]
            /\ value' = [value EXCEPT ![queue[i]] = FALSE]
            /\ nextIdx' = [nextIdx EXCEPT ![t] = i]
            /\ pc[t] = "processing"
            /\ UNCHANGED <<queue, pc, bits, frames>>
<1> DEFINE i == nextIdx[t] + 1
<1>1. nextIdx[t] \in Nat /\ Len(queue) \in Nat /\ nextIdx[t] < Len(queue)
  BY DEF Inv, FramesInv, TypeOK, Pop
<1>2. i \in 1..Len(queue) /\ i \in Nat /\ i > nextIdx[t]
  BY <1>1
<1>3. pc[t] = "processing" /\ UNCHANGED <<queue, pc, bits, frames>>
  BY DEF Pop
<1>4. queue[i] \in Threads
  BY <1>2, MembersAreThreads DEF Inv, FramesInv
<1>5. value[queue[i]]
  BY <1>2, <1>3 DEF Inv, ValuesInv, CallbackPcs
<1>6. /\ value' = [value EXCEPT ![queue[i]] = FALSE]
      /\ nextIdx' = [nextIdx EXCEPT ![t] = i]
  BY DEF Pop, take
<1>7. QED BY <1>2, <1>3, <1>4, <1>5, <1>6

-----------------------------------------------------------------------------
\* The values stay Nones and then Somes.

\* An access that neither takes nor returns a value, nor begins a callback.
QuietForValues ==
    /\ UNCHANGED <<queue, value, nextIdx>>
    /\ \A u \in Threads :
        /\ pc'[u] \in CallbackPcs => pc[u] \in CallbackPcs
        /\ pc'[u] \in OwnValuePcs => pc[u] \in OwnValuePcs \/ AboutToProcess(u)
        /\ AboutToProcess(u)' => AboutToProcess(u)

ValueAccess(t) ==
    \/ pc[t] = "fastPath" /\ try_acquire_front_fast(t)
    \/ PushBack(t)
    \/ PopFront(t)
    \/ StartCallback(t)
    \/ Pop(t)
    \/ Release(t)

LEMMA ValueCases ==
    FramesInv /\ [Next]_vars => QuietForValues \/ \E t \in Threads : ValueAccess(t)
<1> SUFFICES ASSUME FramesInv, [Next]_vars,
                    ~\E t \in Threads : ValueAccess(t)
             PROVE  QuietForValues
  OBVIOUS
<1> USE DEF FramesInv, TypeOK, QuietForValues, CallbackPcs, OwnValuePcs,
     AboutToProcess, PoppedPcs
<1>1. ASSUME NEW t \in Threads, Waiting(t) PROVE QuietForValues
  <2>1. CASE LockAndEnter(t)
    BY <2>1 DEF LockAndEnter, Goto, dataVars
  <2>2. CASE LockQueuePoison(t)
    BY <2>2 DEF LockQueuePoison, Goto, dataVars
  <2>16. CASE clear_queue_poison(t)
    BY <2>16 DEF clear_queue_poison, Goto
  <2>17. CASE BorrowToCheck(t)
    BY <2>17 DEF BorrowToCheck, Goto, dataVars
  <2>3. CASE BorrowForFastPath(t)
    BY <2>3 DEF BorrowForFastPath, Goto, dataVars
  <2>4. CASE try_acquire_front_fast(t)
    BY <2>4 DEF try_acquire_front_fast, Goto, ValueAccess
  <2>5. CASE NewTask(t)
    BY <2>5 DEF NewTask, Goto, dataVars
  <2>6. CASE PushBack(t)
    BY <2>6 DEF ValueAccess
  <2>7. CASE Sleep(t)
    BY <2>7 DEF Sleep, Goto, dataVars
  <2>8. CASE SpuriousWakeup(t)
    BY <2>8 DEF SpuriousWakeup, dataVars
  <2>9. CASE WakeUp(t)
    BY <2>9 DEF WakeUp, Goto, dataVars
  <2>10. CASE ReadBits(t)
    BY <2>10 DEF ReadBits, Goto, dataVars
  <2>11. CASE PopFront(t)
    BY <2>11 DEF ValueAccess
  <2>12. CASE AfterWait(t)
    <3>1. /\ pc[t] = "checking"
          /\ pc' = [pc EXCEPT ![t] = IF value[t] THEN "begin" ELSE "done"]
          /\ UNCHANGED <<queue, value, nextIdx>>
      BY <2>12 DEF AfterWait, Goto, dataVars
    <3>2. CASE value[t]
      BY <3>1, <3>2
    <3>3. CASE ~value[t]
      BY <3>1, <3>3
    <3>4. QED BY <3>2, <3>3
  <2>13. CASE QueuePoisonPanic(t)
    BY <2>13 DEF QueuePoisonPanic, Goto, dataVars
  <2>14. CASE MutexPoisonPanic(t)
    BY <2>14 DEF MutexPoisonPanic, Goto, dataVars
  <2>15. QED BY <1>1, <2>1, <2>2, <2>3, <2>4, <2>5, <2>6, <2>7, <2>8, <2>9,
    <2>10, <2>11, <2>12, <2>13, <2>14, <2>16, <2>17 DEF Waiting
<1>2. ASSUME NEW t \in Threads, Callback(t) PROVE QuietForValues
  <2>1. CASE StartCallback(t) \/ Pop(t)
    BY <2>1 DEF ValueAccess
  <2>9. CASE HandleClearsPoison(t)
    BY <2>9 DEF HandleClearsPoison
  <2>2. CASE Unlocked(t)
    BY <2>2 DEF Unlocked, Goto, dataVars
  <2>3. CASE ClosurePanics(t)
    BY <2>3 DEF ClosurePanics, Goto, dataVars
  <2>4. CASE Relock(t)
    BY <2>4 DEF Relock, Goto, dataVars
  <2>5. CASE CallbackReturns(t)
    BY <2>5 DEF CallbackReturns, Goto, dataVars
  <2>6. CASE CallbackPanics(t)
    BY <2>6 DEF CallbackPanics, Goto, dataVars
  <2>7. CASE RelockUnwinding(t)
    BY <2>7 DEF RelockUnwinding, Goto, dataVars
  <2>8. QED BY <1>2, <2>1, <2>2, <2>3, <2>4, <2>5, <2>6, <2>7, <2>9
    DEF Callback
<1>3. ASSUME NEW t \in Threads, HandOver(t) PROVE QuietForValues
  <2>1. CASE LockToHandOver(t)
    BY <2>1 DEF LockToHandOver, Goto
  <2>2. CASE BorrowToHandOver(t)
    BY <2>2 DEF BorrowToHandOver, Goto, dataVars
  <2>3. CASE ReleaseFront(t)
    BY <2>3 DEF ReleaseFront, Goto
  <2>4. CASE FindNext(t)
    BY <2>4 DEF FindNext, Goto, dataVars
  <2>5. CASE OrBits(t)
    BY <2>5 DEF OrBits, Goto, dataVars
  <2>6. CASE Notify(t)
    BY <2>6 DEF Notify, Goto, dataVars
  <2>7. CASE Release(t)
    BY <2>7 DEF ValueAccess
  <2>8. QED BY <1>3, <2>1, <2>2, <2>3, <2>4, <2>5, <2>6, <2>7 DEF HandOver
<1>4. CASE ClearMutexPoison
  BY <1>4 DEF ClearMutexPoison, dataVars
<1>5. CASE UNCHANGED vars
  BY <1>5 DEF vars, dataVars
<1>6. QED BY <1>1, <1>2, <1>3, <1>4, <1>5 DEF Next

LEMMA QuietKeepsValues ==
    ASSUME ValuesInv, QuietForValues
    PROVE  ValuesInv'
<1> USE DEF ValuesInv, QuietForValues
<1>1. \A t \in Threads : pc'[t] \in OwnValuePcs => value'[t]
  BY DEF AboutToProcess, PoppedPcs, OwnValuePcs
<1>2. \A t \in Threads :
        pc'[t] \in CallbackPcs =>
            /\ nextIdx'[t] <= Len(queue')
            /\ \A i \in 1..Len(queue') : value'[queue'[i]] <=> i > nextIdx'[t]
  OBVIOUS
<1>3. \A t \in Threads :
        AboutToProcess(t)' => \A i \in 1..Len(queue') : value'[queue'[i]]
  OBVIOUS
<1>4. \A i, j \in 1..Len(queue') :
        i < j /\ value'[queue'[i]] => value'[queue'[j]]
  OBVIOUS
<1>5. QED BY <1>1, <1>2, <1>3, <1>4

\* The fast path is free only while nobody waits.
LEMMA FastPathKeepsValues ==
    ASSUME Inv, NEW t \in Threads, pc[t] = "fastPath", try_acquire_front_fast(t)
    PROVE  ValuesInv'
<1> USE DEF Inv, FramesInv, TypeOK
<1>1. PICK to \in {"begin", "newTask"} :
        /\ pc' = [pc EXCEPT ![t] = to]
        /\ to = "begin" => ~frontLocked
        /\ UNCHANGED <<queue, value, nextIdx>>
  BY DEF try_acquire_front_fast, Goto
<1>2. ~frontLocked => queue = <<>>
  BY DEF FrontInv, QueueInv
<1>3. to = "begin" => Len(queue) = 0
  BY <1>1, <1>2
<1>4. \A u \in Threads :
        /\ pc'[u] \in CallbackPcs => pc[u] \in CallbackPcs
        /\ pc'[u] \in OwnValuePcs => pc[u] \in OwnValuePcs
        /\ AboutToProcess(u)' => AboutToProcess(u) \/ to = "begin"
  BY <1>1 DEF CallbackPcs, OwnValuePcs, AboutToProcess, PoppedPcs
<1>5. QED BY <1>1, <1>3, <1>4 DEF ValuesInv

\* A task that joins has its value, behind all others.
LEMMA PushKeepsValues ==
    ASSUME Inv, NEW t \in Threads, PushBack(t)
    PROVE  ValuesInv'
<1> USE DEF Inv, FramesInv, TypeOK
<1>1. /\ pc[t] = "pushing" /\ pc' = [pc EXCEPT ![t] = "sleeping"]
      /\ queue' = Append(queue, t)
      /\ UNCHANGED <<value, nextIdx>>
  BY DEF PushBack, Goto
<1>2. value[t]
  BY <1>1 DEF ValuesInv, OwnValuePcs
<1>3. /\ Len(queue) \in Nat /\ Len(queue') = Len(queue) + 1
      /\ \A i \in 1..Len(queue) : queue'[i] = queue[i]
      /\ queue'[Len(queue) + 1] = t
  BY <1>1, AppendFacts
<1>4. \A i \in 1..Len(queue') : i \in 1..Len(queue) \/ i = Len(queue) + 1
  BY <1>3, LastIndex
<1>5. \A u \in Threads :
        /\ pc'[u] \in CallbackPcs => pc[u] \in CallbackPcs
        /\ pc'[u] \in OwnValuePcs => pc[u] \in OwnValuePcs
        /\ AboutToProcess(u)' => AboutToProcess(u)
  BY <1>1 DEF CallbackPcs, OwnValuePcs, AboutToProcess, PoppedPcs
<1>6. \A u \in Threads : pc'[u] \in OwnValuePcs => value'[u]
  BY <1>1, <1>5 DEF ValuesInv
<1>7. ASSUME NEW i \in 1..Len(queue'), NEW j \in 1..Len(queue'), i < j,
             value'[queue'[i]]
      PROVE  value'[queue'[j]]
  <2>1. CASE j = Len(queue) + 1
    BY <1>1, <1>2, <1>3, <2>1
  <2>2. CASE j \in 1..Len(queue)
    <3>1. i \in 1..Len(queue)
      BY <1>3, <1>7, <2>2
    <3>2. QED BY <1>1, <1>3, <1>7, <2>2, <3>1 DEF ValuesInv
  <2>3. QED BY <1>4, <2>1, <2>2
<1>8. ASSUME NEW u \in Threads, pc'[u] \in CallbackPcs
      PROVE  /\ nextIdx'[u] <= Len(queue')
             /\ \A i \in 1..Len(queue') : value'[queue'[i]] <=> i > nextIdx'[u]
  <2>1. /\ nextIdx[u] \in Nat /\ nextIdx[u] <= Len(queue)
        /\ \A i \in 1..Len(queue) : value[queue[i]] <=> i > nextIdx[u]
    BY <1>5, <1>8 DEF ValuesInv
  <2>2. nextIdx[u] <= Len(queue') /\ Len(queue) + 1 > nextIdx[u]
    BY <1>3, <2>1
  <2>3. QED BY <1>1, <1>2, <1>3, <1>4, <2>1, <2>2
<1>9. ASSUME NEW u \in Threads, AboutToProcess(u)', NEW i \in 1..Len(queue')
      PROVE  value'[queue'[i]]
  <2>1. \A k \in 1..Len(queue) : value[queue[k]]
    BY <1>5, <1>9 DEF ValuesInv
  <2>2. QED BY <1>1, <1>2, <1>3, <1>4, <2>1
<1>10. QED BY <1>6, <1>7, <1>8, <1>9 DEF ValuesInv

\* Whoever pops its own task and finds its value is the first Some.
LEMMA PopFrontKeepsValues ==
    ASSUME Inv, NEW t \in Threads, PopFront(t)
    PROVE  ValuesInv'
<1> USE DEF Inv, FramesInv, TypeOK, BitsTypeOK
<1>1. /\ pc[t] = "popping" /\ pc' = [pc EXCEPT ![t] = "popped"]
      /\ queue' = Tail(queue)
      /\ UNCHANGED <<value, nextIdx>>
  BY DEF PopFront, Goto
<1>2. queue # <<>> /\ t = queue[1] /\ HasFront(t)
  BY <1>1, WhoPopsIsHead
<1>3. /\ Len(queue) \in Nat \ {0} /\ Len(queue') = Len(queue) - 1
      /\ \A i \in 1..Len(queue') : queue'[i] = queue[i + 1]
  BY <1>1, <1>2, HeadTail
<1>4. \A i \in 1..Len(queue') :
        i + 1 \in 1..Len(queue) /\ i + 1 > 1 /\ 1 \in 1..Len(queue)
  BY <1>3
<1>5. \A u \in Threads : ~(u # t /\ HasFront(u))
  BY <1>2 DEF FrontInv
<1>6. \A u \in Threads :
        /\ pc'[u] \notin CallbackPcs
        /\ pc'[u] \in OwnValuePcs => pc[u] \in OwnValuePcs
        /\ AboutToProcess(u)' => u = t /\ value[t]
  BY <1>1, <1>5 DEF CallbackPcs, OwnValuePcs, AboutToProcess, HasFront,
     FrontPcs, PoppedPcs
<1>7. \A u \in Threads : pc'[u] \in OwnValuePcs => value'[u]
  BY <1>1, <1>6 DEF ValuesInv
<1>8. ASSUME NEW i \in 1..Len(queue'), NEW j \in 1..Len(queue'), i < j,
             value'[queue'[i]]
      PROVE  value'[queue'[j]]
  <2>1. i + 1 < j + 1 /\ value[queue[i + 1]]
    BY <1>1, <1>3, <1>8
  <2>2. value[queue[j + 1]]
    BY <1>4, <2>1 DEF ValuesInv
  <2>3. QED BY <1>1, <1>3, <2>2
<1>9. ASSUME NEW u \in Threads, AboutToProcess(u)', NEW i \in 1..Len(queue')
      PROVE  value'[queue'[i]]
  <2>1. value[queue[1]]
    BY <1>2, <1>6, <1>9
  <2>2. value[queue[i + 1]]
    BY <1>4, <2>1 DEF ValuesInv
  <2>3. QED BY <1>1, <1>3, <2>2
<1>10. QED BY <1>6, <1>7, <1>8, <1>9 DEF ValuesInv

\* A handle starts at 0, with only Somes behind its owner.
LEMMA StartKeepsValues ==
    ASSUME Inv, NEW t \in Threads, StartCallback(t)
    PROVE  ValuesInv'
<1> USE DEF Inv, FramesInv, TypeOK
<1>1. /\ pc[t] = "begin" /\ pc' = [pc EXCEPT ![t] = "processing"]
      /\ nextIdx' = [nextIdx EXCEPT ![t] = 0]
      /\ UNCHANGED <<queue, value>>
  BY DEF StartCallback, Goto
<1>2. HasFront(t) /\ \A u \in Threads : HasFront(u) => u = t
  BY <1>1 DEF HasFront, FrontPcs, PoppedPcs, FrontInv
<1>3. value[t] /\ \A i \in 1..Len(queue) : value[queue[i]]
  BY <1>1 DEF ValuesInv, AboutToProcess, PoppedPcs, OwnValuePcs
<1>4. \A u \in Threads :
        /\ pc'[u] \in CallbackPcs => u = t
        /\ pc'[u] \in OwnValuePcs => pc[u] \in OwnValuePcs
        /\ ~AboutToProcess(u)'
  BY <1>1, <1>2 DEF CallbackPcs, OwnValuePcs, AboutToProcess, HasFront,
     FrontPcs, PoppedPcs
<1>5. \A i \in 1..Len(queue') : i > 0 /\ value'[queue'[i]]
  BY <1>1, <1>3
<1>6. Len(queue') \in Nat /\ nextIdx'[t] = 0
  BY <1>1
<1>7. \A u \in Threads : pc'[u] \in OwnValuePcs => value'[u]
  BY <1>1, <1>4 DEF ValuesInv
<1>8. QED BY <1>4, <1>5, <1>6, <1>7 DEF ValuesInv

\* A pop moves next_idx over the value that it takes.
LEMMA PopKeepsValues ==
    ASSUME Inv, NEW t \in Threads, Pop(t)
    PROVE  ValuesInv'
<1> USE DEF Inv, FramesInv, TypeOK
<1> DEFINE i == nextIdx[t] + 1
<1>1. /\ i \in 1..Len(queue) /\ i \in Nat
      /\ queue[i] \in Threads /\ value[queue[i]]
      /\ value' = [value EXCEPT ![queue[i]] = FALSE]
      /\ nextIdx' = [nextIdx EXCEPT ![t] = i]
      /\ pc[t] = "processing"
      /\ UNCHANGED <<queue, pc, bits, frames>>
  BY PopTakes
<1>2. /\ nextIdx[t] \in Nat /\ Len(queue) \in Nat
      /\ \A j \in 1..Len(queue) : value[queue[j]] <=> j > nextIdx[t]
  BY <1>1 DEF ValuesInv, CallbackPcs
<1>3. \A u \in Threads : HasFront(u) => u = t
  BY <1>1 DEF HasFront, FrontPcs, PoppedPcs, CallbackPcs, FrontInv
<1>4. pc[queue[i]] \in QueuedPcs
  BY <1>1 DEF QueueInv
<1>5. \A j \in 1..Len(queue) : queue[j] = queue[i] => j = i
  BY <1>1 DEF QueueInv
<1>6. \A j \in 1..Len(queue) : value'[queue[j]] <=> j > i
  <2>1. ASSUME NEW j \in 1..Len(queue) PROVE value'[queue[j]] <=> j > i
    <3>1. queue[j] \in Threads /\ j \in Nat
      BY MembersAreThreads
    <3>2. value'[queue[j]] <=> value[queue[j]] /\ j # i
      <4> HIDE DEF i
      <4>1. QED BY <1>1, <1>5, <3>1
    <3>3. j > i <=> j > nextIdx[t] /\ j # i
      BY <1>2, <3>1, Above
    <3>4. QED BY <1>2, <3>2, <3>3
  <2>2. QED BY <2>1
<1>7. \A u \in Threads : ~AboutToProcess(u)' /\ (pc[u] \in CallbackPcs => u = t)
  BY <1>1, <1>3 DEF AboutToProcess, HasFront, FrontPcs, PoppedPcs, CallbackPcs
<1>8. \A u \in Threads : pc'[u] \in OwnValuePcs => value'[u]
  <2> HIDE DEF i
  <2>1. QED BY <1>1, <1>4 DEF ValuesInv, OwnValuePcs, CallbackPcs, QueuedPcs
<1>9. nextIdx'[t] = i /\ i <= Len(queue)
  BY <1>1, <1>2
<1> HIDE DEF i
<1>10. \A j, k \in 1..Len(queue) : j < k /\ j > i => k > i
  BY <1>1, <1>2
<1>11. /\ \A j, k \in 1..Len(queue') :
            j < k /\ value'[queue'[j]] => value'[queue'[k]]
       /\ \A u \in Threads : pc'[u] \in CallbackPcs =>
            /\ nextIdx'[u] <= Len(queue')
            /\ \A j \in 1..Len(queue') : value'[queue'[j]] <=> j > nextIdx'[u]
  BY <1>1, <1>6, <1>7, <1>9, <1>10
<1>12. QED BY <1>7, <1>8, <1>11 DEF ValuesInv

\* The next value of a thread is not that of a task.
LEMMA ReleaseKeepsValues ==
    ASSUME Inv, NEW t \in Threads, Release(t)
    PROVE  ValuesInv'
<1> USE DEF Inv, FramesInv, TypeOK
<1>1. /\ pc[t] = "release" /\ pc' = [pc EXCEPT ![t] = "idle"]
      /\ value' = [value EXCEPT ![t] = TRUE]
      /\ nextIdx' = [nextIdx EXCEPT ![t] = 0]
      /\ queue' = queue
  BY DEF Release, Goto
<1>2. \A i \in 1..Len(queue) : queue[i] # t /\ queue[i] \in Threads
  BY <1>1, MembersAreThreads DEF QueueInv, QueuedPcs
<1>3. \A i \in 1..Len(queue) : value'[queue[i]] = value[queue[i]]
  BY <1>1, <1>2
<1>4. \A u \in Threads :
        /\ pc'[u] \in CallbackPcs => pc[u] \in CallbackPcs /\ u # t
        /\ pc'[u] \in OwnValuePcs => u = t \/ pc[u] \in OwnValuePcs
        /\ AboutToProcess(u)' => AboutToProcess(u)
  BY <1>1 DEF CallbackPcs, OwnValuePcs, AboutToProcess, PoppedPcs
<1>5. \A u \in Threads : pc'[u] \in OwnValuePcs => value'[u]
  BY <1>1, <1>4 DEF ValuesInv
<1>6. \A i, j \in 1..Len(queue') :
        i < j /\ value'[queue'[i]] => value'[queue'[j]]
  <2>1. ASSUME NEW i \in 1..Len(queue), NEW j \in 1..Len(queue), i < j,
               value'[queue[i]]
        PROVE  value'[queue[j]]
    <3>1. value[queue[i]]
      BY <1>3, <2>1
    <3>2. value[queue[j]]
      BY <2>1, <3>1 DEF ValuesInv
    <3>3. QED BY <1>3, <3>2
  <2>2. QED BY <1>1, <2>1
<1>7. ASSUME NEW u \in Threads, AboutToProcess(u)'
      PROVE  \A i \in 1..Len(queue') : value'[queue'[i]]
  <2>1. \A i \in 1..Len(queue) : value[queue[i]]
    BY <1>4, <1>7 DEF ValuesInv
  <2>2. QED BY <1>1, <1>3, <2>1
<1>8. ASSUME NEW u \in Threads, pc'[u] \in CallbackPcs
      PROVE  /\ nextIdx'[u] <= Len(queue')
             /\ \A i \in 1..Len(queue') : value'[queue'[i]] <=> i > nextIdx'[u]
  <2>1. /\ nextIdx[u] <= Len(queue)
        /\ \A i \in 1..Len(queue) : value[queue[i]] <=> i > nextIdx[u]
    BY <1>4, <1>8 DEF ValuesInv
  <2>2. nextIdx'[u] = nextIdx[u]
    BY <1>1, <1>4, <1>8
  <2>3. QED BY <1>1, <1>3, <2>1, <2>2
<1>9. QED BY <1>5, <1>6, <1>7, <1>8 DEF ValuesInv

\* Every access keeps the order of the values.
LEMMA ValuesStep == Inv /\ [Next]_vars => ValuesInv'
BY ValueCases, QuietKeepsValues, FastPathKeepsValues, PushKeepsValues,
   PopFrontKeepsValues, StartKeepsValues, PopKeepsValues, ReleaseKeepsValues
   DEF Inv, ValueAccess

\* Between any two accesses the queue is Nones and then Somes, and a handle
\* is at the border (MutexExclusive.queue, QueueHandle.next_idx).
THEOREM ValuesInvariant == Spec => []ValuesInv
<1>1. FramesInv /\ ValuesInv /\ [Next]_vars => ValuesInv'
  BY ValuesStep DEF Inv
<1>2. QED BY <1>1, ValuesInit, FramesInvariant, PTL DEF Spec

-----------------------------------------------------------------------------
\* The line.

\* The holder is whoever has the front.
LEMMA HolderIs ==
    ASSUME FrontInv, NEW t \in Threads, HasFront(t)
    PROVE  holder = t
BY DEF holder, FrontInv

LEMMA HolderIsNext ==
    ASSUME FrontInv', NEW t \in Threads, HasFront(t)'
    PROVE  holder' = t
BY DEF holder, FrontInv

LEMMA NoHolder ==
    ASSUME \A t \in Threads : ~HasFront(t)
    PROVE  holder = NoThread
BY DEF holder

LEMMA NoHolderNext ==
    ASSUME \A t \in Threads : ~HasFront(t)'
    PROVE  holder' = NoThread
BY DEF holder

\* The holder changes only when somebody gets or loses the front.
LEMMA SameHolder ==
    ASSUME FrontInv, FrontInv',
           \A t \in Threads : HasFront(t)' <=> HasFront(t)
    PROVE  holder' = holder
<1>1. CASE \E t \in Threads : HasFront(t)
  <2>1. PICK t \in Threads : HasFront(t)
    BY <1>1
  <2>2. holder = t /\ holder' = t
    BY <2>1, HolderIs, HolderIsNext
  <2>3. QED BY <2>2
<1>2. CASE \A t \in Threads : ~HasFront(t)
  BY <1>2, NoHolder, NoHolderNext
<1>3. QED BY <1>1, <1>2

\* The line changes only with the queue, or when its head gets the front.
LEMMA SameLine ==
    ASSUME TypeOK, QueueInv, queue' = queue,
           \A t \in Threads : HasFront(t)' <=> HasFront(t)
    PROVE  line' = line
<1>1. CASE queue = <<>>
  BY <1>1 DEF line
<1>2. CASE queue # <<>>
  <2>1. Head(queue) \in Threads
    BY <1>2, HeadIsQueued
  <2>2. HasFront(Head(queue))' <=> HasFront(Head(queue))
    BY <2>1
  <2>3. QED BY <2>2 DEF line
<1>3. QED BY <1>1, <1>2

LEMMA SameMerged ==
    ASSUME \A t \in Threads : Merged(t)' <=> Merged(t)
    PROVE  merged' = merged
BY DEF merged

\* While its owner is not in the queue the queue is the line.
LEMMA LineIsQueue ==
    ASSUME FramesInv, NEW t \in Threads, HasFront(t), pc[t] \notin QueuedPcs
    PROVE  line = queue
<1>1. CASE queue = <<>>
  BY <1>1 DEF line
<1>2. CASE queue # <<>>
  <2>1. Head(queue) \in Threads /\ Head(queue) # t
    BY <1>2, HeadIsQueued DEF FramesInv
  <2>2. ~HasFront(Head(queue))
    BY <2>1 DEF FramesInv, FrontInv
  <2>3. QED BY <2>2 DEF line
<1>3. QED BY <1>1, <1>2

LEMMA LineIsQueueNext ==
    ASSUME FramesInv', NEW t \in Threads, HasFront(t)', pc'[t] \notin QueuedPcs
    PROVE  line' = queue'
<1>1. CASE queue' = <<>>
  BY <1>1 DEF line
<1>2. CASE queue' # <<>>
  <2>1. /\ queue' \in Seq(Threads) /\ Head(queue') = queue'[1]
        /\ Len(queue') \in Nat \ {0}
    BY <1>2, HeadTail DEF FramesInv, TypeOK
  <2>2. Head(queue') \in Threads /\ Head(queue') # t
    BY <2>1 DEF FramesInv, QueueInv
  <2>3. ~HasFront(Head(queue))'
    BY <2>2 DEF FramesInv, FrontInv, HasFront
  <2>4. QED BY <2>3 DEF line
<1>3. QED BY <1>1, <1>2

\* The value of a task is taken by a pop; a call that ends gets a new one.
LEMMA ValueChanges ==
    ASSUME FramesInv, [Next]_vars
    PROVE  value' = value \/ \E t \in Threads : Pop(t) \/ Release(t)
<1>1. CASE QuietForValues
  BY <1>1 DEF QuietForValues
<1>2. ASSUME NEW t \in Threads, ValueAccess(t)
      PROVE  value' = value \/ Pop(t) \/ Release(t)
  BY <1>2 DEF ValueAccess, try_acquire_front_fast, PushBack, PopFront,
     StartCallback
<1>3. QED BY <1>1, <1>2, ValueCases

\* The end of a call is not seen in the line.
LEMMA ReleaseKeepsMerged ==
    ASSUME FramesInv, NEW t \in Threads, Release(t)
    PROVE  \A u \in Threads : Merged(u)' <=> Merged(u)
<1> USE DEF FramesInv, TypeOK
<1>1. /\ pc[t] = "release" /\ pc' = [pc EXCEPT ![t] = "idle"]
      /\ value' = [value EXCEPT ![t] = TRUE]
      /\ bits' = bits
  BY DEF Release, Goto
<1>2. ~Merged(t) /\ ~Merged(t)'
  BY <1>1 DEF Merged, HasFront, FrontPcs, PoppedPcs, CallbackPcs, QueuedPcs
<1>3. \A u \in Threads : u # t => pc'[u] = pc[u] /\ value'[u] = value[u]
  BY <1>1
<1>4. QED BY <1>1, <1>2, <1>3 DEF Merged, HasFront

\* An access that is neither a take nor one of the five of AccessCases.
LEMMA QuietRefines ==
    ASSUME Inv, Inv', QuietAccess,
           \/ value' = value
           \/ \E t \in Threads : Release(t)
    PROVE  UNCHANGED <<holder, line, merged>>
<1> USE DEF Inv, FramesInv
<1>1. \A u \in Threads : /\ HasFront(u)' <=> HasFront(u)
                         /\ pc'[u] \in QueuedPcs <=> pc[u] \in QueuedPcs
  BY DEF QuietAccess
<1>2. holder' = holder /\ line' = line
  BY <1>1, SameHolder, SameLine DEF QuietAccess
<1>3. \A u \in Threads : Merged(u)' <=> Merged(u)
  BY <1>1, ReleaseKeepsMerged DEF Merged
<1>4. QED BY <1>2, <1>3, SameMerged

\* The fast path: the front is free and nobody waits, or it is left alone.
LEMMA FastPathRefines ==
    ASSUME Inv, Inv', NEW t \in Threads, pc[t] = "fastPath",
           try_acquire_front_fast(t)
    PROVE  Fifo!TakeFront(t) \/ UNCHANGED <<holder, line, merged>>
<1> USE DEF Inv, FramesInv, TypeOK
<1>1. PICK to \in {"begin", "newTask"} :
        /\ pc' = [pc EXCEPT ![t] = to]
        /\ to = "begin" <=> ~frontLocked
        /\ UNCHANGED <<queue, bits, value>>
  BY DEF try_acquire_front_fast, Goto
<1>2. \A u \in Threads :
        /\ HasFront(u)' <=> HasFront(u) \/ (u = t /\ to = "begin")
        /\ pc'[u] \in QueuedPcs <=> pc[u] \in QueuedPcs
  BY <1>1 DEF HasFront, FrontPcs, PoppedPcs, CallbackPcs, QueuedPcs
<1>3. value[t]
  BY DEF ValuesInv, OwnValuePcs
<1>4. merged' = merged
  BY <1>1, <1>2, <1>3, SameMerged DEF Merged
<1>5. CASE to = "begin"
  <2>1. \A u \in Threads : ~HasFront(u)
    BY <1>1, <1>5 DEF FrontInv
  <2>2. queue = <<>>
    BY <2>1 DEF QueueInv
  <2>3. holder = NoThread /\ holder' = t
    BY <1>2, <1>5, <2>1, NoHolder, HolderIsNext
  <2>4. line = <<>> /\ line' = <<>>
    BY <1>1, <2>2 DEF line
  <2>5. QED BY <1>4, <2>3, <2>4 DEF Fifo!TakeFront
<1>6. CASE to = "newTask"
  BY <1>1, <1>2, <1>4, <1>6, SameHolder, SameLine
<1>7. QED BY <1>5, <1>6

\* A push is the end of the line, also behind a head that was woken.
LEMMA PushRefines ==
    ASSUME Inv, Inv', NEW t \in Threads, PushBack(t)
    PROVE  Fifo!Join(t)
<1> USE NoThreadAssumption DEF Inv, FramesInv, TypeOK, BitsTypeOK
<1>1. /\ pc[t] = "pushing" /\ pc' = [pc EXCEPT ![t] = "sleeping"]
      /\ queue' = Append(queue, t)
      /\ UNCHANGED <<bits, frontLocked, value>>
  BY DEF PushBack, Goto
<1>2. FRONT_BIT \notin bits[t] /\ \A i \in 1..Len(queue) : queue[i] # t
  BY <1>1 DEF QueueInv, QueuedPcs, PoppedPcs
<1>3. \A u \in Threads :
        /\ HasFront(u)' <=> HasFront(u)
        /\ pc'[u] \in QueuedPcs <=> u = t \/ pc[u] \in QueuedPcs
  BY <1>1, <1>2 DEF HasFront, FrontPcs, PoppedPcs, CallbackPcs, QueuedPcs
<1>4. PICK h \in Threads : HasFront(h)
  BY <1>1 DEF FrontInv
<1>5. h # t
  BY <1>1, <1>4 DEF HasFront, FrontPcs, PoppedPcs, CallbackPcs, QueuedPcs
<1>6. holder = h /\ holder' = holder
  BY <1>3, <1>4, HolderIs, SameHolder
<1>7. ~Fifo!InLine(t)
  <2>1. CASE line = queue
    BY <1>2, <2>1 DEF Fifo!InLine
  <2>2. CASE queue # <<>> /\ line = Tail(queue)
    <3>1. /\ Len(queue) \in Nat \ {0} /\ Len(line) = Len(queue) - 1
          /\ \A i \in 1..Len(line) : line[i] = queue[i + 1]
      BY <2>2, HeadTail
    <3>2. \A i \in 1..Len(line) : i + 1 \in 1..Len(queue)
      BY <3>1
    <3>3. QED BY <1>2, <3>1, <3>2 DEF Fifo!InLine
  <2>3. QED BY <2>1, <2>2 DEF line
<1>8. line' = Append(line, t)
  <2>1. CASE queue = <<>>
    <3>1. queue' # <<>> /\ Head(queue') = t
      BY <1>1, <2>1
    <3>2. ~HasFront(t)'
      BY <1>3, <1>4, <1>5 DEF FrontInv
    <3>3. QED BY <1>1, <2>1, <3>1, <3>2 DEF line
  <2>2. CASE queue # <<>>
    <3>1. /\ queue' # <<>> /\ Head(queue') = Head(queue)
          /\ Tail(queue') = Append(Tail(queue), t)
      <4>1. queue \in Seq(Threads) /\ queue' = Append(queue, t)
        BY <1>1
      <4> HIDE DEF TypeOK
      <4>2. QED BY <2>2, <4>1, AppendFacts, TailOfAppend
    <3>2. Head(queue) \in Threads
      BY <2>2, HeadIsQueued
    <3>3. HasFront(Head(queue))' <=> HasFront(Head(queue))
      BY <1>1, <1>3, <3>1, <3>2 DEF HasFront
    <3>4. QED BY <1>1, <2>2, <3>1, <3>3 DEF line
  <2>3. QED BY <2>1, <2>2
<1>9. value[t]
  BY <1>1 DEF ValuesInv, OwnValuePcs
<1>10. merged' = merged
  BY <1>1, <1>3, <1>9, SameMerged DEF Merged
<1>11. QED BY <1>5, <1>6, <1>7, <1>8, <1>10 DEF Fifo!Join

\* The head, which has the front already, leaves the queue.
LEMMA PopFrontRefines ==
    ASSUME Inv, Inv', NEW t \in Threads, PopFront(t)
    PROVE  UNCHANGED <<holder, line, merged>>
<1> USE DEF Inv, FramesInv, TypeOK, BitsTypeOK
<1>1. /\ pc[t] = "popping" /\ pc' = [pc EXCEPT ![t] = "popped"]
      /\ queue' = Tail(queue)
      /\ UNCHANGED <<bits, value>>
  BY DEF PopFront, Goto
<1>2. queue # <<>> /\ t = queue[1] /\ HasFront(t)
  BY <1>1, WhoPopsIsHead
<1>3. \A u \in Threads :
        /\ HasFront(u)' <=> HasFront(u)
        /\ u # t => pc'[u] = pc[u]
  BY <1>1 DEF HasFront, FrontPcs, PoppedPcs, CallbackPcs, QueuedPcs
<1>4. holder' = holder
  BY <1>3, SameHolder
<1>5. line = queue'
  BY <1>1, <1>2, HeadIsQueued DEF line
<1>6. line' = queue'
  <2>1. HasFront(t)' /\ pc'[t] \notin QueuedPcs
    BY <1>1, <1>2, <1>3 DEF QueuedPcs
  <2>2. QED BY <2>1, LineIsQueueNext
<1>7. merged' = merged
  BY <1>1, <1>2, <1>3, SameMerged DEF Merged
<1>8. QED BY <1>4, <1>5, <1>6, <1>7

\* A take merges the first value in line that is left.
LEMMA PopRefines ==
    ASSUME Inv, Inv', NEW t \in Threads, Pop(t)
    PROVE  Fifo!Merge
<1> USE NoThreadAssumption DEF Inv, FramesInv, TypeOK
<1> DEFINE i == nextIdx[t] + 1
<1>1. /\ i \in 1..Len(queue) /\ i \in Nat
      /\ queue[i] \in Threads /\ value[queue[i]]
      /\ value' = [value EXCEPT ![queue[i]] = FALSE]
      /\ pc[t] = "processing"
      /\ UNCHANGED <<queue, pc, bits, frames>>
  BY PopTakes
<1>2. HasFront(t) /\ \A u \in Threads : HasFront(u)' <=> HasFront(u)
  BY <1>1 DEF HasFront, FrontPcs, PoppedPcs, CallbackPcs
<1>3. holder = t /\ holder' = holder /\ line' = line
  BY <1>1, <1>2, HolderIs, SameHolder, SameLine
<1>4. line = queue
  BY <1>1, <1>2, LineIsQueue DEF QueuedPcs
<1>5. t \notin merged /\ queue[i] \notin merged
  BY <1>1 DEF merged, Merged, ValuesInv, OwnValuePcs, CallbackPcs
<1>6. ASSUME NEW j \in 1..(i - 1) PROVE queue[j] \in merged
  <2>1. nextIdx[t] \in Nat /\ Len(queue) \in Nat
    OBVIOUS
  <2>2. j \in 1..Len(queue) /\ ~(j > nextIdx[t])
    BY <1>1, <1>6, <2>1, UpTo
  <2>3. queue[j] \in Threads /\ pc[queue[j]] \in QueuedPcs
    BY <2>2, MembersAreThreads DEF QueueInv
  <2>4. ~value[queue[j]]
    BY <1>1, <2>2 DEF ValuesInv, CallbackPcs
  <2>5. QED BY <2>3, <2>4 DEF merged, Merged
<1>7. merged' = merged \cup {queue[i]}
  <2>1. pc[queue[i]] \in QueuedPcs
    BY <1>1 DEF QueueInv
  <2> HIDE DEF i
  <2>2. \A u \in Threads : Merged(u)' <=> Merged(u) \/ u = queue[i]
    BY <1>1, <1>2, <2>1 DEF Merged
  <2>3. QED BY <1>1, <2>2 DEF merged
<1> HIDE DEF i
<1>8. QED BY <1>1, <1>3, <1>4, <1>5, <1>6, <1>7 DEF Fifo!Merge

\* Nobody waits: the front is free.
LEMMA ReleaseFrontRefines ==
    ASSUME Inv, Inv', NEW t \in Threads, ReleaseFront(t)
    PROVE  Fifo!Pass
<1> USE NoThreadAssumption DEF Inv, FramesInv, TypeOK
<1>1. /\ pc[t] = "handOver" /\ pc' = [pc EXCEPT ![t] = "release"]
      /\ ~frontLocked'
      /\ UNCHANGED <<bits, queue, value>>
      /\ queue = <<>>
  BY DEF ReleaseFront, Goto
<1>2. HasFront(t) /\ \A u \in Threads : ~HasFront(u)'
  BY <1>1 DEF HasFront, FrontPcs, PoppedPcs, FrontInv
<1>3. holder = t /\ holder' = NoThread /\ line = <<>> /\ line' = <<>>
  BY <1>1, <1>2, HolderIs, NoHolderNext DEF line
<1>4. \A u \in Threads : HasFront(u) => u = t
  BY <1>2 DEF FrontInv
<1>5. merged' = merged \ {t}
  <2>1. \A u \in Threads : Merged(u)' <=> Merged(u) /\ u # t
    BY <1>1, <1>2, <1>4 DEF Merged, QueuedPcs
  <2>2. QED BY <2>1 DEF merged
<1>6. QED BY <1>3, <1>5 DEF Fifo!Pass

\* The front bit is set: from there on the head has the front.
LEMMA OrBitsRefines ==
    ASSUME Inv, Inv', NEW t \in Threads, OrBits(t)
    PROVE  Fifo!Pass
<1> USE NoThreadAssumption DEF Inv, FramesInv, TypeOK, BitsTypeOK
<1>1. /\ pc[t] = "waking" /\ pc' = [pc EXCEPT ![t] = "notifying"]
      /\ bits' = [bits EXCEPT ![task[t]] = @ \cup {FRONT_BIT}]
      /\ UNCHANGED <<queue, value>>
  BY DEF OrBits, OrBitsSilently, Goto, dataVars, refVars
<1>2. task[t] = queue[1] /\ queue # <<>>
  BY <1>1 DEF ReferenceInv
<1>3. PICK h \in Threads :
        h = Head(queue) /\ h = task[t] /\ pc[h] \in QueuedPcs
  BY <1>2, HeadIsQueued
<1>4. HasFront(t) /\ \A u \in Threads : HasFront(u) => u = t
  BY <1>1 DEF HasFront, FrontPcs, PoppedPcs, FrontInv
<1>5. h # t /\ pc'[h] \in QueuedPcs /\ FRONT_BIT \in bits'[h]
  BY <1>1, <1>3 DEF QueuedPcs
<1>6. HasFront(h)' /\ \A u \in Threads : HasFront(u)' => u = h
  BY <1>5 DEF HasFront, FrontInv
<1>7. holder = t /\ holder' = h
  BY <1>4, <1>6, HolderIs, HolderIsNext
<1>8. line = queue
  BY <1>1, <1>4, LineIsQueue DEF QueuedPcs
<1>9. line' = Tail(queue)
  BY <1>1, <1>2, <1>3, <1>6 DEF line
<1>10. merged' = merged \ {t}
  <2>1. ASSUME NEW u \in Threads PROVE Merged(u)' <=> Merged(u) /\ u # t
    <3>1. CASE u = t
      BY <1>1, <1>5, <1>6, <3>1 DEF Merged, QueuedPcs
    <3>2. CASE u = h
      BY <1>1, <1>3, <1>5, <3>2 DEF Merged
    <3>3. CASE u # t /\ u # h
      BY <1>1, <1>4, <1>6, <3>3 DEF Merged
    <3>4. QED BY <3>1, <3>2, <3>3
  <2>2. QED BY <2>1 DEF merged
<1>11. QED BY <1>2, <1>3, <1>7, <1>8, <1>9, <1>10 DEF Fifo!Pass

\* Every access is one step of the line, or none.
LEMMA AccessRefines ==
    ASSUME Inv, Inv', [Next]_vars
    PROVE  [Fifo!Next]_(Fifo!fifoVars)
<1>1. AccessKinds
  BY AccessCases DEF Inv
<1>2. CASE QuietAccess
  <2>1. ASSUME NEW t \in Threads, Pop(t) PROVE Fifo!Next
    BY <2>1, PopRefines DEF Fifo!Next
  <2>2. CASE value' = value \/ \E t \in Threads : Release(t)
    BY <1>2, <2>2, QuietRefines DEF Fifo!fifoVars
  <2>3. QED BY <2>1, <2>2, ValueChanges DEF Inv
<1>3. ASSUME NEW t \in Threads, pc[t] = "fastPath", try_acquire_front_fast(t)
      PROVE  [Fifo!Next]_(Fifo!fifoVars)
  BY <1>3, FastPathRefines DEF Fifo!Next, Fifo!fifoVars
<1>4. ASSUME NEW t \in Threads, PushBack(t) PROVE Fifo!Next
  BY <1>4, PushRefines DEF Fifo!Next
<1>5. ASSUME NEW t \in Threads, PopFront(t) PROVE UNCHANGED Fifo!fifoVars
  BY <1>5, PopFrontRefines DEF Fifo!fifoVars
<1>6. ASSUME NEW t \in Threads, ReleaseFront(t) PROVE Fifo!Next
  BY <1>6, ReleaseFrontRefines DEF Fifo!Next
<1>7. ASSUME NEW t \in Threads, OrBits(t) PROVE Fifo!Next
  BY <1>7, OrBitsRefines DEF Fifo!Next
<1>8. QED BY <1>1, <1>2, <1>3, <1>4, <1>5, <1>6, <1>7 DEF AccessKinds

\* The queue is a FIFO line also when each access to shared memory is a step
\* of its own, the store of the front bit being the moment the front is passed.
THEOREM AccessesAreFifo == Spec => AccessesImplementFifoFront
<1>1. Init => Fifo!Init
  <2>1. ASSUME Init PROVE Fifo!Init
    <3>1. \A t \in Threads : pc[t] = "idle" /\ value[t] /\ bits[t] = {}
      BY <2>1 DEF Init, BitsInit
    <3>2. \A t \in Threads : ~HasFront(t)
      BY <3>1 DEF HasFront, FrontPcs, PoppedPcs, CallbackPcs, QueuedPcs
    <3>3. holder = NoThread /\ line = <<>> /\ merged = {}
      BY <2>1, <3>1, <3>2, NoHolder DEF Init, line, merged, Merged
    <3>4. QED BY <3>3 DEF Fifo!Init
  <2>2. QED BY <2>1
<1>2. Inv /\ Inv' /\ [Next]_vars => [Fifo!Next]_(Fifo!fifoVars)
  BY AccessRefines
<1>3. FramesInv /\ ValuesInv => Inv
  BY DEF Inv
<1>4. QED
  BY <1>1, <1>2, <1>3, FramesInvariant, ValuesInvariant, PTL
     DEF Spec, AccessesImplementFifoFront, Fifo!Spec
==============================================================================
