------------------------- MODULE ContentionQueueProofs -------------------------
(***************************************************************************)
(* The safety invariants of ContentionQueueProps hold for any number of    *)
(* threads, any number of calls, every PanicOptions and all faults.        *)
(*                                                                         *)
(* The inductive invariant is IInv: a hand-over keeps the front exclusive  *)
(* only because what it wakes is a task of a thread that waits, the wait   *)
(* pops its own task only because nobody but the head is ever woken, and   *)
(* pop finds a value only because the queue is Nones and then Somes.       *)
(***************************************************************************)
EXTENDS ContentionQueueProps, QueueLemmas

\* Somebody has the front while a task waits.
FrontIsHeld == queue # <<>> => \E t \in Threads : HasFront(t)

\* Who has the front and who waits for it.
QueueInv ==
    /\ FrontExclusive
    /\ FrontIsHeld
    /\ QueuedTasksAlive
    /\ WokenTaskIsHead

\* Which of the queued tasks still have their value.
ValueInv == HandleAtFirstUnprocessed /\ NonesThenSomes

\* A push: the new task is the last one, and of a thread that had none.
LEMMA PushQueue ==
    ASSUME TypeOK, QueueInv, NEW t \in Threads, PushAndWait(t)
    PROVE  QueueInv'
<1> USE NoThreadAssumption DEF QueueInv, TypeOK, SyncTypeOK, BitsTypeOK
<1>1. /\ pc[t] = "entering" /\ pc' = [pc EXCEPT ![t] = "waiting"]
      /\ queue' = Append(queue, t)
      /\ bits' = [bits EXCEPT ![t] = {}]
      /\ parked' = parked \cup {t}
      /\ frontLocked /\ frontLocked'
  BY DEF PushAndWait, Push, Goto, NewTaskState, UnlockAndPark
<1>2. \A i \in 1..Len(queue) : queue[i] # t
  BY <1>1 DEF QueuedTasksAlive
<1>3. \A u \in Threads : HasFront(u)' <=> HasFront(u)
  BY <1>1 DEF HasFront, Granted, FrontPcs
<1>4. FrontExclusive' /\ FrontIsHeld'
  BY <1>1, <1>3 DEF FrontExclusive, FrontIsHeld
<1>5. QueuedTasksAlive'
  <2>1. ASSUME NEW i \in 1..Len(queue'), NEW j \in 1..Len(queue'), queue'[i] = queue'[j]
        PROVE  i = j
    BY <2>1, <1>1, <1>2, AppendFacts DEF QueuedTasksAlive
  <2>2. ASSUME NEW u \in Threads
        PROVE pc'[u] = "waiting" <=> \E i \in 1..Len(queue') : queue'[i] = u
    <3>1. CASE u = t
      <4>1. Len(queue) + 1 \in 1..Len(queue') /\ queue'[Len(queue) + 1] = t
        BY <1>1, AppendFacts
      <4>2. QED BY <3>1, <4>1, <1>1
    <3>2. CASE u # t
      BY <3>2, <1>1, AppendFacts DEF QueuedTasksAlive
    <3>3. QED BY <3>1, <3>2
  <2>3. QED BY <2>1, <2>2 DEF QueuedTasksAlive
<1>6. WokenTaskIsHead'
  <2>1. queue' # <<>> /\ (queue # <<>> => Head(queue') = Head(queue))
    BY <1>1, AppendFacts
  <2>2. \A u \in Threads :
            FRONT_BIT \in bits'[u] => FRONT_BIT \in bits[u] /\ u # t
    BY <1>1
  <2>3. \A u \in Threads : u # t /\ u \notin parked => u \notin parked'
    BY <1>1
  <2>4. QED BY <2>1, <2>2, <2>3 DEF WokenTaskIsHead
<1>7. QED BY <1>4, <1>5, <1>6

\* The end of a wait: the thread pops the head, and that is its own task.
LEMMA ReachFrontQueue ==
    ASSUME TypeOK, QueueInv, NEW t \in Threads, ReachFront(t)
    PROVE  QueueInv'
<1> USE NoThreadAssumption DEF QueueInv, TypeOK, SyncTypeOK, BitsTypeOK
<1>1. /\ pc[t] = "waiting" /\ pc' = [pc EXCEPT ![t] = "atFront"]
      /\ queue' = Tail(queue)
      /\ FRONT_BIT \in bits[t] /\ bits' = [bits EXCEPT ![t] = {}]
      /\ parked' = parked
      /\ frontLocked' = frontLocked
  BY DEF ReachFront, Goto, NewTaskState, LeaveWait
<1>2. queue # <<>> /\ t = Head(queue) /\ t = queue[1]
  BY <1>1, HeadTail DEF WokenTaskIsHead
<1>3. \A u \in Threads : HasFront(u)' <=> HasFront(u)
  BY <1>1 DEF HasFront, Granted, FrontPcs
<1>4. FrontExclusive' /\ FrontIsHeld'
  BY <1>1, <1>2, <1>3 DEF FrontExclusive, FrontIsHeld
<1>5. QueuedTasksAlive'
  <2>1. /\ Len(queue) \in Nat \ {0} /\ Len(queue') = Len(queue) - 1
        /\ 1 \in 1..Len(queue)
        /\ \A i \in 1..Len(queue') :
            i + 1 \in 1..Len(queue) /\ 1 < i + 1 /\ queue'[i] = queue[i + 1]
    BY <1>1, <1>2, HeadTail
  <2>2. ASSUME NEW i \in 1..Len(queue'), NEW j \in 1..Len(queue'), queue'[i] = queue'[j]
        PROVE  i = j
    <3>1. queue[i + 1] = queue[j + 1] /\ i + 1 \in 1..Len(queue) /\ j + 1 \in 1..Len(queue)
      BY <2>1, <2>2
    <3>2. i + 1 = j + 1
      BY <3>1 DEF QueuedTasksAlive
    <3>3. QED BY <3>2
  <2>3. ASSUME NEW u \in Threads
        PROVE pc'[u] = "waiting" <=> \E i \in 1..Len(queue') : queue'[i] = u
    <3>1. CASE u = t
      <4>1. ASSUME NEW i \in 1..Len(queue') PROVE queue'[i] # queue[1]
        <5>1. i + 1 \in 1..Len(queue) /\ i + 1 # 1 /\ queue'[i] = queue[i + 1]
          BY <2>1
        <5>2. QED BY <2>1, <5>1 DEF QueuedTasksAlive
      <4>2. QED BY <3>1, <4>1, <1>1, <1>2
    <3>2. CASE u # t
      <4>1. pc'[u] = pc[u]
        BY <3>2, <1>1
      <4>2. ASSUME NEW i \in 1..Len(queue), queue[i] = u
            PROVE  i - 1 \in 1..Len(queue') /\ queue'[i - 1] = u
        <5>1. i # 1
           BY <1>2, <3>2, <4>2
        <5>2. i - 1 \in 1..Len(queue')
           BY <5>1, <2>1
        <5>3. i \in Nat /\ (i - 1) + 1 = i
           BY <2>1
        <5>4. QED BY <5>2, <5>3, <2>1, <4>2
      <4>3. ASSUME NEW i \in 1..Len(queue'), queue'[i] = u
            PROVE  i + 1 \in 1..Len(queue) /\ queue[i + 1] = u
        BY <2>1, <4>3
      <4>4. QED BY <4>1, <4>2, <4>3 DEF QueuedTasksAlive
    <3>3. QED BY <3>1, <3>2
  <2>4. QED BY <2>2, <2>3 DEF QueuedTasksAlive
<1>6. WokenTaskIsHead'
  BY <1>1, <1>2 DEF WokenTaskIsHead
<1>7. QED BY <1>4, <1>5, <1>6

\* A hand-over, after a return or a panic: the front moves from t to the head
\* of the queue, or is released when there is none.
LEMMA PassFrontQueue ==
    ASSUME TypeOK, QueueInv, NEW t \in Threads, pc[t] \in {"returned", "caught"},
           PassFront \/ PassFrontPanicking, NEW to \in {"idle", "guarded"},
           pc' = [pc EXCEPT ![t] = to], UNCHANGED queue
    PROVE  QueueInv'
<1> USE NoThreadAssumption DEF QueueInv, TypeOK, SyncTypeOK, BitsTypeOK
<1>1. HasFront(t) /\ \A u \in Threads : HasFront(u) => u = t
  BY DEF HasFront, FrontPcs, FrontExclusive
<1>2. \A u \in Threads : pc'[u] = "waiting" <=> pc[u] = "waiting"
  OBVIOUS
<1>3. QueuedTasksAlive'
  BY <1>2 DEF QueuedTasksAlive
<1>4. CASE queue = <<>>
  <2>1. ~frontLocked' /\ UNCHANGED <<bits, parked>>
    BY <1>4 DEF PassFront, PassFrontPanicking
  <2>2. \A u \in Threads : ~HasFront(u)'
    BY <2>1, <1>1 DEF HasFront, FrontPcs, Granted
  <2>3. QED BY <1>3, <1>4, <2>1, <2>2 DEF FrontExclusive, FrontIsHeld, WokenTaskIsHead
<1>5. CASE queue # <<>>
  <2> DEFINE h == Head(queue)
  <2>1. PICK new \in {{FRONT_BIT}, {PANIC_BIT, FRONT_BIT}} :
            /\ bits' = [bits EXCEPT ![h] = @ \cup new]
            /\ parked' = parked \ {h}
            /\ frontLocked' = frontLocked
    BY <1>5 DEF PassFront, PassFrontPanicking, wake_front_task, wake_front_task_panicking,
       OrBitsAndNotify, NotifyOne
  <2>2. h \in Threads /\ pc[h] = "waiting" /\ h # t
    BY <1>5, HeadTail DEF QueuedTasksAlive
  <2>3. \A u \in Threads : FRONT_BIT \in bits'[u] <=> u = h
    BY <2>1, <2>2, <1>1 DEF WokenTaskIsHead, HasFront, Granted
  <2>4. \A u \in Threads : HasFront(u)' <=> u = h
    BY <2>2, <2>3, <1>1, <1>2 DEF HasFront, FrontPcs, Granted
  <2>5. frontLocked
    BY <1>1 DEF FrontExclusive
  <2>6. FrontExclusive' /\ FrontIsHeld'
    BY <2>1, <2>2, <2>4, <2>5 DEF FrontExclusive, FrontIsHeld
  <2>7. WokenTaskIsHead'
    BY <1>5, <2>1, <2>3 DEF WokenTaskIsHead
  <2>8. QED BY <1>3, <2>6, <2>7
<1>6. QED BY <1>4, <1>5

\* The expect of QueueHandle::pop holds: there is a task, and it has a value.
LEMMA PopSucceeds ==
    ASSUME TypeOK, HandleAtFirstUnprocessed, NEW t \in Threads, Pop(t)
    PROVE  /\ nextIdx[t] + 1 \in 1..Len(queue)
           /\ queue[nextIdx[t] + 1] \in Threads
           /\ value[queue[nextIdx[t] + 1]]
           /\ value' = [value EXCEPT ![queue[nextIdx[t] + 1]] = FALSE]
           /\ fate' = [fate EXCEPT ![queue[nextIdx[t] + 1]] = "inCallback"]
           /\ UNCHANGED <<pc, queue>>
<1>1. nextIdx[t] \in Nat /\ Len(queue) \in Nat /\ nextIdx[t] < Len(queue)
  BY DEF Pop, TypeOK
<1>2. nextIdx[t] + 1 \in 1..Len(queue) /\ nextIdx[t] + 1 > nextIdx[t]
  BY <1>1
<1>3. queue[nextIdx[t] + 1] \in Threads
  BY <1>2 DEF TypeOK
<1>4. pc[t] = "processing"
  BY DEF Pop
<1>5. value[queue[nextIdx[t] + 1]]
  BY <1>2, <1>4 DEF HandleAtFirstUnprocessed, HandlePcs
<1>6. QED BY <1>2, <1>3, <1>5 DEF Pop, SetFate

\* A push adds a Some at the end, behind every next_idx.
LEMMA PushValues ==
    ASSUME TypeOK, QueueInv, ValueInv, NEW t \in Threads, PushAndWait(t)
    PROVE  ValueInv'
<1> USE DEF TypeOK
<1>1. /\ pc[t] = "entering" /\ pc' = [pc EXCEPT ![t] = "waiting"]
      /\ queue' = Append(queue, t)
      /\ value' = [value EXCEPT ![t] = TRUE]
      /\ UNCHANGED <<nextIdx, outcome>>
  BY DEF PushAndWait, Push, Goto
<1>2. ASSUME NEW i \in 1..Len(queue) PROVE queue[i] \in Threads /\ queue[i] # t
  <2>1. queue[i] \in Threads
    OBVIOUS
  <2>2. pc[queue[i]] = "waiting"
    BY <2>1 DEF QueueInv, QueuedTasksAlive
  <2>3. QED BY <1>1, <2>1, <2>2
<1>3. /\ Len(queue) \in Nat /\ Len(queue') = Len(queue) + 1
      /\ \A i \in 1..Len(queue) : value'[queue'[i]] = value[queue[i]]
      /\ value'[queue'[Len(queue) + 1]]
  <2>1. /\ Len(queue) \in Nat /\ Len(queue') = Len(queue) + 1
        /\ \A i \in 1..Len(queue) : queue'[i] = queue[i]
        /\ queue'[Len(queue) + 1] = t
    BY <1>1, AppendFacts
  <2>2. QED BY <1>1, <1>2, <2>1
<1>4. HandleAtFirstUnprocessed'
  <2> SUFFICES ASSUME NEW u \in Threads, pc'[u] \in HandlePcs
               PROVE  /\ nextIdx'[u] <= Len(queue')
                      /\ \A i \in 1..Len(queue') : value'[queue'[i]] <=> i > nextIdx'[u]
    BY DEF HandleAtFirstUnprocessed, HandlePcs
  <2>1. /\ nextIdx'[u] = nextIdx[u] /\ nextIdx[u] \in Nat /\ nextIdx[u] <= Len(queue)
        /\ \A i \in 1..Len(queue) : value[queue[i]] <=> i > nextIdx[u]
    <3>1. u # t /\ pc[u] \in HandlePcs
      BY <1>1 DEF HandlePcs
    <3>2. QED BY <1>1, <3>1 DEF ValueInv, HandleAtFirstUnprocessed
  <2>2. ASSUME NEW i \in 1..Len(queue') PROVE value'[queue'[i]] <=> i > nextIdx'[u]
    <3>1. i \in 1..Len(queue) \/ i = Len(queue) + 1
      BY <1>3, LastIndex
    <3>2. CASE i \in 1..Len(queue)
      BY <1>3, <2>1, <3>2
    <3>3. CASE i = Len(queue) + 1
      BY <1>3, <2>1, <3>3
    <3>4. QED BY <3>1, <3>2, <3>3
  <2>3. QED BY <1>3, <2>1, <2>2
<1>5. NonesThenSomes'
  <2>1. \A i \in 1..Len(queue') : i \in 1..Len(queue) \/ i = Len(queue) + 1
    BY <1>3, LastIndex
  <2>2. ASSUME NEW i \in 1..Len(queue'), NEW j \in 1..Len(queue'),
               i < j, value'[queue'[i]]
        PROVE  value'[queue'[j]]
    <3>1. CASE j = Len(queue) + 1
      BY <1>3, <3>1
    <3>2. CASE j \in 1..Len(queue)
      <4>1. i \in 1..Len(queue)
        BY <1>3, <2>1, <2>2, <3>2
      <4>2. value[queue[j]]
        BY <1>3, <2>2, <3>2, <4>1 DEF ValueInv, NonesThenSomes
      <4>3. QED BY <1>3, <3>2, <4>2
    <3>3. QED BY <2>1, <3>1, <3>2
  <2>3. ASSUME NEW u \in Threads,
               pc'[u] = "begin" \/ (pc'[u] = "atFront" /\ outcome'[u] = "Process")
        PROVE  \A i \in 1..Len(queue') : value'[queue'[i]]
    <3>1. \A i \in 1..Len(queue) : value[queue[i]]
      BY <1>1, <2>3 DEF ValueInv, NonesThenSomes
    <3>2. QED BY <1>3, <2>1, <3>1
  <2>4. QED BY <2>2, <2>3 DEF NonesThenSomes
<1>6. QED BY <1>4, <1>5 DEF ValueInv

\* The end of a wait removes the oldest task; if that was a Some, all are.
LEMMA ReachFrontValues ==
    ASSUME TypeOK, QueueInv, ValueInv, NEW t \in Threads, ReachFront(t)
    PROVE  ValueInv'
<1> USE DEF TypeOK, BitsTypeOK
<1>1. /\ pc[t] = "waiting" /\ FRONT_BIT \in bits[t]
      /\ pc' = [pc EXCEPT ![t] = "atFront"]
      /\ queue' = Tail(queue)
      /\ value' = [value EXCEPT ![t] = FALSE]
      /\ outcome' = [outcome EXCEPT ![t] = WaitResult(t)]
  BY DEF ReachFront, Goto, LeaveWait, SetOutcome
<1>2. queue # <<>> /\ t = Head(queue) /\ t = queue[1]
  BY <1>1, HeadTail DEF QueueInv, WokenTaskIsHead
<1>3. /\ Len(queue) \in Nat \ {0} /\ Len(queue') = Len(queue) - 1
      /\ 1 \in 1..Len(queue)
      /\ \A i \in 1..Len(queue') :
          i + 1 \in 1..Len(queue) /\ 1 < i + 1 /\ queue'[i] = queue[i + 1]
  BY <1>1, <1>2, HeadTail
<1>4. \A i \in 1..Len(queue') : value'[queue'[i]] = value[queue[i + 1]]
  <2> TAKE i \in 1..Len(queue')
  <2>1. queue[i + 1] # queue[1]
    <3>1. i + 1 \in 1..Len(queue) /\ 1 \in 1..Len(queue) /\ i + 1 # 1
      BY <1>3
    <3>2. QED BY <3>1 DEF QueueInv, QueuedTasksAlive
  <2>2. QED BY <1>1, <1>2, <1>3, <2>1
<1>5. \A u \in Threads : u # t => ~HasFront(u)
  BY <1>1 DEF QueueInv, FrontExclusive, HasFront, Granted
<1>6. HandleAtFirstUnprocessed'
  BY <1>1, <1>5 DEF HandleAtFirstUnprocessed, HandlePcs, HasFront, FrontPcs
<1>7. NonesThenSomes'
  <2>1. ASSUME NEW i \in 1..Len(queue'), NEW j \in 1..Len(queue'),
               i < j, value'[queue'[i]]
        PROVE  value'[queue'[j]]
    <3>1. i + 1 < j + 1 /\ value[queue[i + 1]]
      BY <1>4, <2>1
    <3>2. i + 1 \in 1..Len(queue) /\ j + 1 \in 1..Len(queue)
      BY <1>3
    <3>3. value[queue[j + 1]]
      BY <3>1, <3>2 DEF ValueInv, NonesThenSomes
    <3>4. QED BY <1>4, <3>3
  <2>2. ASSUME value[t] PROVE \A i \in 1..Len(queue') : value'[queue'[i]]
    <3>1. \A i \in 1..Len(queue) : 1 < i => value[queue[i]]
      BY <1>2, <1>3, <2>2 DEF ValueInv, NonesThenSomes
    <3>2. QED BY <1>3, <1>4, <3>1
  <2>3. ASSUME NEW u \in Threads,
               pc'[u] = "begin" \/ (pc'[u] = "atFront" /\ outcome'[u] = "Process")
        PROVE  value[t]
    <3>1. u = t
      BY <1>1, <1>5, <2>3 DEF HasFront, FrontPcs
    <3>2. outcome'[t] = WaitResult(t)
      BY <1>1
    <3>3. QED BY <1>1, <2>3, <3>1, <3>2 DEF WaitResult
  <2>4. QED BY <2>1, <2>2, <2>3 DEF NonesThenSomes
<1>8. QED BY <1>6, <1>7 DEF ValueInv

\* pop empties the oldest Some and moves next_idx behind it.
LEMMA PopValues ==
    ASSUME TypeOK, QueueInv, ValueInv, NEW t \in Threads, Pop(t)
    PROVE  ValueInv'
<1> USE DEF TypeOK
<1> DEFINE n == nextIdx[t] + 1
<1>1. /\ n \in 1..Len(queue) /\ queue[n] \in Threads
      /\ value' = [value EXCEPT ![queue[n]] = FALSE]
      /\ pc' = pc /\ queue' = queue
  BY PopSucceeds DEF ValueInv
<1>2. pc[t] = "processing" /\ nextIdx' = [nextIdx EXCEPT ![t] = n] /\ outcome' = outcome
  BY DEF Pop
<1>3. \A i \in 1..Len(queue) : value'[queue[i]] <=> value[queue[i]] /\ i # n
  BY <1>1 DEF QueueInv, QueuedTasksAlive
<1>4. \A u \in Threads : pc[u] \in FrontPcs => u = t
  BY <1>2 DEF QueueInv, FrontExclusive, HasFront, FrontPcs
<1>5. /\ nextIdx[t] \in Nat /\ n = nextIdx[t] + 1
      /\ \A i \in 1..Len(queue) : value[queue[i]] <=> i > nextIdx[t]
  BY <1>2 DEF ValueInv, HandleAtFirstUnprocessed, HandlePcs
<1>6. \A i \in 1..Len(queue) : value'[queue[i]] <=> i > n
  <2> TAKE i \in 1..Len(queue)
  <2>1. i \in Nat
    OBVIOUS
  <2>2. i > n <=> i > nextIdx[t] /\ i # n
    BY <1>5, <2>1, Above
  <2>3. QED BY <1>3, <1>5, <2>2
<1>7. HandleAtFirstUnprocessed'
  <2> SUFFICES ASSUME NEW u \in Threads, pc'[u] \in HandlePcs
               PROVE  /\ nextIdx'[u] <= Len(queue')
                      /\ \A i \in 1..Len(queue') : value'[queue'[i]] <=> i > nextIdx'[u]
    BY DEF HandleAtFirstUnprocessed, HandlePcs
  <2>1. u = t
    BY <1>1, <1>4 DEF HandlePcs, FrontPcs
  <2>2. nextIdx'[u] = n /\ n <= Len(queue)
    BY <1>1, <1>2, <2>1
  <2>3. QED BY <1>1, <1>6, <2>2
<1>8. NonesThenSomes'
  <2>1. \A i, j \in 1..Len(queue) : i < j /\ i > n => j > n
    BY <1>5
  <2>2. \A u \in Threads : pc'[u] \notin {"begin", "atFront"}
    BY <1>1, <1>2, <1>4 DEF FrontPcs
  <2>3. QED BY <1>1, <1>6, <2>1, <2>2 DEF NonesThenSomes
<1>9. QED BY <1>7, <1>8 DEF ValueInv

\* A bounded or unbounded count stays a number.
LEMMA SpendCallType ==
    ASSUME calls \in [Threads -> Nat], NEW t \in Threads, SpendCall(t)
    PROVE  calls' \in [Threads -> Nat]
<1>1. CASE MaxCalls = Unbounded
  BY <1>1 DEF SpendCall
<1>2. CASE calls' = [calls EXCEPT ![t] = @ + 1]
  BY <1>2
<1>3. QED BY <1>1, <1>2 DEF SpendCall

\* Waking a task of a thread keeps the types.
LEMMA OrType ==
    ASSUME BitsTypeOK, parked \subseteq Threads, NEW t \in Threads,
           NEW new \in SUBSET {FRONT_BIT, PANIC_BIT}, OrBitsAndNotify(t, new)
    PROVE  BitsTypeOK' /\ parked' \subseteq Threads
BY DEF OrBitsAndNotify, NotifyOne, BitsTypeOK

\* A hand-over wakes a task of a thread.
LEMMA PassFrontType ==
    ASSUME TypeOK, PassFront \/ PassFrontPanicking
    PROVE  BitsTypeOK' /\ parked' \subseteq Threads /\ frontLocked' \in BOOLEAN
<1> USE DEF TypeOK, SyncTypeOK, BitsTypeOK
<1>1. CASE queue = <<>>
  BY <1>1 DEF PassFront, PassFrontPanicking
<1>2. CASE queue # <<>>
  <2>1. Head(queue) \in Threads
    BY HeadTail, <1>2
  <2>2. frontLocked' = frontLocked
    BY <1>2 DEF PassFront, PassFrontPanicking
  <2>3. \/ OrBitsAndNotify(Head(queue), {FRONT_BIT})
        \/ OrBitsAndNotify(Head(queue), {PANIC_BIT, FRONT_BIT})
    BY <1>2 DEF PassFront, PassFrontPanicking, wake_front_task, wake_front_task_panicking
  <2>4. QED BY <2>1, <2>2, <2>3, OrType
<1>3. QED BY <1>1, <1>2

\* Every step keeps the types.
LEMMA TypeStep ==
    ASSUME TypeOK, QueueInv, ValueInv, [Next]_vars
    PROVE  TypeOK'
<1> USE NoThreadAssumption DEF TypeOK, SyncTypeOK, BitsTypeOK, PC, Outcomes,
     Fates, FRONT_BIT, PANIC_BIT
<1>1. ASSUME NEW t \in Threads, UserStep(t) PROVE TypeOK'
  <2>1. CASE UserLock(t)
    BY <2>1, SpendCallType DEF UserLock, Goto, Lock, queueVars, constVars
  <2>2. CASE UserUnlock(t)
    BY <2>2 DEF UserUnlock, Goto, DropGuard, queueVars, constVars
  <2>3. CASE UserPanic(t)
    BY <2>3 DEF UserPanic, Goto, DropGuardUnwinding, queueVars, constVars
  <2>4. CASE ClearQueuePoison(t)
    BY <2>4 DEF ClearQueuePoison, syncVars, callVars, constVars
  <2>5. CASE process(t)
    BY <2>5, SpendCallType DEF process, Enter, Goto, queueVars, constVars
  <2>6. CASE lock_and_process(t)
    BY <2>6, SpendCallType DEF lock_and_process, Lock, Enter, Goto, queueVars,
         constVars
  <2>7. CASE LockIsPoisoned(t)
    BY <2>7, SpendCallType DEF LockIsPoisoned, DropGuardUnwinding, queueVars,
         callVars, constVars
  <2>8. CASE ClosurePoisonsMutex(t)
    BY <2>8 DEF ClosurePoisonsMutex, DropGuardUnwinding, queueVars, callVars,
         constVars
  <2>9. QED BY <1>1, <2>1, <2>2, <2>3, <2>4, <2>5, <2>6, <2>7, <2>8 DEF UserStep
<1>2. ASSUME NEW t \in Threads, CallStep(t) PROVE TypeOK'
  <2>1. CASE TakeFront(t)
    BY <2>1 DEF TakeFront, Goto, try_acquire_front_fast, SetFate, syncVars,
         constVars
  <2>2. CASE PushAndWait(t)
    BY <2>2 DEF PushAndWait, Push, Goto, NewTaskState, UnlockAndPark, SetFate,
         constVars
  <2>3. CASE ReachFront(t)
    <3>1. queue # <<>>
      BY <2>3 DEF ReachFront, LeaveWait, QueueInv, WokenTaskIsHead
    <3>2. Tail(queue) \in Seq(Threads) /\ WaitResult(t) \in Outcomes
      BY <3>1, HeadTail DEF WaitResult
    <3>3. QED
      BY <2>3, <3>2 DEF ReachFront, Goto, LeaveWait, SetOutcome, NewTaskState, constVars
  <2>4. CASE QueuePoisonPanic(t)
    BY <2>4 DEF QueuePoisonPanic, Goto, DropGuardUnwinding, queueVars,
         constVars
  <2>5. CASE TakeOwnValue(t)
    BY <2>5 DEF TakeOwnValue, AfterWait, Goto, syncVars, queueVars, constVars
  <2>6. CASE ReturnUnprocessed(t)
    BY <2>6 DEF ReturnUnprocessed, AfterWait, Goto, syncVars, queueVars,
         constVars
  <2>7. CASE MutexPoisonPanic(t)
    BY <2>7 DEF MutexPoisonPanic, Goto, DropGuardUnwinding, queueVars,
         constVars
  <2>8. CASE StartCallback(t)
    BY <2>8 DEF StartCallback, Goto, NewHandle, SetFate, syncVars, queueVars,
         constVars
  <2>9. CASE HandOff(t)
    <3>1. PassFront
      BY <2>9 DEF HandOff
    <3>2. QED
      BY <2>9, <3>1, PassFrontType DEF HandOff, Goto, CallEnds, SetFate, constVars
  <2>10. CASE CatchUnwind(t)
    <3>1. PassFrontPanicking
      BY <2>10 DEF CatchUnwind
    <3>2. QED
      BY <2>10, <3>1, PassFrontType DEF CatchUnwind, Goto, CallEnds, SetFate, constVars
  <2>11. QED BY <1>2, <2>1, <2>2, <2>3, <2>4, <2>5, <2>6, <2>7, <2>8, <2>9,
       <2>10 DEF CallStep
<1>3. ASSUME NEW t \in Threads, HandleStep(t) PROVE TypeOK'
  <2>1. CASE Pop(t)
    <3>1. PICK n \in Nat, u \in Threads :
            /\ UNCHANGED pc
            /\ value' = [value EXCEPT ![u] = FALSE]
            /\ fate' = [fate EXCEPT ![u] = "inCallback"]
            /\ nextIdx' = [nextIdx EXCEPT ![t] = n]
      <4>1. nextIdx[t] + 1 \in Nat /\ nextIdx' = [nextIdx EXCEPT ![t] = nextIdx[t] + 1]
        BY <2>1 DEF Pop
      <4>2. QED BY <2>1, <4>1, PopSucceeds DEF ValueInv
    <3>2. UNCHANGED <<syncVars, bits, options, frontLocked, queuePoisoned, queue,
                      entry, outcome, aborted, calls>>
      BY <2>1 DEF Pop
    <3>3. QED BY <3>1, <3>2 DEF syncVars
  <2>2. CASE HandleClearsPoison(t)
    BY <2>2 DEF HandleClearsPoison, syncVars, callVars
  <2>3. CASE Unlocked(t)
    BY <2>3 DEF Unlocked, Goto, DropGuard, queueVars, constVars
  <2>4. CASE ClosureReturns(t)
    BY <2>4 DEF ClosureReturns, Goto, syncVars, queueVars, constVars
  <2>5. CASE ClosurePanics(t)
    BY <2>5 DEF ClosurePanics, Goto, SettleFates, syncVars, queueVars,
         constVars
  <2>6. CASE RelockAndResume(t)
    BY <2>6 DEF RelockAndResume, Goto, Lock, queueVars, constVars
  <2>7. CASE RelockAndUnwind(t)
    BY <2>7 DEF RelockAndUnwind, Goto, Lock, queueVars, constVars
  <2>8. CASE CallbackReturns(t)
    BY <2>8 DEF CallbackReturns, Goto, SetOutcome, SettleFates, syncVars,
         queueVars, constVars
  <2>9. CASE CallbackPanics(t)
    BY <2>9 DEF CallbackPanics, Goto, SettleFates, syncVars, queueVars,
         constVars
  <2>10. QED BY <1>3, <2>1, <2>2, <2>3, <2>4, <2>5, <2>6, <2>7, <2>8, <2>9 DEF
       HandleStep
<1>4. ASSUME NEW t \in Threads, EnvStep(t) PROVE TypeOK'
  <2>1. CASE PushAborts(t)
    BY <2>1 DEF PushAborts, syncVars, queueVars, callVars
  <2>2. CASE SpuriousWakeup(t)
    BY <2>2 DEF SpuriousWakeup, queueVars, callVars, constVars
  <2>3. CASE KeepWaiting(t)
    BY <2>3 DEF KeepWaiting, WaitAgain, CanRelock, callVars, constVars
  <2>4. QED BY <1>4, <2>1, <2>2, <2>3 DEF EnvStep
<1>5. CASE ClearMutexPoison
  BY <1>5 DEF ClearMutexPoison, queueVars, callVars, constVars
<1>6. CASE UNCHANGED vars
  BY <1>6 DEF vars
<1>7. QED BY <1>1, <1>2, <1>3, <1>4, <1>5, <1>6 DEF Next, Terminated

\* Every step keeps the guard where it belongs.
LEMMA GuardStep ==
    ASSUME TypeOK, ValueInv, GuardDiscipline, [Next]_vars
    PROVE  GuardDiscipline'
<1> USE NoThreadAssumption DEF GuardDiscipline, GuardPcs, TypeOK, SyncTypeOK,
     PC
<1>1. ASSUME NEW t \in Threads, UserStep(t) PROVE GuardDiscipline'
  <2>1. CASE UserLock(t)
    BY <2>1 DEF UserLock, Goto, Lock, queueVars, constVars
  <2>2. CASE UserUnlock(t)
    BY <2>2 DEF UserUnlock, Goto, DropGuard, queueVars, constVars
  <2>3. CASE UserPanic(t)
    BY <2>3 DEF UserPanic, Goto, DropGuardUnwinding, queueVars, constVars
  <2>4. CASE ClearQueuePoison(t)
    BY <2>4 DEF ClearQueuePoison, syncVars, callVars, constVars
  <2>5. CASE process(t)
    BY <2>5 DEF process, Enter, Goto, queueVars, constVars
  <2>6. CASE lock_and_process(t)
    BY <2>6 DEF lock_and_process, Lock, Enter, Goto, queueVars, constVars
  <2>7. CASE LockIsPoisoned(t)
    BY <2>7 DEF LockIsPoisoned, DropGuardUnwinding, queueVars, callVars,
         constVars
  <2>8. CASE ClosurePoisonsMutex(t)
    BY <2>8 DEF ClosurePoisonsMutex, DropGuardUnwinding, queueVars, callVars,
         constVars
  <2>9. QED BY <1>1, <2>1, <2>2, <2>3, <2>4, <2>5, <2>6, <2>7, <2>8 DEF UserStep
<1>2. ASSUME NEW t \in Threads, CallStep(t) PROVE GuardDiscipline'
  <2>1. CASE TakeFront(t)
    BY <2>1 DEF TakeFront, Goto, try_acquire_front_fast, SetFate, syncVars,
         constVars
  <2>2. CASE PushAndWait(t)
    BY <2>2 DEF PushAndWait, Push, Goto, NewTaskState, UnlockAndPark, SetFate,
         constVars
  <2>3. CASE ReachFront(t)
    BY <2>3 DEF ReachFront, Goto, LeaveWait, CanRelock, SetOutcome,
         NewTaskState, constVars
  <2>4. CASE QueuePoisonPanic(t)
    BY <2>4 DEF QueuePoisonPanic, Goto, DropGuardUnwinding, queueVars,
         constVars
  <2>5. CASE TakeOwnValue(t)
    BY <2>5 DEF TakeOwnValue, AfterWait, Goto, syncVars, queueVars, constVars
  <2>6. CASE ReturnUnprocessed(t)
    BY <2>6 DEF ReturnUnprocessed, AfterWait, Goto, syncVars, queueVars,
         constVars
  <2>7. CASE MutexPoisonPanic(t)
    BY <2>7 DEF MutexPoisonPanic, Goto, DropGuardUnwinding, queueVars,
         constVars
  <2>8. CASE StartCallback(t)
    BY <2>8 DEF StartCallback, Goto, NewHandle, SetFate, syncVars, queueVars,
         constVars
  <2>9. CASE HandOff(t)
    BY <2>9 DEF HandOff, Goto, CallEnds, SetFate, constVars
  <2>10. CASE CatchUnwind(t)
    BY <2>10 DEF CatchUnwind, Goto, CallEnds, SetFate, constVars
  <2>11. QED BY <1>2, <2>1, <2>2, <2>3, <2>4, <2>5, <2>6, <2>7, <2>8, <2>9,
       <2>10 DEF CallStep
<1>3. ASSUME NEW t \in Threads, HandleStep(t) PROVE GuardDiscipline'
  <2>1. CASE Pop(t)
    BY <2>1, PopSucceeds DEF ValueInv, Pop, syncVars
  <2>2. CASE HandleClearsPoison(t)
    BY <2>2 DEF HandleClearsPoison, syncVars, callVars
  <2>3. CASE Unlocked(t)
    BY <2>3 DEF Unlocked, Goto, DropGuard, queueVars, constVars
  <2>4. CASE ClosureReturns(t)
    BY <2>4 DEF ClosureReturns, Goto, syncVars, queueVars, constVars
  <2>5. CASE ClosurePanics(t)
    BY <2>5 DEF ClosurePanics, Goto, SettleFates, syncVars, queueVars,
         constVars
  <2>6. CASE RelockAndResume(t)
    BY <2>6 DEF RelockAndResume, Goto, Lock, queueVars, constVars
  <2>7. CASE RelockAndUnwind(t)
    BY <2>7 DEF RelockAndUnwind, Goto, Lock, queueVars, constVars
  <2>8. CASE CallbackReturns(t)
    BY <2>8 DEF CallbackReturns, Goto, SetOutcome, SettleFates, syncVars,
         queueVars, constVars
  <2>9. CASE CallbackPanics(t)
    BY <2>9 DEF CallbackPanics, Goto, SettleFates, syncVars, queueVars,
         constVars
  <2>10. QED BY <1>3, <2>1, <2>2, <2>3, <2>4, <2>5, <2>6, <2>7, <2>8, <2>9 DEF
       HandleStep
<1>4. ASSUME NEW t \in Threads, EnvStep(t) PROVE GuardDiscipline'
  <2>1. CASE PushAborts(t)
    BY <2>1 DEF PushAborts, syncVars, queueVars, callVars
  <2>2. CASE SpuriousWakeup(t)
    BY <2>2 DEF SpuriousWakeup, queueVars, callVars, constVars
  <2>3. CASE KeepWaiting(t)
    BY <2>3 DEF KeepWaiting, WaitAgain, CanRelock, callVars, constVars
  <2>4. QED BY <1>4, <2>1, <2>2, <2>3 DEF EnvStep
<1>5. CASE ClearMutexPoison
  BY <1>5 DEF ClearMutexPoison, queueVars, callVars, constVars
<1>6. CASE UNCHANGED vars
  BY <1>6 DEF vars
<1>7. QED BY <1>1, <1>2, <1>3, <1>4, <1>5, <1>6 DEF Next, Terminated

\* A step that moves neither the front, nor the queue, nor a value.
QuietStep ==
    /\ UNCHANGED <<queue, bits, value, frontLocked>>
    /\ \A u \in Threads :
        /\ pc'[u] \in FrontPcs <=> pc[u] \in FrontPcs
        /\ pc'[u] = "waiting" <=> pc[u] = "waiting"
        /\ u \in parked' => u \in parked \/ FRONT_BIT \notin bits[u]
        /\ \/ outcome'[u] = outcome[u]
           \/ pc[u] = "processing" /\ outcome'[u] = "Processed"

StepKinds ==
    \/ QuietStep
    \/ \E t \in Threads :
        \/ TakeFront(t)
        \/ PushAndWait(t)
        \/ ReachFront(t)
        \/ Pop(t)
        \/ HandOff(t)
        \/ CatchUnwind(t)

\* Six actions matter to who has the front and who waits; the rest is quiet.
LEMMA StepCases ==
    ASSUME TypeOK, [Next]_vars
    PROVE  StepKinds
<1> USE DEF QuietStep, FrontPcs, TypeOK, SyncTypeOK
<1>0. QuietStep => StepKinds
  BY DEF StepKinds
<1>1. ASSUME NEW t \in Threads, UserStep(t) PROVE StepKinds
  <2>1. CASE UserLock(t)
    <3>1. QuietStep
      BY <2>1 DEF UserLock, Goto, Lock, queueVars, constVars
    <3>2. QED BY <1>0, <3>1
  <2>2. CASE UserUnlock(t)
    <3>1. QuietStep
      BY <2>2 DEF UserUnlock, Goto, DropGuard, queueVars, constVars
    <3>2. QED BY <1>0, <3>1
  <2>3. CASE UserPanic(t)
    <3>1. QuietStep
      BY <2>3 DEF UserPanic, Goto, DropGuardUnwinding, queueVars, constVars
    <3>2. QED BY <1>0, <3>1
  <2>4. CASE ClearQueuePoison(t)
    <3>1. QuietStep
      BY <2>4 DEF ClearQueuePoison, syncVars, callVars, constVars
    <3>2. QED BY <1>0, <3>1
  <2>5. CASE process(t)
    <3>1. QuietStep
      BY <2>5 DEF process, Enter, Goto, queueVars, constVars
    <3>2. QED BY <1>0, <3>1
  <2>6. CASE lock_and_process(t)
    <3>1. QuietStep
      BY <2>6 DEF lock_and_process, Lock, Enter, Goto, queueVars, constVars
    <3>2. QED BY <1>0, <3>1
  <2>7. CASE LockIsPoisoned(t)
    <3>1. QuietStep
      BY <2>7 DEF LockIsPoisoned, DropGuardUnwinding, queueVars, callVars,
           constVars
    <3>2. QED BY <1>0, <3>1
  <2>8. CASE ClosurePoisonsMutex(t)
    <3>1. QuietStep
      BY <2>8 DEF ClosurePoisonsMutex, DropGuardUnwinding, queueVars, callVars,
           constVars
    <3>2. QED BY <1>0, <3>1
  <2>9. QED BY <1>1, <2>1, <2>2, <2>3, <2>4, <2>5, <2>6, <2>7, <2>8 DEF UserStep
<1>2. ASSUME NEW t \in Threads, CallStep(t) PROVE StepKinds
  <2>1. CASE TakeFront(t)
    BY <2>1 DEF StepKinds
  <2>2. CASE PushAndWait(t)
    BY <2>2 DEF StepKinds
  <2>3. CASE ReachFront(t)
    BY <2>3 DEF StepKinds
  <2>4. CASE QueuePoisonPanic(t)
    <3>1. QuietStep
      BY <2>4 DEF QueuePoisonPanic, Goto, DropGuardUnwinding, queueVars,
           constVars
    <3>2. QED BY <1>0, <3>1
  <2>5. CASE TakeOwnValue(t)
    <3>1. QuietStep
      BY <2>5 DEF TakeOwnValue, AfterWait, Goto, syncVars, queueVars, constVars
    <3>2. QED BY <1>0, <3>1
  <2>6. CASE ReturnUnprocessed(t)
    <3>1. QuietStep
      BY <2>6 DEF ReturnUnprocessed, AfterWait, Goto, syncVars, queueVars,
           constVars
    <3>2. QED BY <1>0, <3>1
  <2>7. CASE MutexPoisonPanic(t)
    <3>1. QuietStep
      BY <2>7 DEF MutexPoisonPanic, Goto, DropGuardUnwinding, queueVars,
           constVars
    <3>2. QED BY <1>0, <3>1
  <2>8. CASE StartCallback(t)
    <3>1. QuietStep
      BY <2>8 DEF StartCallback, Goto, NewHandle, SetFate, syncVars, queueVars,
           constVars
    <3>2. QED BY <1>0, <3>1
  <2>9. CASE HandOff(t)
    BY <2>9 DEF StepKinds
  <2>10. CASE CatchUnwind(t)
    BY <2>10 DEF StepKinds
  <2>11. QED BY <1>2, <2>1, <2>2, <2>3, <2>4, <2>5, <2>6, <2>7, <2>8, <2>9,
       <2>10 DEF CallStep
<1>3. ASSUME NEW t \in Threads, HandleStep(t) PROVE StepKinds
  <2>1. CASE Pop(t)
    BY <2>1 DEF StepKinds
  <2>2. CASE HandleClearsPoison(t)
    <3>1. QuietStep
      BY <2>2 DEF HandleClearsPoison, syncVars, callVars
    <3>2. QED BY <1>0, <3>1
  <2>3. CASE Unlocked(t)
    <3>1. QuietStep
      BY <2>3 DEF Unlocked, Goto, DropGuard, queueVars, constVars
    <3>2. QED BY <1>0, <3>1
  <2>4. CASE ClosureReturns(t)
    <3>1. QuietStep
      BY <2>4 DEF ClosureReturns, Goto, syncVars, queueVars, constVars
    <3>2. QED BY <1>0, <3>1
  <2>5. CASE ClosurePanics(t)
    <3>1. QuietStep
      BY <2>5 DEF ClosurePanics, Goto, SettleFates, syncVars, queueVars,
           constVars
    <3>2. QED BY <1>0, <3>1
  <2>6. CASE RelockAndResume(t)
    <3>1. QuietStep
      BY <2>6 DEF RelockAndResume, Goto, Lock, queueVars, constVars
    <3>2. QED BY <1>0, <3>1
  <2>7. CASE RelockAndUnwind(t)
    <3>1. QuietStep
      BY <2>7 DEF RelockAndUnwind, Goto, Lock, queueVars, constVars
    <3>2. QED BY <1>0, <3>1
  <2>8. CASE CallbackReturns(t)
    <3>1. QuietStep
      BY <2>8 DEF CallbackReturns, Goto, SetOutcome, SettleFates, syncVars,
           queueVars, constVars
    <3>2. QED BY <1>0, <3>1
  <2>9. CASE CallbackPanics(t)
    <3>1. QuietStep
      BY <2>9 DEF CallbackPanics, Goto, SettleFates, syncVars, queueVars,
           constVars
    <3>2. QED BY <1>0, <3>1
  <2>10. QED BY <1>3, <2>1, <2>2, <2>3, <2>4, <2>5, <2>6, <2>7, <2>8, <2>9 DEF
       HandleStep
<1>4. ASSUME NEW t \in Threads, EnvStep(t) PROVE StepKinds
  <2>1. CASE PushAborts(t)
    <3>1. QuietStep
      BY <2>1 DEF PushAborts, syncVars, queueVars, callVars
    <3>2. QED BY <1>0, <3>1
  <2>2. CASE SpuriousWakeup(t)
    <3>1. QuietStep
      BY <2>2 DEF SpuriousWakeup, queueVars, callVars, constVars
    <3>2. QED BY <1>0, <3>1
  <2>3. CASE KeepWaiting(t)
    <3>1. QuietStep
      BY <2>3 DEF KeepWaiting, WaitAgain, CanRelock, callVars, constVars
    <3>2. QED BY <1>0, <3>1
  <2>4. QED BY <1>4, <2>1, <2>2, <2>3 DEF EnvStep
<1>5. CASE ClearMutexPoison
  <2>1. QuietStep
    BY <1>5 DEF ClearMutexPoison, queueVars, callVars, constVars
  <2>2. QED BY <1>0, <2>1
<1>6. CASE UNCHANGED vars
  <2>1. QuietStep
    BY <1>6 DEF vars
  <2>2. QED BY <1>0, <2>1
<1>7. QED BY <1>1, <1>2, <1>3, <1>4, <1>5, <1>6 DEF Next, Terminated

\* A quiet step keeps front and queue.
LEMMA QuietQueue ==
    ASSUME QueueInv, QuietStep
    PROVE  QueueInv'
<1>1. \A t \in Threads : HasFront(t)' <=> HasFront(t)
  BY DEF QuietStep, HasFront, Granted
<1>2. FrontExclusive' /\ FrontIsHeld'
  BY <1>1 DEF QueueInv, QuietStep, FrontExclusive, FrontIsHeld
<1>3. QueuedTasksAlive'
  BY DEF QueueInv, QuietStep, QueuedTasksAlive
<1>4. WokenTaskIsHead'
  BY DEF QueueInv, QuietStep, WokenTaskIsHead
<1>5. QED BY <1>2, <1>3, <1>4 DEF QueueInv

\* Who takes the free front meets an empty queue.
LEMMA TakeFrontQueue ==
    ASSUME TypeOK, QueueInv, NEW t \in Threads, TakeFront(t)
    PROVE  QueueInv'
<1>1. /\ pc[t] = "entering" /\ pc' = [pc EXCEPT ![t] = "begin"]
      /\ ~frontLocked /\ frontLocked'
      /\ UNCHANGED <<queue, bits, parked>>
  BY DEF TakeFront, Goto, try_acquire_front_fast, syncVars
<1>2. queue = <<>> /\ \A u \in Threads : ~HasFront(u)
  BY <1>1 DEF QueueInv, FrontExclusive, FrontIsHeld
<1>3. \A u \in Threads : HasFront(u)' <=> u = t
  BY <1>1, <1>2 DEF TypeOK, HasFront, Granted, FrontPcs
<1>4. FrontExclusive' /\ FrontIsHeld'
  BY <1>1, <1>2, <1>3 DEF FrontExclusive, FrontIsHeld
<1>5. \A u \in Threads : pc'[u] = "waiting" <=> pc[u] = "waiting"
  BY <1>1 DEF TypeOK
<1>6. QueuedTasksAlive'
  BY <1>1, <1>5 DEF QueueInv, QueuedTasksAlive
<1>7. WokenTaskIsHead'
  BY <1>1 DEF QueueInv, WokenTaskIsHead
<1>8. QED BY <1>4, <1>6, <1>7 DEF QueueInv

\* A pop is quiet but for the value.
LEMMA PopQueue ==
    ASSUME TypeOK, QueueInv, ValueInv, NEW t \in Threads, Pop(t)
    PROVE  QueueInv'
<1>1. UNCHANGED <<pc, queue, bits, parked, frontLocked>>
  BY PopSucceeds DEF ValueInv, Pop, syncVars
<1>2. \A u \in Threads : HasFront(u)' <=> HasFront(u)
  BY <1>1 DEF HasFront, Granted
<1>3. FrontExclusive' /\ FrontIsHeld'
  BY <1>1, <1>2 DEF QueueInv, FrontExclusive, FrontIsHeld
<1>4. QueuedTasksAlive'
  BY <1>1 DEF QueueInv, QueuedTasksAlive
<1>5. WokenTaskIsHead'
  BY <1>1 DEF QueueInv, WokenTaskIsHead
<1>6. QED BY <1>3, <1>4, <1>5 DEF QueueInv

\* Every step keeps front and queue.
LEMMA QueueStep ==
    ASSUME TypeOK, QueueInv, ValueInv, [Next]_vars
    PROVE  QueueInv'
<1>1. CASE QuietStep
  BY <1>1, QuietQueue
<1>2. ASSUME NEW t \in Threads, TakeFront(t) PROVE QueueInv'
  BY <1>2, TakeFrontQueue
<1>3. ASSUME NEW t \in Threads, PushAndWait(t) PROVE QueueInv'
  BY <1>3, PushQueue
<1>4. ASSUME NEW t \in Threads, ReachFront(t) PROVE QueueInv'
  BY <1>4, ReachFrontQueue
<1>5. ASSUME NEW t \in Threads, Pop(t) PROVE QueueInv'
  BY <1>5, PopQueue
<1>6. ASSUME NEW t \in Threads, HandOff(t) PROVE QueueInv'
  <2>1. PICK to \in {"idle", "guarded"} : Goto(t, "returned", to)
    BY <1>6 DEF HandOff
  <2>2. PassFront /\ UNCHANGED queue
    BY <1>6 DEF HandOff
  <2>3. QED BY <2>1, <2>2, PassFrontQueue DEF Goto
<1>7. ASSUME NEW t \in Threads, CatchUnwind(t) PROVE QueueInv'
  <2>1. PassFrontPanicking /\ UNCHANGED queue /\ Goto(t, "caught", "idle")
    BY <1>7 DEF CatchUnwind
  <2>2. QED BY <2>1, PassFrontQueue DEF Goto
<1>8. QED BY StepCases, <1>1, <1>2, <1>3, <1>4, <1>5, <1>6, <1>7 DEF StepKinds

\* Every step keeps the values.
LEMMA ValueStep ==
    ASSUME TypeOK, QueueInv, ValueInv, [Next]_vars
    PROVE  ValueInv'
<1> USE DEF ValueInv, HandleAtFirstUnprocessed, NonesThenSomes, HandlePcs,
     TypeOK, PC, FrontExclusive, HasFront, FrontPcs, QueueInv
<1>1. ASSUME NEW t \in Threads, UserStep(t) PROVE ValueInv'
  <2>1. CASE UserLock(t)
    BY <2>1 DEF UserLock, Goto, Lock, queueVars, constVars
  <2>2. CASE UserUnlock(t)
    BY <2>2 DEF UserUnlock, Goto, DropGuard, queueVars, constVars
  <2>3. CASE UserPanic(t)
    BY <2>3 DEF UserPanic, Goto, DropGuardUnwinding, queueVars, constVars
  <2>4. CASE ClearQueuePoison(t)
    BY <2>4 DEF ClearQueuePoison, syncVars, callVars, constVars
  <2>5. CASE process(t)
    BY <2>5 DEF process, Enter, Goto, queueVars, constVars
  <2>6. CASE lock_and_process(t)
    BY <2>6 DEF lock_and_process, Lock, Enter, Goto, queueVars, constVars
  <2>7. CASE LockIsPoisoned(t)
    BY <2>7 DEF LockIsPoisoned, DropGuardUnwinding, queueVars, callVars,
         constVars
  <2>8. CASE ClosurePoisonsMutex(t)
    BY <2>8 DEF ClosurePoisonsMutex, DropGuardUnwinding, queueVars, callVars,
         constVars
  <2>9. QED BY <1>1, <2>1, <2>2, <2>3, <2>4, <2>5, <2>6, <2>7, <2>8 DEF UserStep
<1>2. ASSUME NEW t \in Threads, CallStep(t) PROVE ValueInv'
  <2>1. CASE TakeFront(t)
    <3>1. queue = <<>> /\ \A u \in Threads : pc[u] \notin FrontPcs
      BY <2>1 DEF TakeFront, try_acquire_front_fast, FrontIsHeld
    <3>2. queue' = <<>> /\ Len(queue') = 0
      BY <2>1, <3>1 DEF TakeFront
    <3>3. \A u \in Threads : pc'[u] \notin HandlePcs
      BY <2>1, <3>1 DEF TakeFront, Goto
    <3>4. QED BY <3>2, <3>3
  <2>2. CASE PushAndWait(t)
    BY <2>2, PushValues
  <2>3. CASE ReachFront(t)
    BY <2>3, ReachFrontValues
  <2>4. CASE QueuePoisonPanic(t)
    BY <2>4 DEF QueuePoisonPanic, Goto, DropGuardUnwinding, queueVars,
         constVars
  <2>5. CASE TakeOwnValue(t)
    BY <2>5 DEF TakeOwnValue, AfterWait, Goto, syncVars, queueVars, constVars
  <2>6. CASE ReturnUnprocessed(t)
    BY <2>6 DEF ReturnUnprocessed, AfterWait, Goto, syncVars, queueVars,
         constVars
  <2>7. CASE MutexPoisonPanic(t)
    BY <2>7 DEF MutexPoisonPanic, Goto, DropGuardUnwinding, queueVars,
         constVars
  <2>8. CASE StartCallback(t)
    BY <2>8 DEF StartCallback, Goto, NewHandle, SetFate, syncVars, queueVars,
         constVars
  <2>9. CASE HandOff(t)
    BY <2>9 DEF HandOff, Goto, CallEnds, SetFate, constVars
  <2>10. CASE CatchUnwind(t)
    BY <2>10 DEF CatchUnwind, Goto, CallEnds, SetFate, constVars
  <2>11. QED BY <1>2, <2>1, <2>2, <2>3, <2>4, <2>5, <2>6, <2>7, <2>8, <2>9,
       <2>10 DEF CallStep
<1>3. ASSUME NEW t \in Threads, HandleStep(t) PROVE ValueInv'
  <2>1. CASE Pop(t)
    BY <2>1, PopValues
  <2>2. CASE HandleClearsPoison(t)
    BY <2>2 DEF HandleClearsPoison, syncVars, callVars
  <2>3. CASE Unlocked(t)
    BY <2>3 DEF Unlocked, Goto, DropGuard, queueVars, constVars
  <2>4. CASE ClosureReturns(t)
    BY <2>4 DEF ClosureReturns, Goto, syncVars, queueVars, constVars
  <2>5. CASE ClosurePanics(t)
    BY <2>5 DEF ClosurePanics, Goto, SettleFates, syncVars, queueVars,
         constVars
  <2>6. CASE RelockAndResume(t)
    BY <2>6 DEF RelockAndResume, Goto, Lock, queueVars, constVars
  <2>7. CASE RelockAndUnwind(t)
    BY <2>7 DEF RelockAndUnwind, Goto, Lock, queueVars, constVars
  <2>8. CASE CallbackReturns(t)
    BY <2>8 DEF CallbackReturns, Goto, SetOutcome, SettleFates, syncVars,
         queueVars, constVars
  <2>9. CASE CallbackPanics(t)
    BY <2>9 DEF CallbackPanics, Goto, SettleFates, syncVars, queueVars,
         constVars
  <2>10. QED BY <1>3, <2>1, <2>2, <2>3, <2>4, <2>5, <2>6, <2>7, <2>8, <2>9 DEF
       HandleStep
<1>4. ASSUME NEW t \in Threads, EnvStep(t) PROVE ValueInv'
  <2>1. CASE PushAborts(t)
    BY <2>1 DEF PushAborts, syncVars, queueVars, callVars
  <2>2. CASE SpuriousWakeup(t)
    BY <2>2 DEF SpuriousWakeup, queueVars, callVars, constVars
  <2>3. CASE KeepWaiting(t)
    BY <2>3 DEF KeepWaiting, WaitAgain, CanRelock, callVars, constVars
  <2>4. QED BY <1>4, <2>1, <2>2, <2>3 DEF EnvStep
<1>5. CASE ClearMutexPoison
  BY <1>5 DEF ClearMutexPoison, queueVars, callVars, constVars
<1>6. CASE UNCHANGED vars
  BY <1>6 DEF vars
<1>7. QED BY <1>1, <1>2, <1>3, <1>4, <1>5, <1>6 DEF Next, Terminated

-----------------------------------------------------------------------------
\* The inductive invariant.
IInv ==
    /\ TypeOK
    /\ GuardDiscipline
    /\ QueueInv
    /\ ValueInv

\* A queue that was just constructed.
LEMMA InitIInv == Init => IInv
<1> SUFFICES ASSUME Init PROVE IInv
  OBVIOUS
<1> USE DEF Init, SyncInit, BitsInit
<1>1. TypeOK
  <2>1. SyncTypeOK /\ BitsTypeOK
    BY DEF SyncTypeOK, BitsTypeOK
  <2>2. options \in PanicOptions
    BY ConstantsAssumption
  <2>3. queue \in Seq(Threads)
    OBVIOUS
  <2>4. /\ value \in [Threads -> BOOLEAN]
        /\ pc \in [Threads -> PC]
        /\ entry \in [Threads -> {"process", "lock_and_process"}]
        /\ outcome \in [Threads -> Outcomes]
        /\ nextIdx \in [Threads -> Nat]
        /\ calls \in [Threads -> Nat]
        /\ fate \in [Threads -> Fates]
    BY DEF PC, Outcomes, Fates
  <2>5. QED BY <2>1, <2>2, <2>3, <2>4 DEF TypeOK
<1>2. GuardDiscipline
  BY DEF GuardDiscipline, GuardPcs
<1>3. QueueInv
  BY DEF QueueInv, FrontExclusive, FrontIsHeld, QueuedTasksAlive,
     WokenTaskIsHead, HasFront, Granted, FrontPcs
<1>4. ValueInv
  BY DEF ValueInv, HandleAtFirstUnprocessed, NonesThenSomes, HandlePcs
<1>5. QED BY <1>1, <1>2, <1>3, <1>4 DEF IInv

\* Every step keeps the inductive invariant.
LEMMA StepIInv == IInv /\ [Next]_vars => IInv'
BY TypeStep, GuardStep, QueueStep, ValueStep DEF IInv

\* Every reachable state satisfies the inductive invariant.
THEOREM Inductive == Spec => []IInv
BY InitIInv, StepIInv, PTL DEF Spec

\* Every variable keeps its type.
THEOREM TypeCorrect == Spec => []TypeOK
<1>1. IInv => TypeOK
  BY DEF IInv
<1>2. QED BY <1>1, Inductive, PTL

\* At most one thread at a time has the permissions over front_exclusive, and
\* front_locked is set exactly while one has them.
THEOREM FrontIsExclusive == Spec => []FrontExclusive
<1>1. IInv => FrontExclusive
  BY DEF IInv, QueueInv
<1>2. QED BY <1>1, Inductive, PTL

\* Every erased task in the queue is that of a call that is still waiting.
THEOREM QueuedTasksAreAlive == Spec => []QueuedTasksAlive
<1>1. IInv => QueuedTasksAlive
  BY DEF IInv, QueueInv
<1>2. QED BY <1>1, Inductive, PTL

\* Every wait that ends pops the task of its own call.
THEOREM OnlyTheHeadIsWoken == Spec => []WokenTaskIsHead
<1>1. IInv => WokenTaskIsHead
  BY DEF IInv, QueueInv
<1>2. QED BY <1>1, Inductive, PTL

\* The expects of QueueHandle::peek and pop never fail.
THEOREM HandleIsAtFirstValue == Spec => []HandleAtFirstUnprocessed
<1>1. IInv => HandleAtFirstUnprocessed
  BY DEF IInv, ValueInv
<1>2. QED BY <1>1, Inductive, PTL

\* Values are taken from the front of the queue on, and whoever processes its
\* own value finds no task whose value was taken.
THEOREM QueueIsNonesThenSomes == Spec => []NonesThenSomes
<1>1. IInv => NonesThenSomes
  BY DEF IInv, ValueInv
<1>2. QED BY <1>1, Inductive, PTL

\* Whoever runs code that needs the mutex has locked it.
THEOREM GuardIsWhereItBelongs == Spec => []GuardDiscipline
<1>1. IInv => GuardDiscipline
  BY DEF IInv
<1>2. QED BY <1>1, Inductive, PTL
==============================================================================
