# A TLA+ development of `contention-queue`

The crate is one data structure, `ContentionQueue`. Threads call it while they
use a `std::sync::Mutex` of their own. One thread at a time is *at the front*
and runs its callback. The others wait in a FIFO queue, each on its own condition
variable. The callback at the front may pop the values of those behind it and do
their work too (merging), and may give the mutex up for a while (`unlocked`).
This directory holds a model of all of the crate's control, the properties that
make it correct, model-checking runs for them, and machine-checked proofs of the
main safety invariants for any number of threads.

Paths like `queue.rs:644` are below `src/` of the repository.

## Inventory

| component | state | operations | modelled in |
|---|---|---|---|
| `std` mutex and condvar (external) | owner, poison flag, who is parked | lock, drop of a guard (unwinding or not), wait, notify_one | `StdSync` |
| `TaskState` (`task_state.rs`) | bit word, condvar | `new`, `wait_until_at_front`, `wake_front_task`, `wake_front_task_panicking` | `TaskState` |
| `MutexExclusive`, `FrontExclusive` (`queue_state.rs`) | `front_locked`, `queue_poisoned`, `queue` of tasks holding `Option<value>` | none of its own | `QueueState` |
| `Task`, `ErasedTask` (`task.rs`) | references into the frames of waiting calls, values that borrow from them | `new`, `inner`, `take`, `into_inner` | `TaskFrames` |
| `UnsafeMutexCell` (`externally_synchronized.rs`) | none; who holds a `&mut` made by it | `get_mut` | `TaskFrames` |
| `QueueHandle`, `ReLock` (`queue_handle.rs`) | `next_idx`, the guard in a `MaybeUninit` | `pop`, `peek`, `unlocked`, `clear_queue_poison`, reads | `QueueHandle` |
| `ContentionQueue` (`queue.rs`, `interface.rs`, `poisoning.rs`) | `options` and the above | `process`, `lock_and_process`, `clear_queue_poison`, `is_queue_poisoned` | `ContentionQueue` |
| `assert_mutex_good` (`queue.rs`) | `mutex_address` | compare-and-set of the address of the mutex | `MutexBinding` |
| what the queue promises (`README.md`, comments) | holder, line, merged values | take, join, merge, pass | `FifoFront` |
| two queues on one mutex, a closure of `unlocked` that calls the other queue | those of both | those of both | `NestedCalls` |
| `NotShared`, `Send`/`Sync` impls, variance | none | none: type-level only | not modelled |
| `Debug` impls, `lib.rs` | none | none | not modelled |

How they interact: a call enters `process_unchecked` with the guard. It calls
`try_process_unchecked` under `catch_unwind`, which tries the fast path
(`front_locked`), or pushes a `Task` that points into its own stack frame and waits
on its `TaskState`. At the front it pops its own task. If its value is still there
it runs the callback with a `QueueHandle`; if not, the value was merged. Back in
`process_unchecked` it wakes the head of the queue or releases `front_locked`. If
something panicked it locks the mutex again, poisons the queue, wakes the head
with the panic bit, and resumes the panic.

### Where the difficulty is

- Who is at the front is spread over four places (the program counters,
  `front_locked`, the bits of the tasks, the order of the queue). Unsafe code
  relies on their agreement: `&mut` access to `front_exclusive`, the lifetimes of
  erased tasks, and the `unwrap_unchecked` on `pop_front`.
- A wakeup is one store and one `notify_one`, against spurious wakeups, re-parking
  and other threads that take the mutex in between.
- `next_idx` lives across `unlocked` while others push.
- Poison: two flags, two options, checks on different paths, and a panic bit that
  is decided by one call and read by another.
- Every one of these when a caller, a callback, an `unlocked` closure, an
  assertion on poison or an allocation fails.

- The unsafe code reaches into other threads' frames: a task in the queue, the
  `TaskState` that is being woken, a value that was popped. Only the order of the
  accesses, and the mutex, keep each of them alive and unaliased.
- A mutex may serve two queues, and a closure of `unlocked` may call the second one.

`PROJECT.json` lists each hazard with its line and the properties it is covered by.

## Modules

```
StdSync <- TaskState <- QueueState <- QueueHandle <- ContentionQueue
              ^                                            ^
              |    FifoFront <-(INSTANCE)-- ContentionQueueProps <- MCContentionQueue
              |        ^                     ^           ^
              |        |                     |           +-- ContentionQueueProofs
              +-- TaskFrames             QueueView                    ^
                   ^      ^               ^      ^         ContentionQueueRefinement
        MCTaskFrames  TaskFramesProofs    |      |                    ^ (INSTANCE)
                                          |      +----------- QueueViewProofs
                           (INSTANCE: A, B)                           ^ (INSTANCE: PA, PB)
                        MCNestedCalls -> NestedCalls <------- NestedCallsProofs
    FifoFront <- MCFifoFront, FifoFrontProofs
    MutexBinding <- MCMutexBinding, MutexBindingProofs
    QueueLemmas <- ContentionQueueProofs, TaskFramesProofs, FifoFrontProofs
```

**StdSync.** `owner` is the thread whose guard is live. `lock` waits for
`NoThread`, also when its own thread is the owner: std promises only that such a
call does not return normally. (A build in which it panics instead would panic
out of the `Err` branch, before it wakes anyone.)

**TaskState.** The word is a set of bits, indexed by the thread whose call owns
it. `wait_until_at_front` is `UnlockAndPark` (first part of `Condvar::wait`),
`WaitAgain` (re-locked, the front bit is clear, parks again; one step because
nothing can run between the re-lock and the unlock) and `LeaveWait`.

**QueueState.** The variables, and `pc`: where each call stands. A call pushes at
most one task and a thread runs one call, so the queue is a sequence of threads
and the task's `Option` is a Boolean per thread. Values, front state and the data
in the mutex are opaque: the crate never looks at them. `fate` is a history
variable: what became of the value of a call.

**QueueHandle.** What a callback can do, in any order and number: `Pop`, clear
poison, `unlocked` (three steps: the guard is dropped, the closure ends or
panics, `ReLock::drop` has the mutex again), return, panic. A panic that leaves
the callback while the guard is initialized does not release the mutex.

**ContentionQueue.** The calls. Each step is a critical section, or a part of one
between two reads of something the mutex does not protect (its own poison flag,
which `clear_poison` changes without a lock). `pc` labels:

| label | code |
|---|---|
| `idle`, `guarded` | the caller's own code, without and with the guard |
| `entering` | `queue.rs:481`, before the fast path |
| `waiting` | `queue.rs:381`, in `wait_until_at_front` |
| `atFront` | `queue.rs:529`, task popped, before the check of queue poison |
| `begin` | `queue.rs:553`, before the check of mutex poison |
| `processing`, `unlocked`, `relock`, `relockUnwinding` | the callback; `queue_handle.rs:364` |
| `returned` | `queue.rs:713`, `Ok` branch |
| `caught` | `queue.rs:644`, `Err` branch, at `mutex.lock()` |

`aborted` stands for `process::abort` (`queue.rs:921`): nothing happens after it.

**ContentionQueueProps.** The properties, the refinement mapping and the fairness.

**FifoFront.** The abstract promise: one holder, a line in order of arrival,
values taken from the front of the line on, the front passed to the first in line.

**MutexBinding.** `assert_mutex_good` for queues that are passed more than one
mutex, while mutexes are created, moved and dropped. It coarsens a call to one
critical section that may be given up (`DropInside`, `Wait`) and taken again.
A caller may keep the guards of any mutexes (`held`) and passes `process` any one
of them, as the signature of `process` allows. The poison methods may be called
whatever guards the caller keeps; one that keeps the guard of the argument blocks
itself. A guard leaked by a panicking callback is not modelled here: it only keeps
a lock for longer. `lock_and_process` is `Lock` followed by `process`, and a failed
assertion drops the guard that was passed in.

**TaskFrames.** The same calls at a finer grain: each access to memory that threads
share is a step, and the mutex alone keeps them apart. It models what the `SAFETY`
comments argue with. `frames` are the threads whose `TaskState` exists. `task` is the
reference that `ErasedTask::inner` gives to a call that hands over, from the look at
the head of the queue to the `notify_one`. `loans` are the values that
`ErasedTask::take` gave to a callback, for the lifetime of its handle. `exclusive` and
`front` are the threads that hold a `&mut` made by `UnsafeMutexCell::get_mut`; they end
where the borrow ends, before the unlock in `ReLock::new` for instance. Every `get_mut` of
`queue.rs` is one of these borrows: the fast path, the push, the pop after a wait, the
check of queue poison, `is_queue_poisoned` and `clear_queue_poison` (also from a closure
of `unlocked`), the handle, both hand-overs. Both kinds of poison are unwrapped, which
panics in the most places.

**QueueView.** A queue whose threads also use its mutex for other things. `QueueStep` is
what they do in this queue or outside of all queues. `Seen` is `ContentionQueueProps` under
a mapping that says what the queue sees of the rest: whoever has the mutex without being
in the queue is a caller with its guard, and a thread that waits elsewhere is not parked.

**NestedCalls.** Two queues, `A` and `B`, on one mutex: two instances of `QueueView`
that share `owner`, `poisoned` and `parked`. While its callback on `A` is in `unlocked`, a
thread may call `B`, and may unlock and re-lock in there too. It is not called the other
way round: callers keep the usual order of nested locks. A closure of `A` that locks the
mutex for itself is a caller of `B` that makes no call.

**QueueLemmas.** What `push_back` and `pop_front` leave of a queue, for the proofs.

## Runs

| run | instance | checks |
|---|---|---|
| `safety` | 4 threads, no bound on calls, all `PanicOptions`, all faults; about 203,000 states | all safety properties and the refinement of `FifoFront` |
| `live` | 3 threads, 2 calls each, panics of callers; about 158,000 states | no deadlock, every call ends, fair refinement |
| `fifo` | 4 threads | `FifoFront` by itself: its invariant, nobody starves |
| `binding` | 3 threads, 2 mutexes, 2 addresses; about 104,000 states | one mutex in use, who can overlap, the inductive invariant |
| `frames` | 5 threads, no bound on calls; about 16,000 states | no dangling, aliased or racing access; values taken in order; refinement of `FifoFront` access by access |
| `nested` | 3 threads, one call each on each of 2 queues, no faults; about 81,000 states | no deadlock, every nested call returns |
| `nested_faults` | the same with all faults and callers that keep the guard; about 104,000 states | each queue sees the other as a caller |
| `callback_panic_hangs`, `fast_path_poison`, `panicked_result`, `foreign_guard` | 2 or 3 threads | findings 1 to 4, below |

*Why these bounds are enough.* `safety` has no bound on calls: the state space is
finite because a call leaves no trace but poison. Four threads are a front and
three others, so there are merged and unmerged waiters together, a task pushed
behind merged ones during `unlocked`, a chain of wakeups of merged tasks, and an
outsider for the fast path. What is true of any number of threads is proved (next
section). Symmetry between threads is used only where no liveness is checked.
`live` needs two calls so that a thread comes back behind those it overtook or
merged, and three threads so that one is merged, one is not. Two mutexes and two
addresses include a mutex that is replaced by another at the same address.
`frames` needs a caller at the front, two merged tasks, a task pushed behind them
during `unlocked` and a thread outside; five threads are all of these at once. `nested`
needs a thread that waits in each queue and one that is in both: three threads with
one call on each queue. With one call, a caller that locks for itself has spent it: in
`nested` and `nested_faults` calls come through `lock_and_process`, and `process` with the
caller's guard is covered by the theorems, which hold for every `MaxCalls`.

Deadlock is checked in `live`, `fifo` and `nested`, and not in `safety`, `frames` and
`nested_faults`: there a callback may panic,
which blocks the mutex for good (finding 1), and an abort ends everything.
Nor is it checked in `binding`, where a caller that keeps a guard and calls a poison
method with that mutex blocks itself, nor in the runs for the findings.

*What the safety properties say.* `FrontExclusive`: at most one thread has the
front, and `front_locked` tells. `NoOrphanedWaiter`: while a task is queued, some
thread has the front, or was granted it and is awake, and is not blocked on its own
guard, with one exception that the property names: a callback panicked and leaked the
guard (finding 1). No other panic leaves waiters to nobody. `QueuedTasksAlive`: the erased tasks are
exactly those of the waiting calls. `WokenTaskIsHead`: only the head is woken, and
it is awake. `HandleAtFirstUnprocessed`: `next_idx` is the border between `None`
and `Some`. `NonesThenSomes`: the documented shape of the queue.
`GuardDiscipline`: who needs the mutex has it. `ValueNeitherLostNorRepeated`,
`SuccessMeansProcessed`, `HandedOutOnce`: no value goes to two callbacks, a value that
a call reports as merged was handed to a callback, and a call reports success
(`Processed`, `ProcessedElsewhere`) only if that callback returned. A
`ProcessingPanicked` may be wrong (finding 3). `ImplementsFifoFront`: the front is
handed on as in a FIFO line.

`NoDanglingReference`: the tasks in the queue, the task that is being woken (until
after its `notify_one`) and the values that a callback has popped belong to calls that
have not ended. `NoAliasing`: the `&mut`s to the contents of the two cells are
exclusive, and the one to `mutex_exclusive` is its lock owner's. `NoRaceOnTaskState`: a
bit word is not written while its waiter reads it. `AccessesImplementFifoFront`: the
refinement of the line holds for single accesses too, so that the order in which the
front is taken, merged and passed does not depend on a critical section being one step of
`ContentionQueue`. (What `safety` says of options, of the panic bit and of results is
checked and proved at that coarser grain only.) `FramesInv` is the inductive
invariant for them. `ValuesInv` adds the values: between any two accesses the queue is
`None`s and then `Some`s, `next_idx` is at the border while a handle exists, also in
`unlocked`, and a call that did not wait still has its own value.

`OtherQueueIsACaller` is what makes the model of one queue sufficient: with two queues
on a mutex, nested or not, and with all faults, each step of the one is, for the other,
a step that `ContentionQueue` has already (a caller locks, unlocks, or panics with the
guard). `NestedCallsReturn` is the liveness that this does not give: no circle of
threads that wait in different queues.

`SuccessMeansProcessed` holds for a reason worth knowing. Of several tasks merged
by a callback that panics, only the first is woken with the panic bit: the `Ok`
branch (`queue.rs:769`) does not pass it on, so that, with
`unwrap_queue_poison = false`, the second would report `ProcessedElsewhere` for a
value nobody finished. Today that state is not reached, because the panicking call
hangs first (finding 1). The mutant `CallbackPanicsDropping` is the obvious repair
of finding 1, and it breaks this property: the two have to be repaired together.

## Fairness

`FairSpec` assumes weak fairness of each thread's steps, for taking the mutex too.
`std::sync::Mutex` promises nothing to a thread that finds it locked again and
again, and liveness is therefore checked of threads that make finitely many calls
(`MaxCalls`), where weak fairness suffices. A notified thread returns from
`Condvar::wait` and a caller drops its guard sometime. Both follow from the
assumption that threads are scheduled and code terminates. `CallbackReturns` is
strongly fair: a callback may pop, unlock and clear poison, but not for ever.
There is no fairness for starting calls, spurious wakeups, faults or clearing
poison.

Liveness is checked without panics of callbacks, for the reason of finding 1,
and with panics of callers and on poison, with every option that is the same for
both kinds of poison.

## Findings

1. *A panicking callback hangs the queue* (`queue.rs:557`, `:644`). While a callback
   runs, its guard is in a `MaybeUninit`, which has no destructor. A panic leaves
   the mutex locked; the `Err` branch of the same thread then locks it again and
   never returns. The README promises that following tasks are woken. Only a panic
   on poison, where the guard is dropped, wakes them.
2. *The fast path ignores queue poison* (`queue.rs:483`): `unwrap_queue_poison` is
   documented to panic, and does so only for calls that had to wait.
3. *`ProcessingPanicked` can be reported of a value whose callback returned*
   (`queue.rs:693`): the bit says that the previous front task's call unwound.
   That may be another merged call which panicked on poison.
4. *`process` does not compare its guard with its mutex* (`queue.rs:809`, `:629`).
   With a guard of another mutex two threads share the critical section.
   `OnlyForeignGuardsOverlap` says that this is the only way.

## Proofs

`ContentionQueueProofs` proves, for every set of threads, every `MaxCalls`, all
options and all faults, from `NoThreadAssumption` and `ConstantsAssumption` only:

| theorem | `Spec => []` |
|---|---|
| `TypeCorrect` | `TypeOK` |
| `FrontIsExclusive` | `FrontExclusive` |
| `QueuedTasksAreAlive` | `QueuedTasksAlive` |
| `OnlyTheHeadIsWoken` | `WokenTaskIsHead` |
| `HandleIsAtFirstValue` | `HandleAtFirstUnprocessed` |
| `QueueIsNonesThenSomes` | `NonesThenSomes` |
| `GuardIsWhereItBelongs` | `GuardDiscipline` |

The inductive invariant `IInv` is the conjunction of these seven and of `FrontIsHeld`
(while a task is queued, somebody has the permissions of the front). None is inductive
alone. A hand-over keeps the front exclusive only because what it wakes is the
task of a thread that waits (`QueuedTasksAlive`). A wait that ends pops its own
task only because nobody but the head is woken (`WokenTaskIsHead`). `Pop` stays
out of its panicking branch only because `next_idx` is at the first `Some`. A task
that joins keeps that so because all before it are `None` up to `next_idx`, and a
handle starts at 0 because a call that keeps its own value has only `Some`s behind
it (`NonesThenSomes`). The hard steps (push, end of a wait, pop, hand-over) are lemmas
of their own; the step lemmas `TypeStep`, `GuardStep`, `QueueStep` and `ValueStep`
have one case per action. The run `safety` checks every conjunct
(`NoOrphanedWaiter` implies `FrontIsHeld`).

`ContentionQueueRefinement` adds what becomes of the values. `FateInv` relates `fate`,
`value`, `outcome` and `pc` of each call (`CallInv`), and says that a value that a callback
has, or had when it panicked, is in the hands of a thread at the front (`HandsInv`). The
second part is what excludes a wait that ends on a value that is still being processed:
a wait ends only where nobody else is at the front (`TakenMeansProcessed`).
`CallInv` also says that a thread in the `Err` branch still has its guard only if a
callback abandoned its value; with `FrontIsHeld` and `WokenTaskIsHead` that gives
`NobodyIsOrphaned`.
It then proves the refinement, one lemma per kind of step:
push, pop and hand-over are `Join`, `Merge` and `Pass`, the fast path is `TakeFront`, all else,
and the end of a wait, leaves the line as it is.

| theorem | statement |
|---|---|
| `NobodyIsOrphaned` | `Spec => []NoOrphanedWaiter` |
| `ValuesAreNeitherLostNorRepeated` | `Spec => []ValueNeitherLostNorRepeated` |
| `SuccessIsReal` | `Spec => []SuccessMeansProcessed` |
| `ValuesAreHandedOutOnce` | `Spec => HandedOutOnce` |
| `QueueIsFifo` | `Spec => ImplementsFifoFront` |
| `OnlyCallersPoison` | `Spec => []PoisonInv` |

`OnlyCallersPoison` generalises finding 1. Unless a caller panics with the guard, neither
flag is ever set and no call unwinds with its guard gone: a panic of a callback, alone,
poisons nothing, because the call that would poison the queue blocks on its own guard. The
poison that the rest of the code handles is always that of a caller, passed on.

`FifoFrontProofs` proves `LineInvariant`, `Spec => []LineInv`, of the abstract line, from
`LineAssumption` (`NoThread` is no thread).

`TaskFramesProofs` proves, for any number of threads and at the grain of single accesses:

| theorem | statement |
|---|---|
| `FramesInvariant` | `Spec => []FramesInv` |
| `ReferencesNeverDangle` | `Spec => []NoDanglingReference` |
| `BorrowsNeverAlias` | `Spec => []NoAliasing` |
| `TaskStateNeverRaces` | `Spec => []NoRaceOnTaskState` |
| `ValuesInvariant` | `Spec => []ValuesInv` |
| `AccessesAreFifo` | `Spec => AccessesImplementFifoFront` |

`FramesInv` has four parts besides the types: who has the guard and the
borrows (`SectionInv`), who has the front (`FrontInv`), which frames the tasks are in and
who was woken (`QueueInv`), and what the references in use point to (`ReferenceInv`). A
woken frame stays until its notification because its thread needs the mutex to leave;
a loan stays alive because a merged task keeps its place until it gets the front.
`ValuesInv` is inductive together with `FramesInv`: what is popped is the first value that
is left, a task is pushed behind the border, and a handle is made only by a call that has
its own value, so that everybody behind it has theirs. The refinement needs both. A pop is
a `Merge` because it takes the first value of the line, and the store of the front bit
is where the front is passed. The accesses between that and the end of the wait (the
notification, the unlock, the re-lock, the read of the bit, `pop_front`) are not seen in
the line; they may be interleaved with those of anybody else.

`QueueViewProofs` and `NestedCallsProofs` carry the theorems over to two queues on one
mutex, for any threads, any faults, any nesting in the order of the queues, and callers that
may keep the mutex for themselves:

| theorem | statement |
|---|---|
| `NestedInvariant` | `Spec => []NInv` |
| `OtherQueueIsOnlyACaller` | `Spec => OtherQueueIsACaller` |
| `EachQueueIsSafe` | `Spec =>` six of the invariants above, of `A` and of `B` |
| `EachQueueIsFifo` | `Spec => A!ImplementsFifoFront /\ B!ImplementsFifoFront` |
| `EachValueOnce` | the three statements on values above, of `A` and of `B` |

`NInv` says of each queue that what it sees satisfies `IInv` and `PoisonInv` (`ViewInv`), and
that a thread runs code of at most one of them (`NestInv`). A step in the queue is seen as
itself (`OwnStep`). A step elsewhere (`OtherStep`) is seen as a caller's lock, unlock or panic,
as a closure that poisons the mutex, or not at all. `IInv` is needed for it: without
`GuardDiscipline`, a thread with the mutex might be one that the queue expects to have it.
`PoisonInv` is needed too: a thread that unlocks elsewhere while it unwinds poisons the
mutex, and this is something a caller may do only if callers may panic. `TypeOK` and
`GuardDiscipline` are about the variables that the mapping changes; they hold of what each
queue sees, as parts of `NInv`. In `NestedCallsProofs`, `PA` and `PB` are the instances `A`
and `B` again, together with their theorems; `SameA` and `SameB` say so.

`MutexBindingProofs` proves, for any number of threads, mutexes and addresses, and
whatever guards callers pass, `BindingInvariant` (`[]BindingInv`, which is inductive),
`OneMutexIsInUse` (comparing addresses suffices for all calls past the check to have one
mutex) and `OverlapNeedsForeignGuard` (`[]OnlyForeignGuardsOverlap`): if two threads access
the queue at once, one of them works under a guard that is not of its mutex argument.
`BindingInv` says that a call has a guard wherever it accesses the queue, that two threads
never have guards of one mutex, and that what is borrowed stays where it is.

Only model-checked: liveness (`EveryCallReturns`, `ImplementsFairFifoFront`,
`NobodyStarves`, `NestedCallsReturn`), because fairness and `ENABLED` are out of reach of
the prover used. Every other property of a passing run is a theorem. `ExclusiveAccess`
is not one: finding 4 refutes it.

## Assumed, or left out

- A callback, or a closure of `unlocked`, does not call its own queue: the inner call
  waits for a front that its own thread holds, and never returns. `queue.rs:839` leaves
  that to the caller. Calls of other queues are `NestedCalls`, in a fixed order of the
  queues; against that order they can deadlock, as nested locks do.
- `ReLock::drop` aborts when `mutex.lock()` panics. It does so only in builds where a
  thread that still owns the mutex (its closure kept a guard) panics instead of
  blocking; the models have the blocking build.
- Callbacks and closures terminate where liveness is checked.
- Variance, `Send`/`Sync` and drop-check arguments of the crate's comments are not
  state and not modelled. The transmutes of `task.rs` are identities on the data; which
  frames the references point to is `TaskFrames`.
- `TaskFrames` has no panic bit, no fates and no failing `push_back`, and both options are
  set: none of them adds an access to memory.
- `push_back` fails in the model by not pushing; the process then aborts.
- A failing `expect` of `pop` is modelled as what it does (a panic in the callback)
  and proved not to happen.

## Plan

Done: all of the plan that was made at the start. `StdSync` to `ContentionQueue`,
`FifoFront` and `MutexBinding` with their inductive invariants; the fate of values and the
refinement of the line, proved; the finer grain (`TaskFrames`) and nested calls
(`NestedCalls`).

Done since: the refinement of the line by single accesses, and two queues on one mutex, both
proved.

What could follow: `assert_mutex_good` composed with `ContentionQueue` itself instead of the
coarser call of `MutexBinding`. The two meet in one fact, that accesses to a queue never
overlap, which `MutexBinding` guarantees to callers that pass matching guards and `ContentionQueue` has from its one mutex.
