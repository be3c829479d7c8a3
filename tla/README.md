# Verification of cpp11_project

`cpp11_project` is a header library of C++11 building blocks: a bounded
blocking queue and a thread pool on top of it, lock-free stacks and queues,
tasks and parallel algorithms over `std::async`, an object pool, events, and
value types (`Optional`, `Any`, `Variant`). This directory holds TLA+ models of
it, the TLC instances that check them, and TLAPS proofs about its core.

Contents: [the system](#the-system), [the modules](#the-modules),
[what is checked](#what-is-checked), [what is proved](#what-is-proved),
[what the models leave out](#what-the-models-leave-out),
[not modelled](#not-modelled), [the plan](#the-plan).

Run `tlc -config X.cfg M` for a run (its module and configuration are in
`PROJECT.json`), `tlapm M.tla` for a module of proofs (`StackProofs` and
`LockFreeProofs` take some twenty minutes each, the others less).

## The system

`include/` is the library, `include.bak/` an older copy of it that differs in
the queue and the pool (the other files differ in layout only, or not at all),
`src/main.cpp` a program that calls most of it once. There are no assertions and
no unit tests; expectations come from the comments and from `main.cpp`.

| component | state | operations | who shares it |
|---|---|---|---|
| `SyncQueue` (sync_queue.hpp) | `queue_`, `need_stop_`, a mutex, two condition variables | `Put`, `Take`, `Stop`, and reads | every thread of a pool and its clients |
| `ThreadPool` (thread_pool.hpp) | the threads, a `SyncQueue<Task>`, `running_`, `flag_` | constructor, `AddTask`, `Stop`; `RunThread` on each worker | clients, and the tasks, which may call it back |
| `LockFreeStackUseReferenceCount` | `head` with an external count, an internal count per node | `push`, `pop` | any threads |
| `LockFreeStackUseHarzardPointer` | `head`, the array `hazard_pointers`, `nodes_to_reclaim` | `push`, `pop`; the end of a thread | any threads; the array and the list are global |
| `LockFreeStackUseThreadCount` | `head`, `threads_in_pop`, `to_be_deleted` | `push`, `pop` | any threads |
| `LockFreeStackUseSharedptr` | `head` | `push`, `pop` | any threads |
| `LockFreeQueue` | `head_`, `tail_`, two counts per node | `Push`, `Pop` | any threads |
| `LockerQueue` | an array of slots with a lock each, `head_index_`, `count_`, `sequece_` | `LockPush`, `UnlockPush`, `LockAt`, `UnlockAt` | any threads |
| `Singleton` | `instance_` | `Instance`, `GetInstance`, `DestroyInstance` | any threads |
| `Task` | `fun_`, a chain of functions | constructors, `Then`, `Run`, `Wait`, `Get` | `std::async` threads |
| `TaskGroup`, `WhenAll`, `WhenAny`, `ParallelInvoke` | futures | `Run`, `Wait` | `std::async` threads |
| `ParallelForeach`, `ParallelReduce` | none | a partition of a range | `std::async` threads |
| `ObjectPool` | a multimap of free objects by constructor type | `Init`, `Get`; the deleter of a handle | one thread; handles outlive calls |
| `Events`, `MessageBus` | observers by key, receivers by topic and type | `Connect`, `Disconnect`, `Notify`; `Attach`, `Remove`, `SendReq` | one thread; those who are called may call back |
| `CommCommand`, `ScopeGuard` | a function | `Wrap`, `Excecute`; construction, move, `Dismiss`, destruction | one thread |
| `Aspect` | none | `Invoke` | one thread |
| `Optional`, `Lazy`, `Any`, `Variant` | a storage and a flag or a type index | construction, assignment, access | one thread |
| `IocContainer` | a map from keys to `Any`s | `RegisterType`, `Resolve` | one thread |
| `ListNode` | two links | insertion before and after | one thread |
| `function_traits`, the templates of `Variant` | none | what the compiler computes about types | |

How the parts meet: the pool's workers and clients share one `SyncQueue`, and
the pool's `Stop` calls the queue's. Tasks are client code that runs on a worker
and may call the pool again, so the pool is re-entered from inside. The stacks
are self-contained; the hazard pointers are global, shared by all stacks of a
program. `ParallelInvoke` uses `TaskGroup`; `Lazy` has an `Optional`;
`IocContainer` and `MessageBus` keep `Any`s. Everything else is used alone.

What is hard here, and what makes each part correct:

- **The queue.** Waiters are released by notifications sent after the state has
  changed, in the case of `Stop` even after the mutex is released, and any thread
  may slip in between. Correct means: never over capacity; nothing lost,
  duplicated or reordered; nobody sleeps who should not.
- **The pool.** Tasks may add tasks to the queue their own worker should
  drain, stop the pool they run on, or throw; several callers may stop it; a
  worker holds a private batch of tasks when the stop comes. Correct means: each
  accepted task begins at most once and none after the stop; a `Stop` that
  returns has stopped everything; no wakeup is lost.
- **The stacks and the queue without locks.** Every access to a node races with
  its deletion and with the reuse of its address. Correct means: each behaves as
  if push and pop took effect at once, no node is touched after its deletion, and
  each is deleted once.
- **The ring of lockers.** Its indexes and its slots are changed one after the
  other. Correct means: a slot that is read keeps its element, and the counted
  slots hold the last elements.
- **Tasks and parallel calls.** Threads refer to what belongs to the caller; any
  function may throw, and `std::async` may not start a thread at all. Correct
  means: nothing runs on when the call is over, everything was done, and the call
  ends.
- **What calls back.** The called change the map that the caller's loop
  walks. Correct means: everybody who is connected is called once, in every
  nesting, and the loop ends.
- **What owns objects.** Constructors throw, variables are moved from, and
  handles come back late. Correct means: every object has one owner, and the flag
  or type index tells what is in the storage.

`PROJECT.json` lists the hazards at their lines.

## The modules

| module | models | composes |
|---|---|---|
| `SyncQueue` | sync_queue.hpp; the older `Take` of include.bak as a variant | |
| `TaskPool` | what a pool promises about its tasks (abstract) | |
| `ThreadPool` | thread_pool.hpp | `SyncQueue` (as `Q`), implements `TaskPool` (as `Pool`) |
| `ThreadPoolBak` | include.bak/thread_pool.hpp | extends `ThreadPool`; the same two |
| `LifoStack` | what a concurrent stack promises (abstract) | |
| `RefCountStack`, `HazardStack`, `ThreadCountStack`, `SharedptrStack` | the four atomic_stack headers | each implements `LifoStack` |
| `FifoQueue` | what `LockFreeQueue` gives its callers (abstract) | |
| `LockFreeQueue` | lock_free_queue.h | implements `FifoQueue` |
| `LockerQueue` | locker_queue.h | |
| `Singleton` | singleton.hpp | |
| `ParallelAlgorithms` | `ParallelForeach` and `ParallelReduce` of task_group.hpp | |
| `TaskGroup` | `TaskGroup`, `WhenAll`, `WhenAny` and `ParallelInvoke` of task_group.hpp | |
| `Task` | task.hpp | |
| `Optional`, `Lazy` | optional.hpp, lazy.hpp | `Lazy` extends `Optional` |
| `Any`, `IocContainer` | any.hpp, ioc_container.hpp | `IocContainer` extends `Any` |
| `Variant`, `TypeLists` | variant.hpp and variant_new.hpp: objects, and types | |
| `ObjectPool` | object_pool.hpp, used as in `main.cpp` | |
| `ListNode` | list_node.hpp | |
| `FunctionTraits` | function_traits.hpp | |
| `Events`, `MessageBus` | events.hpp, message_bus.hpp | |
| `Command`, `Aspect`, `ScopeGuard` | command.hpp, aspect.hpp, scope_guard.hpp | |
| `MCSyncQueue` | TLC instances of the queue | |
| `MCThreadPool` | TLC instances of the two pools | `ThreadPoolBak` |
| `MCThreadPoolLive` | TLC instances of the two pools for liveness, of two sizes | `ThreadPoolBak`, twice |
| `MCLockFree` | TLC instance of the stacks and `LockFreeQueue` | five modules |
| `MCThreads` | TLC instance of what uses threads otherwise | five modules |
| `MCObjects` | TLC instance of what owns objects, and of types | nine modules |
| `MCCallbacks` | TLC instance of what calls back | five modules |
| `SyncQueueProofs` | proofs about the queue and its older `Take` | `SyncQueue` |
| `PoolsProofs` | proofs about both pools | `MCThreadPool`, `SyncQueueProofs` (as `QP`) |
| `StackProofs` | lemmas about the four stacks | `MCLockFree`, `DataProofs` |
| `LockFreeProofs` | proofs about `LockFreeQueue`; the theorems about the stacks and the queue | `StackProofs` |
| `ThreadsProofs` | proofs about what uses threads otherwise | `MCThreads` |
| `ObjectsProofs` | proofs about what owns objects, and about the templates | `MCObjects`, `DataProofs` |
| `CallbacksProofs` | proofs about what calls back | `MCCallbacks` |
| `DataProofs` | facts about numbers, recursion and linked lists that the proofs need | |

`MCLockFree`, `MCThreads`, `MCObjects` and `MCCallbacks` check several components in one run: the variable
`part` is chosen in the initial state and says whose behaviour it is; the
variables of the others never change. `MCThreadPool` does the same with `version`.
A property of such a module is the conjunction of what the component's modules
define and comment on; a component's module can be checked alone just as well.

Some definitions marked *Slip* are not part of a model: each is a plausible
mistake in the definition below it, kept to show that a property would notice
it. `PROJECT.json` pairs each property with one.

### SyncQueue

One action is one critical section of `mutex_`. A thread that calls `Put`,
`Take` or `Stop` is recorded in `call`; inside, it evaluates the predicate of
its wait each time it has the mutex and either joins the waiter set of the
condition variable (`AddBlock`, `TakeBlock`) or runs the rest of the section
(`AddPush`, `AddStopped`, `TakeSwap`, `TakeStopped`). A notification takes a
thread out of the waiter set, `notify_one` any one of them; `Spurious` takes
one out for no reason, as the standard allows. `Stop` is three actions: setting
`need_stop_` under the mutex, then the two `notify_all`, outside of it.
`accepted`, `drained` and `refused` are history variables. Elements are put at
most once each, so that losing or duplicating one can be told.

`Take(T&)` is left out because it cannot be instantiated (it calls `pop()` on a
`std::list`), and `Empty`, `Full`, `Size` and `Count` because they only read;
`Full` appears as the definition the property `Capacity` compares with `NotFull`.

### ThreadPool

The queue's variables and actions are those of `SyncQueue`, by `INSTANCE`. Added
are `at`, the place of each worker and client in the pool's code, `pos`, a
worker's position in its batch, and the variables of the class. `Start` starts
one worker per step; a started worker runs while the constructor goes on. The
worker's loop is `LoopTake`, the steps of the queue's `Take` (`InQueue`),
`TakeReturns`, then for each task `IterRun`, the task, `TaskReturns`; `running_`
is read where the code reads it (`LoopExit`, `IterExit`). `Stop` is the
`call_once` (`OnceFirst`, `OnceDone`), `running_ = false`, the queue's `Stop`,
and one `join` per worker.

A task is client code; only its use of the pool matters, so it is of one of four
kinds: it returns, calls `AddTask`, calls `Stop`, or throws. A task that throws
ends the process (`Terminate`), as does a task whose `Stop` reaches the `join` of
its own thread (`JoinSelf`).

`TaskPool` says what the pool promises in three variables: which tasks are
pending, which one each worker runs, and how far a stop has got. Under the
mapping, a task is pending while it is queued or in the unfinished part of a
worker's batch; `phase` is computed from `running_`, `need_stop_` and `flag_`.

### ThreadPoolBak

The older pool calls the queue's `Stop` before it sets `running_` to false, and
its queue notifies one producer only. Between the two steps a worker may find
nothing in the stopped queue any number of times, and goes on with its batch.
`TaskPool` allows for both orders: a stop keeps tasks from beginning before it
keeps them from being accepted (`Halt`, then `Drain`), or, as here, the pool counts
as open until both have happened (`Drain` alone).

### The stacks

One action is one operation on an atomic variable, with the thread's local work
around it. Nodes are addresses from a small set; `alive` is the set of allocated
ones, and a deleted address may be returned by the next allocation, so the ABA
problem is in the model. In `RefCountStack` the pair of external count and
pointer is one value, as in the code. In `HazardStack` the loops over the array of
hazard pointers, to claim one and to look for a node, take one step per slot;
the end of a thread, which gives its slot back in two stores, is there too, and
the thread that replaces it starts without a slot. The lists `nodes_to_reclaim`
and, in `ThreadCountStack`, `to_be_deleted` are sets, because they are only added
to and taken whole. In `ThreadCountStack` each read and write of `threads_in_pop`
is a step of its own; a pop that found nothing may end in `ChainNull`, where the
code dereferences null and the model stops. (The header of that stack uses `node`
before it declares it; the model is of the code with the declaration moved up.)
In `SharedptrStack` a node lives while a link or a local variable leads to it,
and its address is free the moment none does.

`LifoStack` has push and pop in one step each. Under the mapping, a push takes
effect at the exchange that links the node, a pop at the exchange that unlinks
it, and a pop of nothing where the code finds a null head: at the counting
exchange in `RefCountStack`, at the second load of `head` in `HazardStack`, at any
load in the other two.

### LockFreeQueue

The same grain. A node keeps its two counters in one value; a pusher that finds
the last node filled helps to link the next. The class has no constructor that
allocates the first dummy node, and assigns to fields of a `std::atomic`; the
model starts with the dummy, and reads these as they must be meant. `FifoQueue`
gives less than a queue in one respect, which the code has: a push that was
delayed may store its element in a node that has been popped meanwhile, and the
element never arrives (`lost`). A pop of an empty queue leaves its count on the
node, which is then never deleted (`emptyAt`).

### LockerQueue

A push evicts at the head until there is room and its offset is free, takes the
next sequence number, and holds the write lock of its slot until `UnlockPush`.
`LockAt` refuses a slot that is being written at once; otherwise it takes the read
lock, and gives it back if the slot turns out not to be set (`Setted`, `Refuse`), so
that a reader stands in a pusher's way also where it gets nothing. The class of the lockers
is declared in a header that is not in the repository: try-locks with one writer
or several readers, as its names and uses say.

### Singleton

One action is one access to `instance_` or the construction or destruction of an
object. Which threads create and destroy is a parameter of the module: with two
creators, both may find null, and one object is never deleted; nothing in the code
prevents it, so the instance that is checked has one creator.

### ParallelAlgorithms, TaskGroup and Task

`ParallelForeach` and `ParallelReduce` share the code that cuts the range and differ in
the end of the last chunk (`LastEnd`) and in how they wait (`Rethrow`). An initial
state fixes the algorithm, the length of the range, the number of parts and the
element, if any, on which the client's function throws. The caller starts the
chunks one by one and waits for them in order; each started chunk calls the
function on its elements one by one, in every interleaving with the others.
`visits` counts the calls; its last entry is the position past the end.

In `TaskGroup` an initial state fixes the function that is called, the number of
tasks and which return a value. Starting a task chooses whether `std::async`
makes a thread or defers; a task returns or throws. `WhenAny` polls round after
round, and its result's futures are destroyed at its end, which waits. A second
`Wait` on one group is not modelled. (`Run` at line 30 has no return; it is
read as returning nothing.)

In `Task` a task is a chain of functions. `Then` moves the function into a
closure that holds the continuation by reference; `temps` are the continuations
that are temporaries of the current statement, `dead` those that have ended. `Get`,
`Wait` and `Run` hand the chain to `std::async`.

### What owns objects

`Optional` counts the objects constructed and destroyed in the storage (`live`),
and lets every constructor throw. `Lazy` uses it, and records (`stray`) that the
closure refers to parameters of a constructor that has returned. `Any` has a heap
of addresses; `hollow` are the variables whose object was moved away. In `Variant`
the type index and the object that is really there are two fields; variant.hpp
and variant_new.hpp are two instances. Neither assignment asks whether a variant is
assigned to itself (variant.hpp:185-194, variant_new.hpp:82-92): its constructor is then
given the object over which it constructs (`OverItself`). The model notes a copy,
destruction or access that does not meet an object of the type (`confused`), and ends there. `TypeLists` has their recursive templates
over lists of types, compared with definitions that quantify over the list; a
template that takes the types one by one is a recursive function, whose value at
`i` is what the instantiation for the types from the `i`-th on comes to.
`ObjectPool` has the entries of the map with the deleter each handle carries.
`ListNode` inserts beside every node. `FunctionTraits` follows the compiler
through the specialisations and the two overloads of `to_function`.

### What calls back

`Events` and `MessageBus` have a stack of the calls in progress (`frames`), each
with the element its loop stands on; whoever is called may connect, remove, notify
and throw. A loop that stands on an erased element is where the code has no defined
behaviour: the models end there (`lost`). `Command` is used by a client of nested
scopes and statements, whose variables and temporaries the closure refers to.
`Aspect` records the calls that `Invoke` makes, with what they do to the argument.
`ScopeGuard` has guards that are moved, dismissed and destroyed.

## What is checked

| run | instance | properties |
|---|---|---|
| `queue_safety` | 4 threads, 4 elements, capacity 2 | `TypeOK`, `Capacity`, `FifoExactlyOnce`, `ListsDisjoint`, `ProducersBlockOnlyWhenFull`, `BacklogHasTaker`, `StopReachesWaiters` |
| `queue_live` | 3 threads, 3 elements, capacity 1 | `StopReleases`, `PutWaitsForRoomOnly` |
| `queue_bak_wakeup` | 3 threads, 4 elements, capacity 2, the older `Take` | `PutWaitsForRoomOnly`, violated |
| `pool_safety` | both pools: 2 workers, 2 clients, capacity 2, 3 tasks: one adds, one stops, one throws | `TypeOK`, `LeavesStopped`, `StopMeansStopped`, `ImplementsTaskPool` |
| `pool_stall` | both pools: 2 workers, 1 client, capacity 1, 5 tasks, 2 of which add | `StalledOnlyByFullQueue` |
| `pool_live` | both pools with 2 workers, narrow: 2 clients, one of which only stops, capacity 1, 2 tasks; and wide: 1 client, capacity 2, 3 tasks; one task adds | `StopCompletes`, `TasksServed` |
| `lock_free` | the stacks and `LockFreeQueue`: 3 threads, 3 addresses (and a dummy), 3 elements, 3 pops (`ThreadCountStack` 4, the queue 2), external counts to 4, 2 hazard slots, 2 thread ends | `TypeOK`, `NoUseAfterDelete`, `EveryNodeHasOwner`, `CountsAddUp`, `SlotsHandedOver`, `ImplementsLifo`, `ImplementsFifo` |
| `threads` | the parallel algorithms on every range of up to 8 elements and up to 4 parts, each element or none throwing; groups of up to 3 tasks; 2 tasks with 3 functions and 2 jobs, 4 of both; a ring of 2 with one pusher and 2 readers, or 2 pushers and one reader; the singleton with 3 threads | `TypeOK`, `NothingOutlivesCall`, `ReturnsComplete`, `ChainsSound`, `RingSound`, `OneObject`, `CallsEnd` |
| `objects` | 3 variables, 2 keys, 2 types, 2 values, 4 addresses; 3 pooled objects, at most 2 by one `Init`; 5 list nodes; lists of up to 5 types | `TypeOK`, `OwnedOnce`, `TagsTellTruth`, `LinksAgree`, `TypeAnswers` |
| `callbacks` | 4 observers and 3 notifications; 4 receivers on 2 topics of one type and one of another, 2 messages; a command and 3 variables; up to 3 aspects; 3 guards | `TypeOK`, `CallsEverybody`, `CallsOnce`, `StraysOnlyInside`, `LoopsEnd` |
| `parallel_sum` | up to 4 elements, 3 parts | `ReduceCovers`, violated |
| `command_temps` | a command and one variable | `ExecutesWrapped`, violated |

What they show:

- **The queue** keeps its capacity, order and contents in every interleaving
  (`Capacity`, `FifoExactlyOnce`, `ListsDisjoint`). No wakeup is lost on either
  side: a producer sleeps only while the queue is full, and while elements are
  queued and a consumer sleeps, another one is awake to take them. After `Stop`
  every thread inside returns.
- **The older queue** (include.bak/sync_queue.hpp:33) takes the whole queue and
  notifies one producer. A second producer then sleeps beside a queue that has
  room, and no one is obliged to wake it; its comment (lines 97-99) says that `Put`
  waits until the queue is not full. `queue_bak_wakeup` is that counterexample.
  The current code notifies all.
- **The pools** keep the promises of `TaskPool`; a client's `Stop` returns only
  when the queue is stopped and all workers have left, whether the caller did the
  work or found it done. Their workers all sleep beside queued tasks only when each
  of them runs a task that waits in `AddTask` for room in the full queue: such
  tasks bring a pool to a halt, and nothing else does. `Stop` completes and every
  accepted task is begun, except where the code cannot keep to it: a task that
  calls `Stop` ends the process or, behind another caller, waits for ever, so
  `StopCompletes` excludes it and `pool_live` has no such task. In its wide instance a worker
  takes two tasks at once, and the second is begun in the end, whether the first only takes its
  time or adds a third; but a pool that is halted as above begins nothing, and tasks that are
  accepted but not begun when the stop comes are dropped, which `TasksServed` and
  `TaskPool` allow. A worker of the older pool leaves only when the queue is stopped.
- **The stacks** are linearizable; no node is used after it is deleted, deleted
  twice or forgotten, with addresses reused at once. In `RefCountStack` the two
  counts of a node always add up to the number of threads that use it. In
  `HazardStack` the slot of a thread that ended carries nothing over to the next
  owner. In `ThreadCountStack` `threads_in_pop` is the number of threads that may
  hold a node, and a list claimed by a thread that is alone is deleted only if it is
  alone still. That stack does crash: a pop of nothing beside another pop
  passes null to `chain_pending_node` (line 52), which writes its `next`. The
  properties hold up to that step.
- **`LockFreeQueue`** is linearizable to `FifoQueue`: in order, each element at
  most once, nothing returned only when there is nothing; but a delayed push can
  lose its element (line 61), and pops of nothing keep nodes for ever (line 91).
- **The ring** never disturbs a slot that a thread holds. With one pusher the
  counted slots hold the last elements in order. With two, `count_` may pass the
  size and be subtracted twice, and order is not promised. A push completes when
  readers stop coming. Before that it may not: a pusher polls the write lock and sleeps
  in between (line 45), or spins (line 74), and one reader that locks the slot again between two
  polls keeps it out for ever. Other pushers could do the same; `MaxPushes` leaves that out.
- **The singleton** with one creating thread never has two objects and never gives
  its creator null or a deleted one; other threads may get either.
- **The parallel algorithms** never visit an element twice, end, and leave no
  chunk running when they return or throw. `ParallelForeach` visits its whole range;
  when the function throws, the rest of that chunk is dropped and the caller is not
  told. `ParallelReduce` leaves out the remainder of the division of the length by
  `hardware_concurrency()`, and with fewer elements than parts reads past the end:
  its last chunk ends at `begin + block_size` (line 197), not at `end`. `parallel_sum`
  is the counterexample to what `test_parallelsum` (main.cpp:248-261) uses it for.
  With `hardware_concurrency()` 0 both divide by zero (`Trap`).
- **Groups.** `TaskGroup::Wait` and `WhenAll` end with all tasks done, or leave at
  the first exception, when other tasks may still be running; none is left once the group
  or the futures are destroyed, which waits for them. `WhenAny` names a task that
  has ended. It polls for ever when it has no task, or only deferred ones, which
  `CallsEnd` excludes.
- **Tasks.** A function belongs to one task. Within the statement that called
  `Then`, `Get` and `Wait` call no continuation that has ended; a `Get` in a later
  statement does (task.hpp:40), as does a `Run` whose thread is late.
- **What owns objects.** Flags tell the truth, also after a constructor threw
  (`OwnedOnce`). An `Any` tells the type of its object but for one that was moved
  from: its type stays. An assignment to a `Variant` whose constructor throws leaves
  the index of what is gone. Apart from that, the only operation by which a variant copies,
  destroys or hands out anything but an object of its type is its assignment to itself,
  which constructs over the object it copies (`MisreadsItself` in `TagsTellTruth`); nothing
  is defined from there on. With a type twice in its list, variant_new.hpp would
  destroy twice (it acts on every match), so it is checked with distinct types. A
  pooled object that comes back is stored without the pool's deleter: it is recycled
  once (object_pool.hpp:40). The destruction of the pool waits for nothing and deletes what
  is inside, though main.cpp:144 says that it blocks when not all objects have been taken
  out. `to_function`
  takes no lvalue, though line 55 of function_traits.hpp names an overload for
  `const &`, and no function that is `noexcept` or has a reference qualifier (in
  C++17).
- **What calls back.** A `Notify` or `SendReq` that returns has called everybody
  connected, or attached to its key, in every nesting. The exceptions are the
  code's: an observer that disconnects itself erases the element of the loop
  (events.hpp:30; the comment at line 25 says that erasing is fine), and a receiver
  attached inside the fixed range of a message, under a later key, is called with
  it. A command is safe when it was wrapped with variables that outlive it;
  `command_temps` is the counterexample to main.cpp:99-101, which wraps a temporary
  and executes in the next statement.

### Why the bounds are enough

- Queue: lost wakeups and stolen room need two threads on one side and a third
  one in between; four threads give two of each, or three and a `Stop`. Four
  elements with capacity 2 fill the queue, drain it and fill it again.
- Pools: two workers are the least that can run a batch while another sleeps, or
  join one another; two clients are the least that can race on `Stop`. `Adders`
  has two adding tasks, one for each worker, two plain tasks for them to add and
  one to fill the queue of capacity 1, which is the least that stalls it. In
  `pool_live`, a batch of two needs capacity 2, and three tasks put one behind the one that
  is running and one more into the queue, for the other worker; one client's calls are
  enough to make them. The narrow instance is for the stop: its second client
  races with the first for `call_once` and finds it blocked in `AddTask`. Together, with
  two clients and three tasks, they are beyond the time of a run.
- Stacks and queue: ABA takes a popper, and another thread that pops two nodes and
  pushes one back; three addresses and three elements give that and a third
  contender. Two slots for three threads let a thread find all slots taken.
  `MaxPops`, `MaxCount`, `MaxExits` cap counters that the code leaves unbounded; a
  popper that would exceed `MaxCount` stays where it is, so that larger counts are
  not explored. With one external count per thread and the stack's own, 4 is what
  three poppers of one node reach at once. A push of `LockFreeQueue` that helps
  another needs two; the third thread is the popper that overtakes both.
- Ring: 2 slots make every push beyond the second evict; 5 pushes go around twice.
  With two pushers the lost touch between counts and slots shows in 3 pushes.
- Parallel algorithms: 8 elements on 4 parts have every relation of length and parts:
  less, equal, a multiple, one off a multiple, and a last chunk longer than a
  block. Groups of three have a task before and behind the one that throws.
- Tasks: one function, one continuation and one more, or two jobs of one task.
- Objects: three variables are the two of an assignment or move and a witness.
  Two types are the one that is there and another; four addresses are one more than
  the variables. Five list nodes have neighbours old and new on both sides. Lists of
  five types pass every case of the templates' recursion, repeats included.
- Callbacks: three nested notifications with four observers have one that was there,
  one that comes, one that goes, and one that is called between.

`CHECK_DEADLOCK FALSE` stands in every configuration because clients may stop
calling, elements and pops run out, calls end, and a pool may be stopped or its
process ended. That nothing hangs which should not is stated by the liveness properties
and by `BacklogHasTaker`, `StalledOnlyByFullQueue`.

Symmetry is used over threads, nodes, elements, types, values, addresses and
interchangeable plain tasks, and never in a run with a temporal property under
fairness.

### Fairness

`FairSpec` of the queue asks for weak fairness of `Proceed(t)` for each thread:
a thread that could run its critical section, had it the mutex, gets it in the
end. The operating system runs every runnable thread and the mutex is assumed not
to starve one. The pools ask the same of every thread's own steps
(`Run(t)`, `RunBak(t)`) and of the constructor. Calls by clients are never fair:
nobody has to put, take, add or stop. Tasks that return are taken to return.

In `MCThreads` the callers, the chunks and tasks that `std::async` has started and
the return of a deferred one are weakly fair: started threads run, and a deferred
function runs in its caller. In the ring, too, fairness is weak: a pusher goes on with what it
can do, and gets a lock that stays free, as one that polls does; whoever holds a slot
unlocks it, and a reader that is going to be refused gives its lock back. Strong fairness
of the lock would claim more than a poll gives. So that readers stop coming (`ReadersStop`) is
the premise of `PushCompletes`, and not a fairness condition.
In `MCCallbacks` one thread runs, and an observer or receiver that was called
returns or throws in the end. The stacks and `LockFreeQueue` have no liveness
property: their operations retry, and a finite model of retries that raise a count
would not show it.

## What is proved

Every theorem below is about a specification that a run checks (the first three of
`PoolsProofs` about the pool of `include/` alone), and holds for all values of the
constants that satisfy the named `ASSUME`s: any sets of threads, tasks, elements
and addresses, any bounds. The assumptions say what the code gives by itself: a
capacity, a number of workers or a bound is a natural number; a null value is none
of the others (`None`, `Null`, `Empty`, `Dummy`); the number of slots of the ring,
of hazard pointers, of pops and of an external count is not zero; clients are not
workers, readers not pushers; each task has a kind; the threads and the addresses
of a lock-free container and the objects of the pool are finitely many, because
their numbers are compared; what `Resolve` returns instead of a value (`"null"`,
`"bad_cast"`) is not a value, and no type is called `"void"`, the type of an empty
`Any` or variant.

Some numbers are part of an instance and not constants, so the theorems are about
them: in `MCObjects` an `Init` of the pool makes at most two objects, a variant
has one of two given lists of types and is assigned three times, and `TypeLists`
grows lists of the sizes 2, 3 and 4 to a length of 5. The lemmas that `AnswersHold`
rests on need no length (`ListInv` is `list \in Seq({2, 3, 4})`).

| module | theorem | states |
|---|---|---|
| `SyncQueueProofs` | `TypeCorrect`, `CapacityHolds`, `FifoHolds`, `ListsHolds`, `ProducersHolds`, `BacklogHolds`, `StopReachesHolds` | the seven invariants of `queue_safety` |
| | `BakHolds` | six of them for the older `Take`, all but `ProducersBlockOnlyWhenFull`, which it violates |
| `PoolsProofs` | `PoolUsesQueue` | the pool implements `SyncQueue` |
| | `StalledHolds`, `StopMeansStoppedHolds` | the current pool's `StalledOnlyByFullQueue`, `StopMeansStopped` |
| | `PoolTypeCorrect`, `BothStopMeansStopped`, `BothStalledHolds`, `LeavesStoppedHolds` | `TypeOK`, `StopMeansStopped`, `StalledOnlyByFullQueue`, `LeavesStopped` of both pools |
| | `BothImplement` | `ImplementsTaskPool`: both pools refine `TaskPool` |
| `LockFreeProofs` | `LockFreeInvariant` | the inductive invariant of the four stacks and the queue |
| | `StacksImplement`, `QueueImplementsFifo` | `ImplementsLifo`, `ImplementsFifo`: the stacks refine `LifoStack`, `LockFreeQueue` refines `FifoQueue` |
| | `NeverUsesDeleted`, `OwnersHold`, `CountsAddUpHolds`, `SlotsHandedOverHolds`, `LockFreeTypeCorrect` | `NoUseAfterDelete`, `EveryNodeHasOwner`, `CountsAddUp`, `SlotsHandedOver`, `TypeOK` of `lock_free` |
| `ThreadsProofs` | `ThreadsTypeCorrect`, `NothingOutlivesCallHolds`, `ReturnsCompleteHolds`, `ChainsSoundHolds`, `RingSoundHolds`, `OneObjectHolds` | the safety properties of `threads` |
| `ObjectsProofs` | `ObjectsInvariant` | the inductive invariants of the components of `objects` |
| | `ObjectsTypeCorrect`, `OwnersOfObjectsHold`, `TagsHold`, `LinksHold`, `AnswersHold` | `TypeOK`, `OwnedOnce`, `TagsTellTruth`, `LinksAgree`, `TypeAnswers` |
| `CallbacksProofs` | `CallbacksTypeCorrect`, `CallsOnceHolds`, `CallsEverybodyHolds`, `StraysOnlyInsideHolds` | the safety properties of `callbacks` |

### The queue

- `TypeOK` is not inductive by itself: that `AddPush` pushes a task needs that a
  thread in `Put` carries one, and that `TakeSwap` leaves the queue empty needs that
  a thread in `Take` brought an empty list. `CallOK` says both, and `TypeInv`, the two
  together, is inductive.
- `CapacityHolds`, from `Bounded` (`Len(queue_) <= MaxSize`), inductive because
  `AddPush` evaluates `NotFull` in the same critical section.
- `FifoHolds`: `FifoExactlyOnce` is inductive given `TypeInv`.
- `ListsHolds`. That no two lists share an element needs to know where elements
  come from: `ContentsOnce` adds that no two producers carry the same element, that
  none carries one already accepted, and that the queue and the lists hold only
  accepted ones.
- `ProducersHolds`, `BacklogHolds`, `StopReachesHolds`: the three facts about
  wakeups. Each is inductive given `TypeInv`; the case that needs the argument
  is, for `BacklogHasTaker`, a push that wakes one of several consumers
  (`NotifyOneRemoves`: exactly one leaves the set, and it is awake inside `Take`).
- `BakHolds`: `BakInv`, all of that but the fact about producers, is also kept by
  the older `Take`.

### The pools

- `PoolUsesQueue`: each behaviour of the pool is, on the queue's variables, a
  behaviour of `SyncQueue`. What is proved of the queue therefore holds in the pool.
- `StalledHolds`, from that, `BacklogHolds`, `ProducersHolds`, and
  `ClientsNeverTake`: no client is ever inside `Take`, so a consumer that is awake
  is a worker. For both pools (`BothStalledHolds`) the fact about producers is
  missing; instead, when all workers wait for room there is none, because only a
  worker makes room (`AllBlockedStep`).
- `StopMeansStoppedHolds`, from the inductive `StopInv`: a worker the
  constructor has not reached is nowhere else (`StartedOnce`); a thread inside the
  queue's `Stop` has set `need_stop_` once it is past the first section
  (`InQueueStop`); and the workers up to `joined` have left, a thread that joins has
  stopped the queue, and `flag_` is done only when all of it is (`StopProgress`).
- `BothImplement`, from `PoolInv`: beside the queue's invariant and `StopInv`, where
  each thread is and what it has left of its batch (`PlacesInv`), that a task that
  has finished is nowhere any more (`OncePerTask`), and that only one thread is
  past `call_once` (`OneStopper`). Each step is then one of `TaskPool`, or leaves its
  three variables alone; the case that needs `OneStopper` is a worker that ends
  with `running_` while the stop has come half way.

### The stacks

`LockFreeInv` says, for the container that `part` names, that there is a list of
nodes that its other parts are about. In a stack it is the list `c`: the nodes
that lead from `head` to null, each once. That the list is a list, and not a cycle
that a reused address has closed, is the heart of it. Around it:

- *owners.* Each allocated node is in the list, on the list of nodes to delete, or
  with one thread, and what a thread will still touch is allocated.
- *`HazardStack`.* `HazardGuard` says that a node whose announcement has been
  confirmed is allocated, and that who looks through the slots for it has yet to
  come to the slot that announces it. So nobody finds it unannounced, and the node
  that an exchange expects has not been deleted and linked again.
- *`ThreadCountStack`.* `CountGuard` says that a node that an exchange expects is
  allocated, and none that a thread which found itself alone is going to delete,
  the claimed list included; that nobody else is inside when it does follows from
  `threads_in_pop` being the number of the threads inside.
- *`RefCountStack`.* For each link, its count less one and the node's internal count
  are, together, the node's users; a popper owes its node what it took with the
  link; a node that is left to its users has an internal count greater than zero,
  equal to their number, so that exactly the last finds it to be one. The exchange
  compares count and pointer; when both agree, the node is still in the list,
  because the thread that expects it is one of its users.
- *`SharedptrStack`.* A node is alive while a chain from a variable leads to it, so a
  node in hand cannot be reused, and the link below it is as it was.

From the list, each step of a stack is a step of `LifoStack` or a stutter
(`LockFreeMove`), where an element may not be pushed twice: `DataApart` says that
nodes whose elements are still to be returned hold different ones. That a pop
of nothing takes effect once is counted (`empties` and the threads still looking are
no more than the pops).

The definitions of the models follow links with recursive functions; that these
exist, and pass all of a list in as many steps as there are nodes, is proved in
`DataProofs` (`Iterates`, `PathUnfolds`, `ChainsUnfold`) from the least element of a
set of numbers, which stands for induction.

### `LockFreeQueue`

`QueueInv` is about a list `b` with two ends: the nodes from `head_` up to, and
without, the one of `tail_`. Behind the tail there may be one node more, which a
push has linked and nobody has made the tail yet. Its parts:

- *the list* (`QueueList`). The nodes of `b` have elements; a node that has never been
  the tail is as its constructor left it, so an exchange that expects it empty
  does not find an old node. An element is stored before the next node is linked.
- *what is allocated* (`QueueAlive`). The linked nodes, those that pushes have made, and
  popped ones that are still in use: of these each has a next node, so a late
  exchange of a `next` that expects none fails on it.
- *the counts* (`QueueCounts`). A node has two external counts, one in `head_` (or on the
  way there) and one in `tail_`, and `counters` says how many of them have yet to be
  added to the internal one. The sets `A` and `B` hold the nodes for which the
  first, or the second, is outstanding: in its place, or in the hands of the one thread
  whose exchange took it out (`HeadWon`, `TailWon`). `va` and `vb` are what they have
  counted. For each allocated node, internal count, `va` and `vb` add up to the
  threads that use it and to `e`, the references that pops of an empty queue have
  left behind; and a node is freed when both `counters` and the internal count are
  zero (`QueueSettled`). So the one that frees is the last, and only a node with
  `e` not zero stays for ever, which is what `LeaksOnlyEmptyPops` says.
- *elements* (`QueueApart`). No element is in two places, so storing one in a popped node
  is a loss, and not a second push.

From that, each step is one of `FifoQueue` or a stutter (`QueueMove`). Which nodes are
queued is what the mapping computes from the path from `head_` (`Before`, the steps of
that path in front of the tail); that they are those of `b` is the lemma
`QueuePath`.

### What uses threads otherwise

- *Parallel algorithms.* `ParallelInv` gives each chunk its bounds by its number,
  and says that an element has been visited if and only if the chunk it belongs to
  has come so far: this implies that chunks do not overlap, for every length
  and number of parts. It needs the laws of quotient and remainder (`DataProofs`).
- *Groups.* Which tasks have started follows from the caller's place; who has been
  got has ended with a value.
- *Tasks.* A job that `Get` or `Wait` made is the one its caller waits for, so nothing
  its chain refers to can end meanwhile (`JobInv`).
- *The ring.* `RingInv`, for any pushers and readers: a pusher past its lock is the
  one writer of its slot, and a slot counts its readers. `AloneInv`, for one pusher:
  the slots that are set hold consecutive sequence numbers, from one that follows from
  the pusher's place, and there are no more than slots.
- *The singleton.* Where the one object is follows from the creator's place alone.

### What calls back

- *Events.* Who is behind the element a loop stands on is still to be called; every
  other who is connected has been (`CalledSoFar`).
- *The bus.* `Going`: who is attached under the key of a call in progress, in front of
  its iterator, has been called, unless it came when the loop had passed to another
  key; and the end of the range is in front of what was behind the key when
  the call began. Of nested calls only the innermost may have called nobody.
- *Commands.* What the closure refers to was declared before the command, but for
  what was declared inside.
- *Guards.* A function that was given is due in one guard, was run, or dismissed.
- *Aspects.* Each call that is due has its turn, and those made are the ones whose
  turns are before the next.

### What owns objects

`ObjectsInv` is the invariants of the components together; each holds also while its
variables stay as they are.

- *Optional and Lazy.* A storage has one object or none, as its flag says
  (`OptionalInv`); a lazy that has its value has been loaded once (`LazyInv`). The
  action properties of assignment and emplacement follow from the storages' types.
- *Any and the container.* Each address of the heap has one owner, and the owner's
  type is the object's (`HoldersInv`). In the container entries are registered and never
  changed, so what was ever answered for a key came from the constructor that is
  still there (`IocInv`).
- *Variants.* Until an assignment has thrown, tag and object agree. An assignment
  of an empty variant leaves an object behind that nothing names yet (`Stray`): lost and
  stray objects together are no more than the assignments (`VariantInv`). That lost
  ones are no more, as `LostByAssignment` says, would not be inductive. From the same
  invariant, each step meets objects of the types it names, or is an assignment
  of a variant to itself (`OldMisreads`, `NewMisreads`).
- *The pool.* An object is on one shelf, or in one handle, or deleted; where it is and
  whether it came back (`back`) tell how often it was handed out (`PoolHomes`).
- *List nodes.* There is a list, from header to tailer, that `succ` goes along and
  `pred` comes back on (`Chained`). An insertion is an insertion into that list; that it
  is the `Order` of the model, which follows `succ` for as many steps as there are
  nodes, needs that no node is in it twice.
- *Templates.* The recursive functions of `TypeLists` have closed forms: a number below
  or above which something begins to hold, found as the least of a set. That each
  form satisfies the equation, and that an equation has one solution (`DownToOne`,
  `UpFrom`), takes the place of the induction over lists.
- *function_traits.* Each overload of `to_function` has come some way from the deduced
  type to the end that this type has (`TraitsInv`).

### Only model-checked

- Liveness (`StopReleases`, `PutWaitsForRoomOnly`, `StopCompletes`, `TasksServed`,
  `CallsEnd`, `LoopsEnd`): it needs `ENABLED`, which the prover does not have.
- The counterexamples of `queue_bak_wakeup`, `parallel_sum` and `command_temps`.

Every other property of every run is stated by a theorem.

## What the models leave out

- **Weak memory.** The lock-free containers are modelled as sequentially
  consistent. The relaxed orders of `RefCountStack` are not explored.
- **Data races** on `Singleton::instance_` and on `SyncQueue::Count()`, which nothing
  calls: every read sees the last value written.
- **Spurious failure** of `compare_exchange_weak`: a retry reads the same value
  again and changes nothing.
- **Exhaustion**: `new`, the constructor of `std::thread` and the mutex succeed.
- **Overflow** of the external count, an `int` raised by each round of each
  pop: the model stops at `MaxCount`.
- **Values** of `ParallelReduce`: `init` enters every chunk and the final
  reduction, so an `init` that is not neutral counts several times.
- **Comparison** of variants, which compares the type indexes and nothing else; and
  hashing, printing and `type_index` names.
- **Ends of lifetimes** in the middle of a call: destroying a queue or a pool that
  is in use. The destructor of the pool is its `Stop`.
- **What does not compile.** Several templates are never instantiated by
  `main.cpp` and could not be: `Take(T&)` (`pop()` on a `std::list`) is left out;
  `MessageBus::SendReq` names `AnyCast` without calling it, `SharedptrStack` calls
  `load()` on a `shared_ptr`, `LockFreeQueue` assigns to fields of a `std::atomic`,
  `TaskGroup::Run` (line 30) lacks a return, and variant_new.hpp binds an `int` to
  a `Types&&`. These are read as they must be meant, as the modules' comments say.

## Not modelled

- **Visitor, Subject**: virtual dispatch without state; nothing can go wrong in an
  order of calls.
- **NonCopyable, Log, classes**: a deleted copy constructor, output, and the classes
  `main.cpp` tries the library with.
- **main.cpp**: its tests call each component once and print. Where a test's scopes
  or statements matter they are the client in a module (`Command`, `ObjectPool`,
  `Task`, `Any`); the rest runs one case of what a module already has.
- **include.bak** but for the queue and the pool: the same code as in `include/`.

## The plan

Nothing of the system's behaviour is left to model at this grain, and every safety
property of the runs is proved. What could follow:

1. weaker memory: the relaxed orders of `RefCountStack`, by histories of each atomic
   variable in place of its value;
2. `TypeLists` for any sizes, and `Variant` for any list of distinct types, which
   `New` now has fixed: constants of `MCObjects` in place of its numbers;
3. liveness, when a prover has `ENABLED`: `StopCompletes` from `StopInv` and
   `TasksServed` from `BothImplement` come first.
