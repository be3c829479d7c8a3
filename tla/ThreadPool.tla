----------------------------- MODULE ThreadPool -----------------------------
(***************************************************************************)
(* The thread pool of include/thread_pool.hpp, composed with the queue its *)
(* threads share.  The queue's actions are those of SyncQueue; this module *)
(* adds the code around them: the constructor that starts the workers, the *)
(* loop of RunThread, the tasks, and Stop() with its call_once and joins.  *)
(*                                                                         *)
(* A task is code of the client.  What matters about it is how it uses the *)
(* pool it runs on, its Kind: it returns ("plain"), it calls AddTask       *)
(* ("adds") or Stop ("stops") on the pool, or it throws ("throws").        *)
(***************************************************************************)
EXTENDS Naturals, Sequences

CONSTANTS
  NumThreads,  \* num_threads, the size of thread_group_
  Clients,     \* the threads outside the pool that use it
  Tasks, Kind, \* the tasks, and how each uses the pool
  MaxSize,     \* max_queue_size
  None

Kinds == {"plain", "adds", "stops", "throws"}

ASSUME NumThreadsAssumption == NumThreads \in Nat
ASSUME KindAssumption == Kind \in [Tasks -> Kinds]
ASSUME SizeAssumption == MaxSize \in Nat
ASSUME NoneAssumption == None \notin Tasks

Workers == 1..NumThreads
Threads == Workers \cup Clients

ASSUME ClientsAssumption == Workers \cap Clients = {}

VARIABLES
  queue_, need_stop_, not_full_, not_empty_, call, arg, list,
  accepted, drained, refused,   \* queue_, the SyncQueue<Task>
  running_,   \* atomic_bool running_
  flag_,      \* once_flag flag_: "unset", "active" while its callable runs, "done"
  started,    \* the threads the constructor has started: 1..started
  at,         \* where each thread is in the code of the pool
  pos,        \* where each worker is in its list of tasks
  joined,     \* the workers StopThreadPool has joined: 1..joined
  finished,   \* history: the tasks that have returned
  process     \* "up", or "aborted" by std::terminate

queueVars == << queue_, need_stop_, not_full_, not_empty_, call, arg, list,
                accepted, drained, refused >>
control == << running_, flag_, started, joined, process >>
work == << pos, finished >>
vars == << queueVars, control, at, work >>

Q == INSTANCE SyncQueue

(* RunThread outside a task, a task or a client inside AddTask or Stop.     *)
LoopPlaces == {"unborn", "loop", "take", "iter", "exit"}
CallPlaces == {"add", "once", "stopping", "qstop", "join"}

Current(w) == list[w][pos[w]]

(* Where a thread goes when AddTask or Stop returns: a client to its own   *)
(* code, a worker back into the task that made the call.                   *)
Return(t) == IF t \in Workers THEN "ret" ELSE "idle"

Goto(t, place) == at' = [at EXCEPT ![t] = place]

Init ==
  /\ Q!Init
  /\ running_ = TRUE
  /\ flag_ = "unset"
  /\ started = 0
  /\ at = [t \in Threads |-> IF t \in Workers THEN "unborn" ELSE "idle"]
  /\ pos = [w \in Workers |-> 1]
  /\ joined = 0
  /\ finished = {}
  /\ process = "up"

-----------------------------------------------------------------------------
(* The constructor: Start, one std::thread after the other. *)

Start ==
  /\ started < NumThreads
  /\ started' = started + 1
  /\ Goto(started + 1, "loop")
  /\ UNCHANGED << queueVars, running_, flag_, joined, process, work >>

(* A step inside the pool's code that changes nothing but the place. *)
Step(t, from, to) ==
  /\ at[t] = from
  /\ Goto(t, to)
  /\ UNCHANGED << queueVars, control, work >>

-----------------------------------------------------------------------------
(* RunThread. *)

LoopTake(w) ==
  /\ at[w] = "loop" /\ running_
  /\ Q!Take(w)
  /\ pos' = [pos EXCEPT ![w] = 1]
  /\ Goto(w, "take")
  /\ UNCHANGED << control, finished >>

LoopExit(w) == ~running_ /\ Step(w, "loop", "exit")

TakeReturns(w) == call[w] = "none" /\ Step(w, "take", "iter")

(* Slip: the range check is off by one. *)
MorePastEnd(w) == pos[w] <= Len(list[w]) + 1

(* Slip: only the first task of a batch is run. *)
MoreOnlyFirst(w) == pos[w] = 1 /\ Len(list[w]) > 0

More(w) == pos[w] <= Len(list[w])

IterEnd(w) == ~More(w) /\ Step(w, "iter", "loop")

IterExit(w) == More(w) /\ ~running_ /\ Step(w, "iter", "exit")

(* Slip: running_ is not read again before each task of the batch. *)
IterRunUnchecked(w) == More(w) /\ Step(w, "iter", "run")

IterRun(w) == More(w) /\ running_ /\ Step(w, "iter", "run")

(* The task has made its call, if it is of a kind that makes one.  A task   *)
(* that adds when no task of Tasks is left adds nothing.                    *)
Returning(w) ==
  \/ at[w] = "ret"
  \/ at[w] = "run" /\ Kind[Current(w)] = "plain"
  \/ at[w] = "run" /\ Kind[Current(w)] = "adds" /\ Q!Fresh = {}

NextTask(w, place) ==
  /\ finished' = finished \cup {Current(w)}
  /\ pos' = [pos EXCEPT ![w] = @ + 1]
  /\ Goto(w, place)
  /\ UNCHANGED << queueVars, control >>

TaskReturns(w) == Returning(w) /\ NextTask(w, "iter")

Terminate ==
  /\ process' = "aborted"
  /\ UNCHANGED << queueVars, running_, flag_, started, joined, at, work >>

(* An exception that leaves a thread's function ends the process. *)
TaskThrows(w) == at[w] = "run" /\ Kind[Current(w)] = "throws" /\ Terminate

-----------------------------------------------------------------------------
(* AddTask and Stop, called by a client once the constructor has returned, *)
(* or by a task.                                                           *)

MayCall(t, kind) ==
  IF t \in Workers THEN at[t] = "run" /\ Kind[Current(t)] = kind
                   ELSE at[t] = "idle" /\ started = NumThreads

AddTask(t, x) ==
  /\ MayCall(t, "adds")
  /\ Q!Put(t, x)
  /\ Goto(t, "add")
  /\ UNCHANGED << control, work >>

AddReturns(t) == call[t] = "none" /\ Step(t, "add", Return(t))

StopPool(t) == MayCall(t, "stops") /\ Step(t, at[t], "once")

(* call_once: the first caller runs StopThreadPool, a caller that finds it *)
(* running waits, and one that finds it done returns.                      *)
OnceFirst(t) ==
  /\ at[t] = "once" /\ flag_ = "unset"
  /\ flag_' = "active"
  /\ Goto(t, "stopping")
  /\ UNCHANGED << queueVars, running_, started, joined, process, work >>

(* Slip: a caller of Stop() does not wait for the one that runs it. *)
OnceDoneEarly(t) == flag_ # "unset" /\ Step(t, "once", Return(t))

OnceDone(t) == flag_ = "done" /\ Step(t, "once", Return(t))

(* Slip: running_ stays true. *)
KeepRunning == UNCHANGED running_

ClearRunning == running_' = FALSE

StopRunning(t) ==
  /\ at[t] = "stopping"
  /\ ClearRunning
  /\ Q!Stop(t)
  /\ Goto(t, "qstop")
  /\ UNCHANGED << flag_, started, joined, process, work >>

QueueStopped(t) == call[t] = "none" /\ Step(t, "qstop", "join")

Joining(t) == at[t] = "join" /\ joined < NumThreads

Join(t) ==
  /\ Joining(t) /\ at[joined + 1] = "exit"
  /\ joined' = joined + 1
  /\ UNCHANGED << queueVars, running_, flag_, started, process, at, work >>

(* A worker that reaches itself in thread_group_: join throws               *)
(* resource_deadlock_would_occur, which leaves the task and the thread.     *)
JoinSelf(t) == Joining(t) /\ joined + 1 = t /\ Terminate

StopReturns(t) ==
  /\ at[t] = "join" /\ joined = NumThreads
  /\ flag_' = "done"
  /\ Goto(t, Return(t))
  /\ UNCHANGED << queueVars, running_, started, joined, process, work >>

-----------------------------------------------------------------------------
(* The steps of the queue a thread of the pool is inside of. *)

InQueue(t) == Q!Proceed(t) /\ UNCHANGED << control, at, work >>

Spurious(t) == Q!Spurious(t) /\ UNCHANGED << control, at, work >>

RunThread(w) ==
  \/ LoopTake(w) \/ LoopExit(w) \/ TakeReturns(w)
  \/ IterEnd(w) \/ IterExit(w) \/ IterRun(w)
  \/ TaskReturns(w) \/ TaskThrows(w)

StopThread(t) ==
  \/ OnceFirst(t) \/ OnceDone(t) \/ StopRunning(t) \/ QueueStopped(t)
  \/ Join(t) \/ JoinSelf(t) \/ StopReturns(t)

Call(t) == (\E x \in Tasks : AddTask(t, x)) \/ StopPool(t)

(* What a thread does by itself: everything but the calls of a client. *)
Run(t) ==
  /\ process = "up"
  /\ \/ t \in Workers /\ (RunThread(t) \/ Call(t))
     \/ InQueue(t) \/ AddReturns(t) \/ StopThread(t)

Construct == process = "up" /\ Start

Ask(t) == process = "up" /\ t \in Clients /\ Call(t)

Wakeup(t) == process = "up" /\ Spurious(t)

Next == Construct \/ \E t \in Threads : Run(t) \/ Ask(t) \/ Wakeup(t)

Spec == Init /\ [][Next]_vars

(* The operating system runs every thread that can run, and the mutex      *)
(* starves none.  Clients call what and when they like.                    *)
FairSpec == Spec /\ WF_vars(Construct) /\ \A t \in Threads : WF_vars(Run(t))

-----------------------------------------------------------------------------
(* The pool as TaskPool sees it. *)

Serving(w) == at[w] \notin LoopPlaces

(* The tasks of its batch a worker has not begun. *)
Remaining(w) ==
  { list[w][i] : i \in (IF Serving(w) THEN pos[w] + 1 ELSE pos[w])..Len(list[w]) }

Pending == Q!Contents(queue_) \cup UNION { Remaining(w) : w \in Workers }

Phase == IF running_            THEN "open"
         ELSE IF ~need_stop_    THEN "halting"
         ELSE IF flag_ # "done" THEN "draining"
                                ELSE "closed"

Pool == INSTANCE TaskPool
          WITH pending <- Pending,
               serving <- [w \in Workers |-> IF Serving(w) THEN Current(w) ELSE None],
               phase <- Phase

-----------------------------------------------------------------------------
(* Properties. *)

(* Type invariant.  A worker inside a task is at a position of its batch.   *)
TypeOK ==
  /\ Q!TypeOK
  /\ running_ \in BOOLEAN
  /\ flag_ \in {"unset", "active", "done"}
  /\ started \in 0..NumThreads
  /\ at \in [Threads -> LoopPlaces \cup CallPlaces \cup {"run", "ret", "idle"}]
  /\ \A t \in Threads : at[t] \in LoopPlaces \cup {"run", "ret"} => t \in Workers
  /\ pos \in [Workers -> Nat \ {0}]
  /\ \A w \in Workers : Serving(w) => pos[w] <= Len(list[w])
  /\ joined \in 0..NumThreads
  /\ finished \subseteq Tasks
  /\ process \in {"up", "aborted"}

(* When a client's Stop() returns, whether it ran StopThreadPool or found   *)
(* that another thread had, the queue is stopped and every worker has left  *)
(* RunThread.                                                               *)
StopMeansStopped ==
  [][ \A t \in Clients :
        at[t] \in {"once", "join"} /\ at'[t] = "idle" =>
          need_stop_ /\ \A w \in Workers : at[w] = "exit" ]_vars

(* No lost wakeup in the pool: its workers all sleep while tasks are queued *)
(* only if each of them runs a task that waits in AddTask for room.         *)
StalledOnlyByFullQueue ==
  /\ ~need_stop_ /\ Workers # {}
  /\ Workers \subseteq not_full_ \cup not_empty_
  /\ queue_ # << >>
  => Workers \subseteq not_full_ /\ ~Q!NotFull

(* The pool keeps the promises of TaskPool.                                 *)
ImplementsTaskPool == Pool!Spec

(* A client's Stop() returns, if the tasks return; unless a task itself     *)
(* calls Stop(), which waits for the worker that runs the task.             *)
StopCompletes ==
  \A c \in Clients :
    at[c] = "once" ~> \/ at[c] = "idle" \/ process = "aborted"
                      \/ \E w \in Workers : at[w] \in {"once", "join"}

(* If the tasks return, every accepted task is begun unless a stop comes    *)
(* first, be it queued or behind others in the batch of a worker.  When all *)
(* workers wait for room in AddTask, their tasks do not return.             *)
TasksServed ==
  \A x \in Tasks :
    x \in Pending ~> \/ x \in finished \/ ~running_
                     \/ Workers \subseteq not_full_
                     \/ \E w \in Workers : Serving(w) /\ Current(w) = x

=============================================================================
