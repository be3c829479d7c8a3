----------------------------- MODULE PoolsProofs -----------------------------
(***************************************************************************)
(* Proofs about both pools, that of include and that of include.bak, for   *)
(* every number of workers and clients, every set of tasks and whatever    *)
(* they do, and every capacity of the queue: the type invariant, that each *)
(* pool keeps the promises of TaskPool, what the return of Stop() means,   *)
(* and what holds when a worker leaves its loop.                           *)
(*                                                                         *)
(* First what is proved of the pool of include alone, in which its callers *)
(* need not be told from those of the other.  It uses its queue as         *)
(* SyncQueue lets any threads use it, so what SyncQueueProofs proves of    *)
(* the queue holds of the queue in the pool.  QP is the same instance as   *)
(* Q, taken where its theorems are.                                        *)
(***************************************************************************)
EXTENDS MCThreadPool, TLAPS

QP == INSTANCE SyncQueueProofs

(* The tuples of variables the actions leave unchanged. *)
USE DEF queueVars, control, work

-----------------------------------------------------------------------------
(* The pool implements the queue. *)

(* The pool's initial states are states the queue starts in.                *)
LEMMA QueueInit == Init => Q!Init
BY DEF Init

(* Its steps are steps of the queue, or leave the queue alone.              *)
LEMMA QueueStep == [Next]_vars => [Q!Next]_Q!vars
<1> SUFFICES ASSUME [Next]_vars PROVE [Q!Next]_Q!vars
  OBVIOUS
<1>1. ASSUME NEW t \in Threads, NEW x \in Tasks, AddTask(t, x) PROVE Q!Next
  BY <1>1 DEF AddTask, Q!Next, Q!Enter
<1>2. ASSUME NEW w \in Workers, LoopTake(w) PROVE Q!Next
  BY <1>2 DEF LoopTake, Threads, Q!Next, Q!Enter
<1>3. ASSUME NEW t \in Threads, StopRunning(t) PROVE Q!Next
  BY <1>3 DEF StopRunning, Q!Next, Q!Enter
<1>4. ASSUME NEW t \in Threads, InQueue(t) \/ Spurious(t) PROVE Q!Next
  BY <1>4 DEF InQueue, Spurious, Q!Next
<1>5. ASSUME UNCHANGED queueVars PROVE UNCHANGED Q!vars
  BY <1>5 DEF Q!vars, Q!contents, Q!waits, Q!callers
<1> QED
  BY <1>1, <1>2, <1>3, <1>4, <1>5
     DEF Next, vars, Construct, Start, Run, RunThread, Call, StopThread, Ask,
         Wakeup, LoopExit, TakeReturns, IterEnd, IterExit, IterRun, TaskReturns,
         NextTask, TaskThrows, Terminate, AddReturns, StopPool, OnceFirst,
         OnceDone, QueueStopped, Join, JoinSelf, StopReturns, Step

(* Every behaviour of the pool is, on the queue's variables, one of         *)
(* SyncQueue: RunThread, AddTask and Stop call the queue as any client may. *)
THEOREM PoolUsesQueue == Spec => Q!Spec
BY QueueInit, QueueStep, PTL DEF Spec, Q!Spec

(* QP is Q.                                                                 *)
LEMMA SameInit == Q!Init => QP!Init
BY DEF Q!Init, QP!Init

LEMMA SameStep == [Q!Next]_Q!vars => [QP!Next]_QP!vars
BY DEF Q!Next, Q!vars, Q!contents, Q!waits, Q!callers, Q!Contents, Q!Fresh,
       Q!Enter, Q!Put, Q!Take, Q!Stop, Q!StopStep, Q!Spurious, Q!Proceed,
       Q!AddBlock, Q!AddPush, Q!AddStopped, Q!InAdd, Q!NotFull, Q!PushBack,
       Q!NotifyConsumer, Q!NotifyOne, Q!ReturnFromAdd, Q!TakeBlock, Q!TakeSwap,
       Q!TakeStopped, Q!TakeAll, Q!InTake, Q!NothingToTake, Q!NotEmpty, Q!Swap,
       Q!NotifyProducers, Q!StopSet, Q!StopNotifyFull, Q!StopNotifyEmpty,
       QP!Next, QP!vars, QP!contents, QP!waits, QP!callers, QP!Contents,
       QP!Fresh, QP!Enter, QP!Put, QP!Take, QP!Stop, QP!StopStep, QP!Spurious,
       QP!Proceed, QP!AddBlock, QP!AddPush, QP!AddStopped, QP!InAdd, QP!NotFull,
       QP!PushBack, QP!NotifyConsumer, QP!NotifyOne, QP!ReturnFromAdd,
       QP!TakeBlock, QP!TakeSwap, QP!TakeStopped, QP!TakeAll, QP!InTake,
       QP!NothingToTake, QP!NotEmpty, QP!Swap, QP!NotifyProducers, QP!StopSet,
       QP!StopNotifyFull, QP!StopNotifyEmpty

(* What the theorems of SyncQueueProofs say of the queue of the pool. *)
QueueInv ==
  QP!TypeOK /\ QP!ProducersBlockOnlyWhenFull /\ QP!BacklogHasTaker

LEMMA QueueInvHolds == Spec => []QueueInv
<1>1. QP!MaxSizeAssumption /\ QP!NoneAssumption
  BY SizeAssumption, NoneAssumption
     DEF QP!MaxSizeAssumption, QP!NoneAssumption
<1>2. Q!Spec => QP!Spec
  BY SameInit, SameStep, PTL DEF Q!Spec, QP!Spec
<1>3. QP!Spec => []QP!TypeOK
  BY <1>1, QP!TypeCorrect
<1>4. QP!Spec => []QP!ProducersBlockOnlyWhenFull
  BY <1>1, QP!ProducersHolds
<1>5. QP!Spec => []QP!BacklogHasTaker
  BY <1>1, QP!BacklogHolds
<1> QED
  BY PoolUsesQueue, <1>2, <1>3, <1>4, <1>5, PTL DEF QueueInv

-----------------------------------------------------------------------------
(* No lost wakeup.  Only workers call Take, so the awake consumer the queue *)
(* promises is a worker, and the workers are not all asleep.                *)

ClientsNeverTake == \A client \in Clients : call[client] # "take"

LEMMA ClientsStep ==
  QueueInv /\ ClientsNeverTake /\ [Next]_vars => ClientsNeverTake'
<1> SUFFICES ASSUME QueueInv, ClientsNeverTake, [Next]_vars,
                    NEW client \in Clients
             PROVE  call'[client] # "take"
  BY DEF ClientsNeverTake
<1> USE DEF ClientsNeverTake
<1>0. call \in [Threads -> QP!Calls] /\ client \in Threads /\ client \notin Workers
  BY ClientsAssumption DEF QueueInv, QP!TypeOK, Threads
<1>1. ASSUME NEW t \in Threads, NEW x \in Tasks, AddTask(t, x)
      PROVE  call'[client] # "take"
  BY <1>0, <1>1 DEF AddTask, Q!Put
<1>2. ASSUME NEW w \in Workers, LoopTake(w) PROVE call'[client] # "take"
  BY <1>0, <1>2 DEF LoopTake, Q!Take
<1>3. ASSUME NEW t \in Threads, StopRunning(t) PROVE call'[client] # "take"
  BY <1>0, <1>3 DEF StopRunning, Q!Stop, Q!StopStep
<1>4. ASSUME NEW t \in Threads, InQueue(t) PROVE call'[client] # "take"
  BY <1>0, <1>4
     DEF InQueue, Q!Proceed, Q!AddBlock, Q!AddPush, Q!AddStopped, Q!TakeBlock,
         Q!TakeSwap, Q!TakeStopped, Q!TakeAll, Q!ReturnFromAdd, Q!StopSet,
         Q!StopNotifyFull, Q!StopNotifyEmpty, Q!StopStep, Q!callers
<1>5. ASSUME NEW t \in Threads, Spurious(t) PROVE call'[client] # "take"
  BY <1>5 DEF Spurious, Q!Spurious, Q!callers
<1>6. ASSUME UNCHANGED call PROVE call'[client] # "take"
  BY <1>6
<1> QED
  BY <1>1, <1>2, <1>3, <1>4, <1>5, <1>6
     DEF Next, vars, Construct, Start, Run, RunThread, Call, StopThread, Ask,
         Wakeup, LoopExit, TakeReturns, IterEnd, IterExit, IterRun, TaskReturns,
         NextTask, TaskThrows, Terminate, AddReturns, StopPool, OnceFirst,
         OnceDone, QueueStopped, Join, JoinSelf, StopReturns, Step

(* What is proved of the queue tells when the workers are stalled.          *)
LEMMA StalledFollows ==
  QueueInv /\ ClientsNeverTake => StalledOnlyByFullQueue
<1> SUFFICES ASSUME QueueInv, ClientsNeverTake, ~need_stop_, Workers # {},
                    Workers \subseteq not_full_ \cup not_empty_, queue_ # << >>
             PROVE  Workers \subseteq not_full_ /\ ~Q!NotFull
  BY DEF StalledOnlyByFullQueue
<1>1. not_empty_ = {}
  <2> SUFFICES ASSUME not_empty_ # {} PROVE FALSE
    OBVIOUS
  <2>1. PICK t \in Threads : call[t] = "take" /\ t \notin not_empty_
    BY DEF QueueInv, QP!BacklogHasTaker, QP!NotEmpty, QP!InTake
  <2>2. t \in Workers
    BY <2>1 DEF ClientsNeverTake, Threads
  <2>3. t \in not_full_
    BY <2>1, <2>2
  <2>4. call[t] = "add"
    BY <2>3 DEF QueueInv, QP!TypeOK
  <2> QED
    BY <2>1, <2>4
<1>2. Workers \subseteq not_full_
  BY <1>1
<1>3. ~Q!NotFull
  BY <1>2 DEF QueueInv, QP!ProducersBlockOnlyWhenFull, QP!NotFull, Q!NotFull
<1> QED
  BY <1>2, <1>3

(* However many workers there are and whatever the tasks do, the workers    *)
(* all sleep beside queued tasks only if every one of them waits in AddTask *)
(* for room in a full queue.                                                *)
THEOREM StalledHolds == Spec => []StalledOnlyByFullQueue
<1>1. Init => ClientsNeverTake
  BY DEF Init, Q!Init, ClientsNeverTake, Threads
<1> QED
  BY QueueInvHolds, ClientsStep, StalledFollows, <1>1, PTL DEF Spec

-----------------------------------------------------------------------------
(* Stop() means stopped. *)

Places == LoopPlaces \cup CallPlaces \cup {"run", "ret", "idle"}

(* A worker that left RunThread stays out of it: the constructor starts only *)
(* workers that were never started.                                         *)
StartedOnce == \A w \in Workers : w > started => at[w] = "unborn"

(* A thread inside queue_.Stop() is where the queue says, and need_stop_ is  *)
(* set from the first of its sections on.                                   *)
InQueueStop ==
  \A t \in Threads :
    at[t] = "qstop" =>
      /\ call[t] \in {"stop", "stopFull", "stopEmpty", "none"}
      /\ call[t] # "stop" => need_stop_

(* What StopThreadPool has achieved so far. *)
StopProgress ==
  /\ \A w \in Workers : w <= joined => at[w] = "exit"
  /\ \A t \in Threads : at[t] = "join" => need_stop_
  /\ flag_ = "done" => need_stop_ /\ joined = NumThreads

StopInv ==
  /\ at \in [Threads -> Places] /\ call \in [Threads -> Q!Calls]
  /\ started \in Nat /\ joined \in Nat
  /\ StartedOnce /\ InQueueStop /\ StopProgress

(* The invariant holds at first.                                            *)
LEMMA StopInvInit == Init => StopInv
<1> SUFFICES ASSUME Init PROVE StopInv
  OBVIOUS
<1>1. at \in [Threads -> Places] /\ call \in [Threads -> Q!Calls]
  BY DEF Init, Q!Init, Places, LoopPlaces, Q!Calls
<1>2. StartedOnce /\ InQueueStop
  BY DEF Init, StartedOnce, InQueueStop, Threads
<1>3. StopProgress
  <2>1. \A w \in Workers : ~(w <= joined)
    BY NumThreadsAssumption DEF Init, Workers
  <2>2. \A t \in Threads : at[t] # "join"
    BY DEF Init
  <2>3. flag_ # "done"
    BY DEF Init
  <2> QED
    BY <2>1, <2>2, <2>3 DEF StopProgress
<1>4. started \in Nat /\ joined \in Nat
  BY DEF Init
<1> QED
  BY <1>1, <1>2, <1>3, <1>4 DEF StopInv

(* Steps of the pool's own code that leave the queue and the joins alone. *)
LEMMA MoveKeepsStopInv ==
  ASSUME StopInv, NEW t \in Threads, NEW place \in Places, Goto(t, place),
         at[t] # "exit", at[t] # "unborn",
         place # "qstop", place = "join" => need_stop_,
         call' = call \/ (at[t] # "qstop" /\ \E what \in Q!Calls :
                            call' = [call EXCEPT ![t] = what]),
         need_stop_' = need_stop_, started' = started, joined' = joined,
         flag_' = flag_ \/ flag_' = "active"
           \/ (need_stop_ /\ joined = NumThreads)
  PROVE  StopInv'
<1> USE DEF StopInv, Goto
<1>1. /\ at' \in [Threads -> Places]
      /\ at'[t] = place
      /\ \A u \in Threads : u # t => at'[u] = at[u]
  OBVIOUS
<1>2. call' \in [Threads -> Q!Calls]
  OBVIOUS
<1>3. StartedOnce'
  BY <1>1 DEF StartedOnce, Threads
<1>4. InQueueStop'
  BY <1>1, <1>2 DEF InQueueStop
<1>5. StopProgress'
  BY <1>1 DEF StopProgress, Threads
<1> QED
  BY <1>1, <1>2, <1>3, <1>4, <1>5

LEMMA StartKeepsStopInv == StopInv /\ Start => StopInv'
<1> SUFFICES ASSUME StopInv, Start PROVE StopInv'
  OBVIOUS
<1> USE NumThreadsAssumption DEF StopInv, Start, Goto
<1>1. started + 1 \in Workers /\ at[started + 1] = "unborn"
  BY DEF Workers, StartedOnce
<1>2. at' \in [Threads -> Places]
  BY DEF Places, LoopPlaces
<1>3. \A w \in Workers : w > started' => at'[w] = "unborn"
  BY <1>1 DEF StartedOnce, Workers, Threads
<1>4. InQueueStop'
  BY <1>1 DEF InQueueStop, Threads
<1>5. StopProgress'
  BY <1>1 DEF StopProgress, Threads
<1> QED
  BY <1>2, <1>3, <1>4, <1>5 DEF StartedOnce

LEMMA RunThreadKeepsStopInv ==
  ASSUME StopInv, NEW w \in Workers, RunThread(w)
  PROVE  StopInv'
<1>0. w \in Threads
  BY DEF Threads
<1> USE DEF Step, Places, LoopPlaces
<1>1. CASE LoopTake(w)
  BY <1>0, <1>1, MoveKeepsStopInv DEF LoopTake, Q!Take, Q!Calls
<1>2. CASE LoopExit(w) \/ TakeReturns(w) \/ IterEnd(w) \/ IterExit(w) \/ IterRun(w)
  BY <1>0, <1>2, MoveKeepsStopInv
     DEF LoopExit, TakeReturns, IterEnd, IterExit, IterRun
<1>3. CASE TaskReturns(w)
  BY <1>0, <1>3, MoveKeepsStopInv DEF TaskReturns, Returning, NextTask
<1>4. CASE TaskThrows(w)
  BY <1>4 DEF TaskThrows, Terminate, StopInv, StartedOnce, InQueueStop,
              StopProgress
<1> QED
  BY <1>1, <1>2, <1>3, <1>4 DEF RunThread

LEMMA CallKeepsStopInv ==
  ASSUME StopInv, NEW t \in Threads, Call(t)
  PROVE  StopInv'
<1>0. at[t] = "run" \/ at[t] = "idle"
  BY DEF Call, AddTask, StopPool, MayCall
<1>1. ASSUME NEW x \in Tasks, AddTask(t, x) PROVE StopInv'
  BY <1>0, <1>1, MoveKeepsStopInv DEF AddTask, Q!Put, Q!Calls, Places, CallPlaces
<1>2. CASE StopPool(t)
  BY <1>0, <1>2, MoveKeepsStopInv DEF StopPool, Step, Places, CallPlaces
<1> QED
  BY <1>1, <1>2 DEF Call

LEMMA StopThreadKeepsStopInv ==
  ASSUME StopInv, NEW t \in Threads, StopThread(t) \/ AddReturns(t)
  PROVE  StopInv'
<1>0. Return(t) \in Places /\ Return(t) \notin {"qstop", "join"}
  BY DEF Return, Places
<1>1. CASE OnceFirst(t)
  BY <1>1, MoveKeepsStopInv DEF OnceFirst, Places, CallPlaces
<1>2. CASE OnceDone(t) \/ AddReturns(t)
  BY <1>0, <1>2, MoveKeepsStopInv DEF OnceDone, AddReturns, Step
<1>3. CASE StopRunning(t)
  <2>1. /\ at' \in [Threads -> Places] /\ call' \in [Threads -> Q!Calls]
        /\ at[t] = "stopping" /\ at'[t] = "qstop" /\ call'[t] = "stop"
        /\ \A u \in Threads : u # t => at'[u] = at[u] /\ call'[u] = call[u]
        /\ UNCHANGED << need_stop_, started, joined, flag_ >>
    BY <1>3 DEF StopRunning, Q!Stop, Q!StopStep, Q!waits, Goto, StopInv, Q!Calls,
                Places, CallPlaces
  <2> QED
    BY <2>1 DEF StopInv, StartedOnce, InQueueStop, StopProgress, Threads
<1>4. CASE QueueStopped(t)
  <2>1. need_stop_
    BY <1>4 DEF QueueStopped, Step, StopInv, InQueueStop
  <2> QED
    BY <1>4, <2>1, MoveKeepsStopInv DEF QueueStopped, Step, Places, CallPlaces
<1>5. CASE Join(t)
  BY <1>5 DEF Join, Joining, StopInv, StartedOnce, InQueueStop, StopProgress,
              Workers
<1>6. CASE JoinSelf(t)
  BY <1>6 DEF JoinSelf, Terminate, StopInv, StartedOnce, InQueueStop,
              StopProgress
<1>7. CASE StopReturns(t)
  <2>1. need_stop_
    BY <1>7 DEF StopReturns, StopInv, StopProgress
  <2> QED
    BY <1>0, <1>7, <2>1, MoveKeepsStopInv DEF StopReturns
<1> QED
  BY <1>1, <1>2, <1>3, <1>4, <1>5, <1>6, <1>7 DEF StopThread

LEMMA InQueueKeepsStopInv ==
  ASSUME StopInv, NEW t \in Threads, InQueue(t) \/ Spurious(t)
  PROVE  StopInv'
<1>0. UNCHANGED << at, started, joined, flag_ >>
  BY DEF InQueue, Spurious
<1>1. /\ call' \in [Threads -> Q!Calls]
      /\ \A u \in Threads : u # t => call'[u] = call[u]
      /\ need_stop_ => need_stop_'
      /\ call[t] \in {"stop", "stopFull", "stopEmpty", "none"} =>
           /\ call'[t] \in {"stop", "stopFull", "stopEmpty", "none"}
           /\ call'[t] # "stop" => need_stop_' \/ call[t] # "stop"
  BY DEF InQueue, Spurious, StopInv, Q!Spurious, Q!Proceed, Q!AddBlock,
         Q!AddPush, Q!AddStopped, Q!InAdd, Q!ReturnFromAdd, Q!TakeBlock,
         Q!TakeSwap, Q!TakeStopped, Q!TakeAll, Q!InTake, Q!StopSet,
         Q!StopNotifyFull, Q!StopNotifyEmpty, Q!StopStep, Q!callers, Q!Calls
<1>2. InQueueStop'
  BY <1>0, <1>1 DEF StopInv, InQueueStop
<1> QED
  BY <1>0, <1>1, <1>2 DEF StopInv, StartedOnce, StopProgress

(* Every step keeps it.                                                     *)
LEMMA StopInvStep == StopInv /\ [Next]_vars => StopInv'
<1> SUFFICES ASSUME StopInv, [Next]_vars PROVE StopInv'
  OBVIOUS
<1>1. CASE UNCHANGED vars
  BY <1>1 DEF vars, StopInv, StartedOnce, InQueueStop, StopProgress
<1> QED
  BY <1>1, StartKeepsStopInv, RunThreadKeepsStopInv, CallKeepsStopInv,
     StopThreadKeepsStopInv, InQueueKeepsStopInv
     DEF Next, Construct, Run, Ask, Wakeup

(* A Stop that returns has stopped everything.                              *)
LEMMA ReturnMeansStopped ==
  ASSUME StopInv, [Next]_vars, NEW client \in Clients,
         at[client] \in {"once", "join"}, at'[client] = "idle"
  PROVE  need_stop_ /\ \A w \in Workers : at[w] = "exit"
<1>1. client \in Threads /\ client \notin Workers
  BY ClientsAssumption DEF Threads
<1>2. OnceDone(client) \/ StopReturns(client)
  BY <1>1
     DEF StopInv, Next, vars, Construct, Start, Run, RunThread, Call, StopThread,
         Ask, Wakeup, LoopTake, LoopExit, TakeReturns, IterEnd, IterExit, IterRun,
         TaskReturns, Returning, NextTask, TaskThrows, Terminate, AddTask,
         AddReturns, StopPool, MayCall, OnceFirst, OnceDone, StopRunning,
         QueueStopped, Join, JoinSelf, StopReturns, Step, Goto, InQueue, Spurious,
         Workers
<1>3. need_stop_ /\ joined = NumThreads
  BY <1>1, <1>2 DEF OnceDone, StopReturns, Step, StopInv, StopProgress
<1> QED
  BY <1>3 DEF StopInv, StopProgress, Workers

(* However many threads call Stop(), and whatever the tasks do, it returns  *)
(* to a client only when the queue is stopped and every worker is gone.     *)
THEOREM StopMeansStoppedHolds == Spec => StopMeansStopped
<1>1. StopInv /\ [Next]_vars =>
        [ \A t \in Clients :
            at[t] \in {"once", "join"} /\ at'[t] = "idle" =>
              need_stop_ /\ \A w \in Workers : at[w] = "exit" ]_vars
  BY ReturnMeansStopped
<1> QED
  BY StopInvInit, StopInvStep, <1>1, PTL DEF Spec, StopMeansStopped

-----------------------------------------------------------------------------
(* The steps of the two pools, one by one. *)

Either == [BothNext]_allVars

QueueSteps(t) == InQueue(t) \/ InQueueBak(t) \/ Spurious(t)

(* The steps only one of the pools takes. *)
IncludeSteps(t) == version = "include" /\ (StopRunning(t) \/ QueueStopped(t))
BakSteps(t) == version = "include.bak" /\ (StopQueue(t) \/ ClearAfterQueue(t))

(* The steps of the two pools, one by one.                                  *)
LEMMA StepCases ==
  ASSUME Either
  PROVE  \/ UNCHANGED vars \/ Start \/ Terminate
         \/ \E w \in Workers :
              \/ LoopTake(w) \/ LoopExit(w) \/ TakeReturns(w) \/ IterEnd(w)
              \/ IterExit(w) \/ IterRun(w) \/ TaskReturns(w)
         \/ \E t \in Threads :
              \/ \E x \in Tasks : AddTask(t, x)
              \/ AddReturns(t) \/ StopPool(t) \/ OnceFirst(t) \/ OnceDone(t)
              \/ IncludeSteps(t) \/ BakSteps(t)
              \/ Join(t) \/ StopReturns(t) \/ QueueSteps(t)
BY DEF Either, BothNext, allVars, IncludeSteps, BakSteps, Next, NextBak, Construct, Run, RunBak, Ask, Wakeup, RunThread, Call,
       StopThread, StopThreadBak, TaskThrows, JoinSelf, QueueSteps

LEMMA EitherPool == Either => ([Next]_vars \/ [NextBak]_vars) /\ UNCHANGED version
BY DEF Either, BothNext, allVars

-----------------------------------------------------------------------------
(* What SyncQueueProofs proves of the queue, in the pool's terms. *)

QueueOK ==
  /\ Q!TypeOK
  /\ \A t \in Threads : call[t] = "add" => arg[t] \in Tasks
  /\ \A t \in Threads : call[t] = "take" => list[t] = << >>
  /\ \A t \in Threads : arg[t] \notin Q!Contents(accepted)
  /\ Q!Contents(queue_) \subseteq Q!Contents(accepted)
  /\ \A t \in Threads : Q!Contents(list[t]) \subseteq Q!Contents(accepted)
  /\ Q!ListsDisjoint

(* The invariant holds at first.                                            *)
LEMMA QueueSameInit == Q!Init => QP!Init
BY DEF Q!Init, QP!Init

LEMMA BakSameStep == [Q!Next \/ Q!NextBak]_Q!vars => [QP!Next \/ QP!NextBak]_QP!vars
<1>1. [Q!NextBak]_Q!vars => [QP!NextBak]_QP!vars
  BY DEF Q!NextBak, Q!ProceedBak, Q!TakeSwapBak, Q!NotifyOneProducer,
         Q!vars, Q!contents, Q!waits, Q!callers, Q!Contents, Q!Fresh,
         Q!Enter, Q!Put, Q!Take, Q!Stop, Q!StopStep, Q!Spurious,
         Q!AddBlock, Q!AddPush, Q!AddStopped, Q!InAdd, Q!NotFull, Q!PushBack,
         Q!NotifyConsumer, Q!NotifyOne, Q!ReturnFromAdd, Q!TakeBlock,
         Q!TakeStopped, Q!TakeAll, Q!InTake, Q!NothingToTake, Q!NotEmpty, Q!Swap,
         Q!StopSet, Q!StopNotifyFull, Q!StopNotifyEmpty,
         QP!NextBak, QP!ProceedBak, QP!TakeSwapBak, QP!NotifyOneProducer,
         QP!vars, QP!contents, QP!waits, QP!callers, QP!Contents, QP!Fresh,
         QP!Enter, QP!Put, QP!Take, QP!Stop, QP!StopStep, QP!Spurious,
         QP!AddBlock, QP!AddPush, QP!AddStopped, QP!InAdd, QP!NotFull, QP!PushBack,
         QP!NotifyConsumer, QP!NotifyOne, QP!ReturnFromAdd, QP!TakeBlock,
         QP!TakeStopped, QP!TakeAll, QP!InTake, QP!NothingToTake, QP!NotEmpty,
         QP!Swap, QP!StopSet, QP!StopNotifyFull, QP!StopNotifyEmpty
<1> QED
  BY <1>1, SameStep

LEMMA PoolsUseQueue == Either => [Q!Next \/ Q!NextBak]_Q!vars
<1> SUFFICES ASSUME Either PROVE [Q!Next \/ Q!NextBak]_Q!vars
  OBVIOUS
<1>1. CASE [Next]_vars
  BY <1>1, QueueStep
<1>2. ASSUME NEW t \in Threads, InQueueBak(t) PROVE Q!NextBak
  BY <1>2 DEF InQueueBak, Q!NextBak
<1>3. ASSUME NEW t \in Threads, StopQueue(t) PROVE Q!NextBak
  BY <1>3 DEF StopQueue, Q!NextBak, Q!Enter
<1>4. ASSUME NEW t \in Threads, ClearAfterQueue(t) PROVE UNCHANGED Q!vars
  BY <1>4 DEF ClearAfterQueue, Q!vars, Q!contents, Q!waits, Q!callers
<1>5. ASSUME NextBak, ~ \E t \in Threads : InQueueBak(t) \/ StopQueue(t) \/ ClearAfterQueue(t)
      PROVE  [Next]_vars
  BY <1>5 DEF NextBak, Next, RunBak, Run, StopThreadBak, StopThread
<1>6. CASE UNCHANGED vars
  BY <1>6, QueueStep
<1> QED
  BY <1>1, <1>2, <1>3, <1>4, <1>5, <1>6, QueueStep, EitherPool

LEMMA QueueOKFollows == QP!BakInv => QueueOK
BY DEF QP!BakInv, QP!TypeInv, QP!TypeOK, QP!CallOK, QP!Calls, QP!ListsInv,
       QP!ContentsOnce, QP!ListsDisjoint, QP!Contents,
       QueueOK, Q!TypeOK, Q!Calls, Q!ListsDisjoint, Q!Contents

LEMMA QueueOKHolds == BothSpec => [](QP!BakInv)
<1>1. QP!MaxSizeAssumption /\ QP!NoneAssumption
  BY SizeAssumption, NoneAssumption
     DEF QP!MaxSizeAssumption, QP!NoneAssumption
<1>2. BothInit => QP!BakInv
  BY <1>1, QP!InvsInit, QueueSameInit DEF BothInit, Init
<1>3. QP!BakInv /\ [BothNext]_allVars => QP!BakInv'
  BY <1>1, QP!BakInvStep, PoolsUseQueue, BakSameStep DEF Either
<1> QED
  BY <1>2, <1>3, PTL DEF BothSpec

-----------------------------------------------------------------------------
(* Where the threads are. *)

(* A thread inside an operation of the queue is where the pool calls it. *)
CallsAt ==
  \A t \in Threads :
    /\ call[t] = "add" => at[t] = "add"
    /\ call[t] = "take" => at[t] = "take"
    /\ call[t] \in {"stop", "stopFull", "stopEmpty"} => at[t] = "qstop"

AtOK ==
  /\ at \in [Threads -> Places]
  /\ \A t \in Threads : at[t] \in LoopPlaces \cup {"run", "ret"} => t \in Workers

(* What a worker has left of its list; before it takes one, nothing.        *)
BatchOK ==
  /\ pos \in [Workers -> Nat \ {0}]
  /\ \A w \in Workers :
       /\ Serving(w) => pos[w] <= Len(list[w])
       /\ at[w] = "take" => pos[w] = 1
       /\ at[w] \in {"unborn", "loop"} => pos[w] > Len(list[w])

ControlOK ==
  /\ running_ \in BOOLEAN /\ flag_ \in {"unset", "active", "done"}
  /\ started \in 0..NumThreads /\ joined \in 0..NumThreads
  /\ process \in {"up", "aborted"}

PlacesInv == QueueOK /\ CallsAt /\ AtOK /\ BatchOK /\ ControlOK /\ StartedOnce

(* What the queue does to the callers and their lists. *)
LEMMA QueueEffect ==
  ASSUME PlacesInv, NEW t \in Threads, QueueSteps(t)
  PROVE  /\ UNCHANGED << at, pos, finished, control >>
         /\ \A u \in Threads \ {t} : call'[u] = call[u] /\ list'[u] = list[u]
         /\ call'[t] # call[t] =>
              \/ call[t] \in {"add", "take", "stopEmpty"} /\ call'[t] = "none"
              \/ call[t] = "stop" /\ call'[t] = "stopFull"
              \/ call[t] = "stopFull" /\ call'[t] = "stopEmpty"
         /\ list'[t] # list[t] => call[t] = "take"
<1> USE DEF PlacesInv, QueueOK, Q!TypeOK, Q!contents, Q!waits, Q!callers
<1>1. CASE Spurious(t)
  BY <1>1 DEF Spurious, Q!Spurious
<1>2. UNCHANGED << at, pos, finished, control >>
  BY DEF QueueSteps, InQueue, InQueueBak, Spurious
<1>3. CASE Q!AddBlock(t) \/ Q!AddPush(t) \/ Q!AddStopped(t)
  BY <1>2, <1>3 DEF Q!AddBlock, Q!AddPush, Q!AddStopped, Q!InAdd, Q!ReturnFromAdd
<1>4. CASE Q!TakeBlock(t) \/ Q!TakeStopped(t)
  BY <1>2, <1>4 DEF Q!TakeBlock, Q!TakeStopped, Q!InTake
<1>5. CASE Q!TakeAll(t)
  BY <1>2, <1>5 DEF Q!TakeAll, Q!Swap, Q!InTake
<1>6. CASE Q!StopSet(t) \/ Q!StopNotifyFull(t) \/ Q!StopNotifyEmpty(t)
  BY <1>2, <1>6 DEF Q!StopSet, Q!StopNotifyFull, Q!StopNotifyEmpty, Q!StopStep
<1> QED
  BY <1>1, <1>3, <1>4, <1>5, <1>6
     DEF QueueSteps, InQueue, InQueueBak, Q!Proceed, Q!ProceedBak, Q!TakeSwap,
         Q!TakeSwapBak

(* A step to another place that leaves the queue and the lists alone.       *)
LEMMA MoveKeepsPlaces ==
  ASSUME PlacesInv, NEW t \in Threads, NEW place \in Places, Goto(t, place),
         UNCHANGED << call, list, pos >>, call[t] = "none",
         place # "take",
         place \in LoopPlaces \cup {"run", "ret"} => t \in Workers,
         t \in Workers /\ place \notin LoopPlaces => pos[t] <= Len(list[t]),
         place \in {"unborn", "loop"} => pos[t] > Len(list[t])
  PROVE  CallsAt' /\ AtOK' /\ BatchOK'
<1> USE DEF PlacesInv, AtOK, Goto
<1>1. at'[t] = place /\ \A u \in Threads \ {t} : at'[u] = at[u]
  OBVIOUS
<1>2. CallsAt'
  BY <1>1 DEF CallsAt
<1>3. AtOK'
  BY <1>1
<1>4. BatchOK'
  BY <1>1 DEF BatchOK, Serving, Threads
<1> QED
  BY <1>2, <1>3, <1>4

LEMMA StartKeepsPlaces ==
  ASSUME PlacesInv, Start
  PROVE  CallsAt' /\ AtOK' /\ BatchOK' /\ ControlOK' /\ StartedOnce'
<1> USE DEF PlacesInv, Start, Goto
<1>1. started + 1 \in Workers /\ at[started + 1] = "unborn"
  BY NumThreadsAssumption DEF Workers, StartedOnce, ControlOK
<1>2. call[started + 1] = "none"
  BY <1>1 DEF CallsAt, QueueOK, Q!TypeOK, Q!Calls, Threads
<1>3. CallsAt' /\ AtOK' /\ BatchOK'
  BY <1>1, <1>2, MoveKeepsPlaces DEF BatchOK, Places, LoopPlaces, Threads
<1>4. ControlOK'
  BY <1>1, NumThreadsAssumption DEF ControlOK
<1>5. StartedOnce'
  BY <1>1 DEF StartedOnce, Workers, Threads, AtOK, ControlOK
<1> QED
  BY <1>3, <1>4, <1>5

LEMMA StartedOnceStep == PlacesInv /\ Either => StartedOnce'
<1> SUFFICES ASSUME PlacesInv, Either PROVE StartedOnce'
  OBVIOUS
<1> USE DEF PlacesInv, AtOK
<1>1. CASE Start
  BY <1>1, StartKeepsPlaces
<1>2. ASSUME NEW t \in Threads, NEW place, Goto(t, place), at[t] # "unborn",
             UNCHANGED started
      PROVE  StartedOnce'
  BY <1>2 DEF Goto, StartedOnce, Threads
<1>3. ASSUME UNCHANGED << at, started >> PROVE StartedOnce'
  BY <1>3 DEF StartedOnce
<1>4. CASE UNCHANGED vars \/ Terminate
  BY <1>4, <1>3 DEF vars, Terminate
<1>5. ASSUME NEW w \in Workers,
             \/ LoopTake(w) \/ LoopExit(w) \/ TakeReturns(w) \/ IterEnd(w)
             \/ IterExit(w) \/ IterRun(w) \/ TaskReturns(w)
      PROVE  StartedOnce'
  BY <1>5, <1>2
     DEF LoopTake, LoopExit, TakeReturns, IterEnd, IterExit, IterRun,
         TaskReturns, Returning, NextTask, Step, Threads
<1>6. ASSUME NEW t \in Threads,
             (\E x \in Tasks : AddTask(t, x)) \/ StopPool(t)
      PROVE  StartedOnce'
  BY <1>6, <1>2 DEF AddTask, StopPool, MayCall, Step
<1>7. ASSUME NEW t \in Threads,
             \/ AddReturns(t) \/ OnceFirst(t) \/ OnceDone(t)
             \/ IncludeSteps(t) \/ BakSteps(t) \/ StopReturns(t)
      PROVE  StartedOnce'
  BY <1>7, <1>2
     DEF AddReturns, OnceFirst, OnceDone, IncludeSteps, BakSteps, StopRunning, StopQueue, QueueStopped,
         ClearAfterQueue, StopReturns, Step
<1>8. ASSUME NEW t \in Threads, Join(t) PROVE StartedOnce'
  BY <1>8, <1>3 DEF Join
<1>9. ASSUME NEW t \in Threads, QueueSteps(t) PROVE StartedOnce'
  BY <1>9, <1>3, QueueEffect
<1> QED
  BY <1>1, <1>4, <1>5, <1>6, <1>7, <1>8, <1>9, StepCases

LEMMA ControlStep == PlacesInv /\ Either => ControlOK'
<1> SUFFICES ASSUME PlacesInv, Either PROVE ControlOK'
  OBVIOUS
<1> USE DEF PlacesInv
<1>1. CASE Start
  BY <1>1, StartKeepsPlaces
<1>2. CASE UNCHANGED vars \/ Terminate
  BY <1>2 DEF vars, Terminate, ControlOK
<1>3. ASSUME NEW w \in Workers,
             \/ LoopTake(w) \/ LoopExit(w) \/ TakeReturns(w) \/ IterEnd(w)
             \/ IterExit(w) \/ IterRun(w) \/ TaskReturns(w)
      PROVE  ControlOK'
  BY <1>3
     DEF LoopTake, LoopExit, TakeReturns, IterEnd, IterExit, IterRun,
         TaskReturns, NextTask, Step, ControlOK
<1>4. ASSUME NEW t \in Threads,
             (\E x \in Tasks : AddTask(t, x)) \/ StopPool(t) \/ AddReturns(t)
      PROVE  ControlOK'
  BY <1>4 DEF AddTask, StopPool, AddReturns, Step, ControlOK
<1>5. ASSUME NEW t \in Threads,
             \/ OnceFirst(t) \/ OnceDone(t)
             \/ IncludeSteps(t) \/ BakSteps(t) \/ StopReturns(t)
      PROVE  ControlOK'
  BY <1>5
     DEF OnceFirst, OnceDone, IncludeSteps, BakSteps, StopRunning, StopQueue,
         QueueStopped, QueueOnly,
         ClearAfterQueue, ClearRunning, StopReturns, Step, ControlOK
<1>6. ASSUME NEW t \in Threads, Join(t) PROVE ControlOK'
  BY <1>6, NumThreadsAssumption DEF Join, Joining, ControlOK
<1>7. ASSUME NEW t \in Threads, QueueSteps(t) PROVE ControlOK'
  BY <1>7, QueueEffect DEF ControlOK
<1> QED
  BY <1>1, <1>2, <1>3, <1>4, <1>5, <1>6, <1>7, StepCases

LEMMA PlacesStep == PlacesInv /\ QueueOK' /\ Either => PlacesInv'
<1> SUFFICES ASSUME PlacesInv, QueueOK', Either PROVE CallsAt' /\ AtOK' /\ BatchOK'
  BY StartedOnceStep, ControlStep DEF PlacesInv
<1>0. /\ call \in [Threads -> Q!Calls] /\ at \in [Threads -> Places]
      /\ list \in [Threads -> Seq(Tasks)] /\ list' \in [Threads -> Seq(Tasks)]
      /\ pos \in [Workers -> Nat \ {0}] /\ Workers \subseteq Threads
      /\ Workers \cap Clients = {}
  BY ClientsAssumption DEF PlacesInv, QueueOK, Q!TypeOK, AtOK, BatchOK, Threads
<1>1. \A t \in Threads :
        at[t] \notin {"add", "take", "qstop"} => call[t] = "none"
  BY <1>0 DEF PlacesInv, CallsAt, Q!Calls
<1>2. \A w \in Workers : Serving(w) => pos[w] <= Len(list[w])
  BY DEF PlacesInv, BatchOK
<1>3. \A t \in Threads :
        at[t] \in {"run", "ret", "unborn", "loop", "take", "iter", "exit"} => t \in Workers
  BY DEF PlacesInv, AtOK, LoopPlaces
<1> USE DEF Places, LoopPlaces, CallPlaces
<1>4. CASE Start
  BY <1>4, StartKeepsPlaces
<1>5. CASE UNCHANGED vars \/ Terminate
  BY <1>5 DEF vars, Terminate, PlacesInv, CallsAt, AtOK, BatchOK, Serving
<1>6. ASSUME NEW w \in Workers, LoopTake(w) PROVE CallsAt' /\ AtOK' /\ BatchOK'
  <2>1. /\ w \in Threads /\ at[w] = "loop" /\ at' = [at EXCEPT ![w] = "take"]
        /\ call[w] = "none" /\ call' = [call EXCEPT ![w] = "take"]
        /\ list' = [list EXCEPT ![w] = << >>] /\ pos' = [pos EXCEPT ![w] = 1]
    BY <1>0, <1>6 DEF LoopTake, Q!Take, Goto
  <2> QED
    BY <1>0, <2>1 DEF PlacesInv, CallsAt, AtOK, BatchOK, Serving
<1>7. ASSUME NEW w \in Workers,
             LoopExit(w) \/ TakeReturns(w) \/ IterEnd(w) \/ IterExit(w) \/ IterRun(w)
      PROVE  CallsAt' /\ AtOK' /\ BatchOK'
  BY <1>0, <1>1, <1>7, MoveKeepsPlaces
     DEF LoopExit, TakeReturns, IterEnd, IterExit, IterRun, More, Step
<1>8. ASSUME NEW w \in Workers, TaskReturns(w) PROVE CallsAt' /\ AtOK' /\ BatchOK'
  <2>1. /\ w \in Threads /\ at[w] \in {"run", "ret"}
        /\ at' = [at EXCEPT ![w] = "iter"] /\ pos' = [pos EXCEPT ![w] = @ + 1]
        /\ UNCHANGED << call, list >>
    BY <1>0, <1>8 DEF TaskReturns, Returning, NextTask, Goto
  <2> QED
    BY <1>0, <1>1, <2>1 DEF PlacesInv, CallsAt, AtOK, BatchOK, Serving
<1>9. ASSUME NEW t \in Threads, NEW x \in Tasks, AddTask(t, x)
      PROVE  CallsAt' /\ AtOK' /\ BatchOK'
  <2>1. /\ at[t] \in {"run", "idle"} /\ at' = [at EXCEPT ![t] = "add"]
        /\ t \in Workers => Serving(t)
        /\ call' = [call EXCEPT ![t] = "add"] /\ UNCHANGED << list, pos >>
    BY <1>9 DEF AddTask, MayCall, Q!Put, Goto, Serving
  <2> QED
    BY <1>0, <1>1, <2>1 DEF PlacesInv, CallsAt, AtOK, BatchOK, Serving
<1>10. ASSUME NEW t \in Threads, StopRunning(t) \/ StopQueue(t)
       PROVE  CallsAt' /\ AtOK' /\ BatchOK'
  <2>1. /\ at[t] = "stopping" /\ at' = [at EXCEPT ![t] = "qstop"]
        /\ call' = [call EXCEPT ![t] = "stop"] /\ UNCHANGED << list, pos >>
    BY <1>10 DEF StopRunning, StopQueue, Q!Stop, Q!StopStep, Goto
  <2> QED
    BY <1>0, <1>1, <2>1 DEF PlacesInv, CallsAt, AtOK, BatchOK, Serving
<1>11. ASSUME NEW t \in Threads, StopPool(t) \/ OnceFirst(t)
       PROVE  CallsAt' /\ AtOK' /\ BatchOK'
  <2>1. at[t] \in {"run", "idle", "once"} /\ (t \in Workers => Serving(t))
    BY <1>11 DEF StopPool, MayCall, OnceFirst, Step, Serving
  <2> QED
    BY <1>1, <1>2, <1>11, <2>1, MoveKeepsPlaces DEF StopPool, OnceFirst, Step
<1>12. ASSUME NEW t \in Threads,
              \/ AddReturns(t) \/ OnceDone(t) \/ QueueStopped(t)
              \/ ClearAfterQueue(t) \/ StopReturns(t)
       PROVE  CallsAt' /\ AtOK' /\ BatchOK'
  <2>1. /\ call[t] = "none"
        /\ \E place \in {Return(t), "join"} : Goto(t, place)
        /\ UNCHANGED << call, list, pos >>
        /\ t \in Workers => Serving(t)
    BY <1>1, <1>12
       DEF AddReturns, OnceDone, QueueStopped, ClearAfterQueue, StopReturns, Step,
           Serving
  <2> QED
    BY <1>2, <2>1, MoveKeepsPlaces DEF Return
<1>13. ASSUME NEW t \in Threads, Join(t) PROVE CallsAt' /\ AtOK' /\ BatchOK'
  BY <1>13 DEF Join, PlacesInv, CallsAt, AtOK, BatchOK, Serving
<1>14. ASSUME NEW t \in Threads, QueueSteps(t) PROVE CallsAt' /\ AtOK' /\ BatchOK'
  <2>1. CallsAt' /\ AtOK'
    BY <1>14, QueueEffect DEF PlacesInv, CallsAt, AtOK
  <2>2. \A w \in Workers : list'[w] # list[w] => at[w] = "take"
    BY <1>0, <1>14, QueueEffect DEF PlacesInv, CallsAt
  <2>3. BatchOK'
    BY <1>14, <2>2, QueueEffect DEF PlacesInv, BatchOK, Serving
  <2> QED
    BY <2>1, <2>3
<1> QED
  BY <1>4, <1>5, <1>6, <1>7, <1>8, <1>9, <1>10, <1>11, <1>12, <1>13, <1>14, StepCases
     DEF IncludeSteps, BakSteps

-----------------------------------------------------------------------------
(* Each task is in one place. *)

NoDup(s) == \A i, j \in 1..Len(s) : s[i] = s[j] => i = j

(* What has finished was accepted, and is neither queued nor left in a list *)
(* of a worker.                                                             *)
OncePerTask ==
  /\ NoDup(queue_) /\ \A w \in Workers : NoDup(list[w])
  /\ finished \subseteq Q!Contents(accepted)
  /\ finished \cap Q!Contents(queue_) = {}
  /\ \A w \in Workers : \A i \in pos[w]..Len(list[w]) : list[w][i] \notin finished

TasksInv == PlacesInv /\ OncePerTask

LEMMA ContentsOf ==
  \A s \in Seq(Tasks), x \in Tasks :
    /\ Q!Contents(Append(s, x)) = Q!Contents(s) \cup {x}
    /\ NoDup(s) /\ x \notin Q!Contents(s) => NoDup(Append(s, x))
<1> TAKE s \in Seq(Tasks), x \in Tasks
<1>1. /\ Append(s, x) \in Seq(Tasks) /\ Len(Append(s, x)) = Len(s) + 1
      /\ \A i \in 1..Len(s) : Append(s, x)[i] = s[i]
      /\ Append(s, x)[Len(s) + 1] = x
      /\ Len(s) \in Nat
  OBVIOUS
<1>2. Q!Contents(Append(s, x)) \subseteq Q!Contents(s) \cup {x}
  BY <1>1 DEF Q!Contents
<1>3. Q!Contents(s) \cup {x} \subseteq Q!Contents(Append(s, x))
  BY <1>1 DEF Q!Contents
<1>4. NoDup(s) /\ x \notin Q!Contents(s) => NoDup(Append(s, x))
  BY <1>1 DEF NoDup, Q!Contents
<1> QED
  BY <1>2, <1>3, <1>4

LEMMA ContentsNone == Q!Contents(<< >>) = {} /\ NoDup(<< >>)
BY DEF Q!Contents, NoDup

(* The push of an element nobody has, and the take of all there are.        *)
LEMMA PushFacts ==
  ASSUME PlacesInv, NEW t \in Threads, Q!AddPush(t)
  PROVE  /\ arg[t] \in Tasks /\ arg[t] \notin Q!Contents(accepted)
         /\ arg[t] \notin Q!Contents(queue_)
         /\ \A u \in Threads : arg[t] \notin Q!Contents(list[u])
         /\ queue_' = Append(queue_, arg[t])
         /\ Q!Contents(queue_') = Q!Contents(queue_) \cup {arg[t]}
         /\ Q!Contents(accepted') = Q!Contents(accepted) \cup {arg[t]}
         /\ ~need_stop_ /\ UNCHANGED << list, need_stop_ >>
<1>1. /\ arg[t] \in Tasks /\ queue_ \in Seq(Tasks) /\ accepted \in Seq(Tasks)
      /\ queue_' = Append(queue_, arg[t]) /\ accepted' = Append(accepted, arg[t])
      /\ ~need_stop_ /\ UNCHANGED << list, need_stop_ >>
  BY DEF Q!AddPush, Q!InAdd, Q!PushBack, PlacesInv, QueueOK, Q!TypeOK
<1>2. arg[t] \notin Q!Contents(accepted)
  BY DEF PlacesInv, QueueOK
<1> QED
  BY <1>1, <1>2, ContentsOf DEF PlacesInv, QueueOK

LEMMA TakeFacts ==
  ASSUME PlacesInv, NEW t \in Threads, Q!TakeAll(t)
  PROVE  /\ t \in Workers /\ at[t] = "take" /\ pos[t] = 1 /\ list[t] = << >>
         /\ queue_' = << >> /\ list' = [list EXCEPT ![t] = queue_]
         /\ list'[t] = queue_ /\ UNCHANGED << accepted, need_stop_ >>
<1>1. call[t] = "take" /\ list[t] = << >> /\ list \in [Threads -> Seq(Tasks)]
  BY DEF Q!TakeAll, Q!InTake, PlacesInv, QueueOK, Q!TypeOK
<1>2. at[t] = "take" /\ t \in Workers
  BY <1>1 DEF PlacesInv, CallsAt, AtOK, LoopPlaces
<1> QED
  BY <1>1, <1>2 DEF PlacesInv, BatchOK, Q!TakeAll, Q!Swap

(* The other steps of the queue move no task. *)
LEMMA QueueMoves ==
  ASSUME NEW t \in Threads, QueueSteps(t)
  PROVE  \/ Q!AddPush(t) \/ Q!TakeAll(t)
         \/ UNCHANGED << queue_, accepted, list >>
BY DEF QueueSteps, InQueue, InQueueBak, Spurious, Q!Spurious, Q!Proceed,
       Q!ProceedBak, Q!AddBlock, Q!AddStopped, Q!TakeBlock, Q!TakeSwap, Q!TakeSwapBak,
       Q!TakeStopped, Q!StopSet, Q!StopNotifyFull, Q!StopNotifyEmpty, Q!StopStep,
       Q!contents, Q!callers

LEMMA OtherSteps ==
  ASSUME Either
  PROVE  \/ UNCHANGED << queue_, accepted, list, pos, finished >>
         \/ \E w \in Workers : LoopTake(w) \/ TaskReturns(w)
         \/ \E t \in Threads : QueueSteps(t)
<1>1. ASSUME NEW t \in Threads, NEW x \in Tasks, AddTask(t, x)
      PROVE  UNCHANGED << queue_, accepted, list, pos, finished >>
  BY <1>1 DEF AddTask, Q!Put, Q!contents
<1>2. ASSUME NEW t \in Threads, StopRunning(t) \/ StopQueue(t)
      PROVE  UNCHANGED << queue_, accepted, list, pos, finished >>
  BY <1>2 DEF StopRunning, StopQueue, Q!Stop, Q!StopStep, Q!contents
<1> QED
  BY StepCases, <1>1, <1>2
     DEF IncludeSteps, BakSteps, vars, Start, Terminate, LoopExit, TakeReturns, IterEnd, IterExit, IterRun,
         AddReturns, StopPool, OnceFirst, OnceDone, QueueStopped, ClearAfterQueue,
         Join, StopReturns, Step

LEMMA OncePerTaskStep == TasksInv /\ Either => OncePerTask'
<1> SUFFICES ASSUME TasksInv, Either PROVE OncePerTask'
  OBVIOUS
<1> USE DEF TasksInv, OncePerTask
<1>0. /\ queue_ \in Seq(Tasks) /\ list \in [Threads -> Seq(Tasks)]
      /\ pos \in [Workers -> Nat \ {0}] /\ Workers \subseteq Threads
  BY DEF PlacesInv, QueueOK, Q!TypeOK, BatchOK, Threads
<1>1. ASSUME NEW w \in Workers, LoopTake(w) PROVE OncePerTask'
  <2>1. /\ list' = [list EXCEPT ![w] = << >>] /\ pos' = [pos EXCEPT ![w] = 1]
        /\ UNCHANGED << queue_, accepted, finished >>
    BY <1>1 DEF LoopTake, Q!Take, Q!contents
  <2> QED
    BY <1>0, <2>1, ContentsNone
<1>2. ASSUME NEW w \in Workers, TaskReturns(w) PROVE OncePerTask'
  <2>1. /\ finished' = finished \cup {list[w][pos[w]]}
        /\ pos' = [pos EXCEPT ![w] = @ + 1]
        /\ UNCHANGED << queue_, accepted, list >>
    BY <1>2 DEF TaskReturns, NextTask, Current
  <2>2. pos[w] \in 1..Len(list[w])
    BY <1>0, <1>2
       DEF TaskReturns, Returning, PlacesInv, BatchOK, Serving, LoopPlaces
  <2>3. /\ list[w][pos[w]] \in Q!Contents(list[w])
        /\ Q!Contents(list[w]) \subseteq Q!Contents(accepted)
        /\ Q!Contents(list[w]) \cap Q!Contents(queue_) = {}
        /\ \A v \in Workers \ {w} : Q!Contents(list[w]) \cap Q!Contents(list[v]) = {}
    <3>1. list[w][pos[w]] \in Q!Contents(list[w])
      BY <2>2 DEF Q!Contents
    <3> QED
      BY <1>0, <3>1 DEF PlacesInv, QueueOK, Q!ListsDisjoint
  <2>4. \A i \in (pos[w] + 1)..Len(list[w]) : list[w][i] # list[w][pos[w]]
    BY <1>0, <2>2 DEF NoDup
  <2>5. \A v \in Workers \ {w} : \A i \in pos[v]..Len(list[v]) :
          list[v][i] # list[w][pos[w]]
    <3> SUFFICES ASSUME NEW v \in Workers \ {w}, NEW i \in pos[v]..Len(list[v])
                 PROVE  list[v][i] \in Q!Contents(list[v])
      BY <2>3
    <3>1. pos[v] \in Nat \ {0} /\ list[v] \in Seq(Tasks)
      BY <1>0
    <3> QED
      BY <3>1 DEF Q!Contents
  <2> QED
    BY <1>0, <2>1, <2>2, <2>3, <2>4, <2>5
<1>3. ASSUME NEW t \in Threads, QueueSteps(t) PROVE OncePerTask'
  <2>0. UNCHANGED << pos, finished >>
    BY <1>3, QueueEffect
  <2>1. CASE Q!AddPush(t)
    <3>1. /\ arg[t] \in Tasks /\ arg[t] \notin Q!Contents(accepted)
          /\ arg[t] \notin Q!Contents(queue_) /\ queue_' = Append(queue_, arg[t])
          /\ Q!Contents(queue_)' = Q!Contents(queue_) \cup {arg[t]}
          /\ Q!Contents(accepted)' = Q!Contents(accepted) \cup {arg[t]}
          /\ UNCHANGED list
      BY <2>1, PushFacts
    <3>2. NoDup(Append(queue_, arg[t]))
      BY <1>0, <3>1, ContentsOf
    <3>3. arg[t] \notin finished
      BY <3>1
    <3> QED
      BY <2>0, <3>1, <3>2, <3>3
  <2>2. CASE Q!TakeAll(t)
    <3>1. \A i \in 1..Len(queue_) : queue_[i] \in Q!Contents(queue_)
      BY DEF Q!Contents
    <3> QED
      BY <1>0, <2>0, <2>2, <3>1, TakeFacts, ContentsNone
  <2>3. CASE UNCHANGED << queue_, accepted, list >>
    BY <2>0, <2>3
  <2> QED
    BY <1>3, <2>1, <2>2, <2>3, QueueMoves
<1>4. CASE UNCHANGED << queue_, accepted, list, pos, finished >>
  BY <1>4
<1> QED
  BY <1>1, <1>2, <1>3, <1>4, OtherSteps

-----------------------------------------------------------------------------
(* How far the stop has come. *)

InStop == {"stopping", "qstop", "join"}

(* One thread stops the pool, and it has cleared running_ when it joins.    *)
OneStopper ==
  /\ \A t \in Threads : at[t] \in InStop => flag_ = "active"
  /\ \A t, u \in Threads : at[t] \in InStop /\ at[u] \in InStop => t = u
  /\ version = "include" => \A t \in Threads : at[t] = "qstop" => ~running_
  /\ \A t \in Threads : at[t] = "join" => ~running_
  /\ flag_ = "done" => ~running_

LEMMA OneStopperStep == PlacesInv /\ OneStopper /\ Either => OneStopper'
<1> SUFFICES ASSUME PlacesInv, OneStopper, Either PROVE OneStopper'
  OBVIOUS
<1> USE DEF OneStopper, InStop
<1>0. /\ at \in [Threads -> Places] /\ flag_ \in {"unset", "active", "done"}
      /\ version' = version
  BY EitherPool DEF PlacesInv, AtOK, ControlOK
<1>1. ASSUME NEW t \in Threads, NEW place, Goto(t, place),
             place \in InStop => at[t] \in InStop \/ (flag_ = "unset" /\ flag_' = "active"),
             place = "join" => ~running_',
             place = "qstop" /\ version = "include" => ~running_',
             running_' = running_ \/ running_' = FALSE,
             \/ flag_' = flag_
             \/ flag_ = "unset" /\ flag_' = "active"
             \/ /\ at[t] \in InStop /\ place \notin InStop /\ ~running_'
                /\ flag_' = "done"
      PROVE  OneStopper'
  <2>1. at'[t] = place /\ \A u \in Threads \ {t} : at'[u] = at[u]
    BY <1>0, <1>1 DEF Goto
  <2> QED
    BY <1>0, <1>1, <2>1
<1>2. ASSUME UNCHANGED << at, running_, flag_ >> PROVE OneStopper'
  BY <1>0, <1>2
<1>3. CASE UNCHANGED vars \/ Terminate
  BY <1>2, <1>3 DEF vars, Terminate
<1>4. CASE Start
  <2>1. started + 1 \in Threads
    BY <1>4, NumThreadsAssumption DEF Start, Threads, Workers, PlacesInv, ControlOK
  <2> QED
    BY <1>1, <1>4, <2>1 DEF Start
<1>5. ASSUME NEW w \in Workers,
             \/ LoopTake(w) \/ LoopExit(w) \/ TakeReturns(w) \/ IterEnd(w)
             \/ IterExit(w) \/ IterRun(w) \/ TaskReturns(w)
      PROVE  OneStopper'
  BY <1>5, <1>1
     DEF LoopTake, LoopExit, TakeReturns, IterEnd, IterExit, IterRun,
         TaskReturns, NextTask, Step, Threads
<1>6. ASSUME NEW t \in Threads,
             \/ \E x \in Tasks : AddTask(t, x)
             \/ StopPool(t) \/ AddReturns(t) \/ OnceDone(t)
      PROVE  OneStopper'
  BY <1>6, <1>1 DEF AddTask, StopPool, AddReturns, OnceDone, Step, Return
<1>7. ASSUME NEW t \in Threads, OnceFirst(t) \/ StopReturns(t) PROVE OneStopper'
  <2>1. CASE OnceFirst(t)
    BY <2>1, <1>1 DEF OnceFirst
  <2>2. CASE StopReturns(t)
    <3>1. ~running_ /\ Return(t) \notin InStop \cup {"join", "qstop"}
      BY <2>2 DEF StopReturns, Return
    <3> QED
      BY <2>2, <3>1, <1>1 DEF StopReturns
  <2> QED
    BY <1>7, <2>1, <2>2
<1>8. ASSUME NEW t \in Threads, IncludeSteps(t) \/ BakSteps(t) PROVE OneStopper'
  <2>1. CASE version = "include" /\ StopRunning(t)
    BY <2>1, <1>1 DEF StopRunning, ClearRunning
  <2>2. CASE version = "include" /\ QueueStopped(t)
    BY <2>2, <1>1 DEF QueueStopped, Step
  <2>3. CASE version = "include.bak" /\ StopQueue(t)
    BY <2>3, <1>1 DEF StopQueue, QueueOnly
  <2>4. CASE version = "include.bak" /\ ClearAfterQueue(t)
    BY <2>4, <1>1 DEF ClearAfterQueue, ClearRunning
  <2> QED
    BY <1>8, <2>1, <2>2, <2>3, <2>4 DEF IncludeSteps, BakSteps
<1>9. ASSUME NEW t \in Threads, Join(t) \/ QueueSteps(t) PROVE OneStopper'
  BY <1>9, <1>2, QueueEffect DEF Join
<1> QED
  BY <1>3, <1>4, <1>5, <1>6, <1>7, <1>8, <1>9, StepCases

(* StopInv, which ThreadPoolProofs keeps through the steps of the include   *)
(* pool, through those of the other.                                        *)
LEMMA BakKeepsStopInv ==
  ASSUME StopInv, NEW t \in Threads,
         StopQueue(t) \/ ClearAfterQueue(t) \/ InQueueBak(t)
  PROVE  StopInv'
<1>1. CASE StopQueue(t)
  <2>1. /\ at' \in [Threads -> Places] /\ call' \in [Threads -> Q!Calls]
        /\ at[t] = "stopping" /\ at'[t] = "qstop" /\ call'[t] = "stop"
        /\ \A u \in Threads : u # t => at'[u] = at[u] /\ call'[u] = call[u]
        /\ UNCHANGED << need_stop_, started, joined, flag_ >>
    BY <1>1 DEF StopQueue, Q!Stop, Q!StopStep, Q!waits, Goto, StopInv, Q!Calls,
                Places, CallPlaces
  <2> QED
    BY <2>1 DEF StopInv, StartedOnce, InQueueStop, StopProgress, Threads
<1>2. CASE ClearAfterQueue(t)
  <2>1. need_stop_
    BY <1>2 DEF ClearAfterQueue, StopInv, InQueueStop
  <2> QED
    BY <1>2, <2>1, MoveKeepsStopInv DEF ClearAfterQueue, Places, CallPlaces
<1>3. CASE InQueueBak(t) /\ ~Q!TakeSwapBak(t)
  <2>1. InQueue(t)
    BY <1>3 DEF InQueueBak, Q!ProceedBak, InQueue, Q!Proceed
  <2> QED
    BY <2>1, InQueueKeepsStopInv
<1>4. CASE InQueueBak(t) /\ Q!TakeSwapBak(t)
  <2>1. /\ UNCHANGED << at, started, joined, flag_, need_stop_ >>
        /\ call[t] = "take" /\ call' = [call EXCEPT ![t] = "none"]
    BY <1>4 DEF InQueueBak, Q!TakeSwapBak, Q!TakeAll, Q!InTake
  <2> QED
    BY <2>1 DEF StopInv, StartedOnce, InQueueStop, StopProgress, Q!Calls
<1> QED
  BY <1>1, <1>2, <1>3, <1>4

(* Every step keeps it.                                                     *)
LEMMA BothStopInvStep == StopInv /\ Either => StopInv'
<1> SUFFICES ASSUME StopInv, Either PROVE StopInv'
  OBVIOUS
<1>1. CASE [Next]_vars
  BY <1>1, StopInvStep
<1>2. CASE NextBak /\ \E t \in Threads :
             InQueueBak(t) \/ StopQueue(t) \/ ClearAfterQueue(t)
  BY <1>2, BakKeepsStopInv
<1>3. CASE NextBak /\ ~ \E t \in Threads :
             InQueueBak(t) \/ StopQueue(t) \/ ClearAfterQueue(t)
  <2>1. Next
    BY <1>3 DEF NextBak, Next, RunBak, Run, StopThreadBak, StopThread
  <2> QED
    BY <2>1, StopInvStep
<1> QED
  BY <1>1, <1>2, <1>3, EitherPool

-----------------------------------------------------------------------------
(* The invariant of the two pools, and what it says about types. *)

PoolInv == QP!BakInv /\ PlacesInv /\ OncePerTask /\ StopInv /\ OneStopper

(* The invariant holds at first.                                            *)
LEMMA PoolInvInit == BothInit /\ QP!BakInv => PoolInv
<1> SUFFICES ASSUME BothInit, QP!BakInv PROVE PoolInv
  OBVIOUS
<1> USE DEF BothInit, Init, Q!Init
<1>1. QueueOK
  BY QueueOKFollows
<1>2. AtOK
  BY ClientsAssumption DEF AtOK, Places, LoopPlaces, Threads
<1>3. CallsAt /\ ControlOK /\ StartedOnce
  BY NumThreadsAssumption DEF CallsAt, ControlOK, StartedOnce, Threads
<1>4. BatchOK
  <2>1. \A w \in Workers : at[w] = "unborn" /\ list[w] = << >>
    BY DEF Threads
  <2> QED
    BY <2>1 DEF BatchOK, Serving, LoopPlaces
<1>5. OncePerTask
  <2>1. \A w \in Workers : list[w] = << >>
    BY DEF Threads
  <2> QED
    BY <2>1, ContentsNone DEF OncePerTask
<1>6. StopInv
  BY StopInvInit
<1>7. OneStopper
  BY DEF OneStopper, InStop
<1> QED
  BY <1>1, <1>2, <1>3, <1>4, <1>5, <1>6, <1>7 DEF PoolInv, PlacesInv

(* Every step keeps it.                                                     *)
LEMMA PoolInvStep == PoolInv /\ QP!BakInv' /\ Either => PoolInv'
BY QueueOKFollows, PlacesStep, OncePerTaskStep, BothStopInvStep, OneStopperStep
   DEF PoolInv, TasksInv, QueueOK, QP!BakInv, QP!TypeInv, QP!TypeOK, QP!CallOK,
       QP!Calls, QP!ListsInv, QP!ContentsOnce, QP!ListsDisjoint, QP!Contents,
       Q!TypeOK, Q!Calls, Q!ListsDisjoint, Q!Contents

LEMMA PoolInvHolds == BothSpec => []PoolInv
<1>1. PoolInv /\ QP!BakInv' /\ [BothNext]_allVars => PoolInv'
  BY PoolInvStep DEF Either
<1> QED
  BY QueueOKHolds, PoolInvInit, <1>1, PTL DEF BothSpec

(* The type invariant of the pools: a worker that runs a task is at a       *)
(* position of its batch.                                                   *)
THEOREM PoolTypeCorrect == BothSpec => []TypeOK
<1>1. PoolInv => TypeOK
  <2> SUFFICES ASSUME PoolInv PROVE TypeOK
    OBVIOUS
  <2> USE DEF PoolInv, PlacesInv
  <2>1. finished \subseteq Tasks
    BY DEF OncePerTask, QueueOK, Q!TypeOK, Q!Contents
  <2>2. Q!TypeOK /\ at \in [Threads -> LoopPlaces \cup CallPlaces \cup {"run", "ret", "idle"}]
    BY DEF QueueOK, AtOK, Places
  <2> QED
    BY <2>1, <2>2 DEF TypeOK, ControlOK, AtOK, BatchOK
<1> QED
  BY PoolInvHolds, <1>1, PTL

-----------------------------------------------------------------------------
(* Stop() means stopped, and in the pool of include.bak a worker that has   *)
(* left its loop leaves nobody behind in the queue.                         *)

(* However many threads call Stop() of either pool, and whatever the tasks  *)
(* do, it returns to a client only when the queue is stopped and every      *)
(* worker is gone.                                                          *)
THEOREM BothStopMeansStopped == BothSpec => StopMeansStopped
<1>1. ASSUME PoolInv, Either, NEW t \in Clients,
             at[t] \in {"once", "join"}, at'[t] = "idle"
      PROVE  need_stop_ /\ \A w \in Workers : at[w] = "exit"
  <2>1. t \in Threads /\ t \notin Workers
    BY ClientsAssumption DEF Threads
  <2>2. at \in [Threads -> Places] /\ Workers \subseteq Threads
    BY <1>1 DEF PoolInv, StopInv, Threads
  <2>3. OnceDone(t) \/ StopReturns(t)
    <3>1. ASSUME NEW u \in Threads, NEW place, Goto(u, place), place # "idle"
          PROVE  FALSE
      BY <1>1, <2>2, <3>1, <2>1 DEF Goto
    <3>2. ASSUME UNCHANGED at PROVE FALSE
      BY <1>1, <3>2
    <3>3. ~ (UNCHANGED vars \/ Terminate)
      BY <3>2 DEF vars, Terminate
    <3>4. ~ Start
      <4>1. Start => started + 1 \in Threads
        BY <1>1, NumThreadsAssumption DEF Start, Threads, Workers, PoolInv, StopInv
      <4> QED
        BY <3>1, <4>1 DEF Start
    <3>5. ASSUME NEW w \in Workers PROVE
            ~ \/ LoopTake(w) \/ LoopExit(w) \/ TakeReturns(w) \/ IterEnd(w)
              \/ IterExit(w) \/ IterRun(w) \/ TaskReturns(w)
      BY <2>2, <3>1
         DEF LoopTake, LoopExit, TakeReturns, IterEnd, IterExit, IterRun,
             TaskReturns, NextTask, Step
    <3>6. ASSUME NEW u \in Threads PROVE
            ~ \/ \E x \in Tasks : AddTask(u, x)
              \/ StopPool(u) \/ OnceFirst(u) \/ IncludeSteps(u) \/ BakSteps(u)
              \/ Join(u) \/ QueueSteps(u)
      <4>1. ~QueueSteps(u) /\ ~Join(u)
        BY <1>1, <3>2, QueueEffect DEF PoolInv, Join
      <4>2. ~IncludeSteps(u) /\ ~BakSteps(u)
        BY <3>1 DEF IncludeSteps, StopRunning, QueueStopped, BakSteps, StopQueue,
                    ClearAfterQueue, Step
      <4> QED
        BY <3>1, <4>1, <4>2 DEF AddTask, StopPool, OnceFirst, Step
    <3>7. ASSUME NEW u \in Threads, u # t, AddReturns(u) \/ OnceDone(u) \/ StopReturns(u)
          PROVE  FALSE
      BY <1>1, <2>1, <2>2, <3>7 DEF AddReturns, OnceDone, StopReturns, Step, Goto
    <3>8. ~ AddReturns(t)
      BY <1>1 DEF AddReturns, Step
    <3> QED
      BY <1>1, <3>3, <3>4, <3>5, <3>6, <3>7, <3>8, StepCases
  <2>4. need_stop_ /\ joined = NumThreads
    BY <1>1, <2>1, <2>3 DEF OnceDone, StopReturns, Step, PoolInv, StopInv, StopProgress
  <2> QED
    BY <1>1, <2>4 DEF PoolInv, StopInv, StopProgress, Workers
<1>2. PoolInv /\ [BothNext]_allVars =>
        [ \A t \in Clients :
            at[t] \in {"once", "join"} /\ at'[t] = "idle" =>
              need_stop_ /\ \A w \in Workers : at[w] = "exit" ]_vars
  BY <1>1 DEF Either
<1> QED
  BY PoolInvHolds, <1>2, PTL DEF BothSpec, StopMeansStopped

NobodyWaits == not_full_ = {} /\ not_empty_ = {}

(* In the pool of include.bak: what the sections of queue_.Stop() have      *)
(* released so far, which is everybody before running_ is cleared.          *)
BakStop ==
  version = "include.bak" =>
    /\ \A t \in Threads : at[t] = "qstop" =>
         /\ call[t] # "stop" => need_stop_
         /\ call[t] = "stopEmpty" => not_full_ = {}
         /\ call[t] = "none" => NobodyWaits
    /\ ~running_ => need_stop_ /\ NobodyWaits
    /\ \A w \in Workers : at[w] = "exit" => ~running_

(* Nobody falls asleep in a stopped queue. *)
LEMMA StoppedWaits ==
  ASSUME PlacesInv, NEW t \in Threads, QueueSteps(t)
  PROVE  /\ need_stop_ => /\ need_stop_' /\ not_full_' \subseteq not_full_
                          /\ not_empty_' \subseteq not_empty_
         /\ need_stop_' = need_stop_ \/ (call[t] = "stop" /\ need_stop_' = TRUE)
         /\ call[t] = "stop" /\ call'[t] # "stop" => need_stop_'
         /\ call[t] = "stopFull" /\ call'[t] # "stopFull" => not_full_' = {}
         /\ call[t] = "stopEmpty" /\ call'[t] # "stopEmpty" => not_empty_' = {}
BY DEF PlacesInv, QueueOK, Q!TypeOK,
       QueueSteps, InQueue, InQueueBak, Spurious, Q!Spurious, Q!Proceed, Q!ProceedBak,
       Q!AddBlock, Q!AddPush, Q!AddStopped, Q!InAdd, Q!ReturnFromAdd, Q!TakeBlock,
       Q!NothingToTake, Q!TakeSwap, Q!TakeSwapBak, Q!TakeAll, Q!InTake, Q!TakeStopped,
       Q!StopSet, Q!StopNotifyFull, Q!StopNotifyEmpty, Q!StopStep, Q!waits, Q!callers

LEMMA BakStopStep == PoolInv /\ BakStop /\ Either => BakStop'
<1> SUFFICES ASSUME PoolInv, BakStop, Either, version = "include.bak" PROVE BakStop'
  BY EitherPool DEF BakStop
<1>0. /\ at \in [Threads -> Places] /\ call \in [Threads -> Q!Calls]
      /\ running_ \in BOOLEAN /\ Workers \subseteq Threads
      /\ version' = version /\ PlacesInv
  BY EitherPool
     DEF PoolInv, PlacesInv, AtOK, ControlOK, QueueOK, Q!TypeOK, Threads
<1> USE DEF BakStop, NobodyWaits
<1>1. ASSUME NEW t \in Threads, NEW place, Goto(t, place), place # "qstop",
             place = "exit" => ~running_,
             UNCHANGED << running_, need_stop_, not_full_, not_empty_ >>,
             \A u \in Threads \ {t} : call'[u] = call[u]
      PROVE  BakStop'
  <2>1. at'[t] = place /\ \A u \in Threads \ {t} : at'[u] = at[u]
    BY <1>0, <1>1 DEF Goto
  <2> QED
    BY <1>0, <1>1, <2>1
<1>2. CASE UNCHANGED vars \/ Terminate
  BY <1>0, <1>2 DEF vars, Terminate
<1>3. CASE Start
  <2>1. started + 1 \in Threads
    BY <1>0, <1>3, NumThreadsAssumption DEF Start, Threads, Workers, PlacesInv, ControlOK
  <2> QED
    BY <1>0, <1>1, <1>3, <2>1 DEF Start
<1>4. ASSUME NEW w \in Workers, LoopTake(w) PROVE BakStop'
  BY <1>0, <1>1, <1>4 DEF LoopTake, Q!Take, Q!waits
<1>5. ASSUME NEW w \in Workers,
             \/ LoopExit(w) \/ TakeReturns(w) \/ IterEnd(w)
             \/ IterExit(w) \/ IterRun(w) \/ TaskReturns(w)
      PROVE  BakStop'
  <2>1. w \in Threads /\ UNCHANGED << call, need_stop_, not_full_, not_empty_, running_ >>
    BY <1>0, <1>5 DEF LoopExit, TakeReturns, IterEnd, IterExit, IterRun, TaskReturns,
                      NextTask, Step
  <2>2. \E place : Goto(w, place) /\ place # "qstop" /\ (place = "exit" => ~running_)
    BY <1>5 DEF LoopExit, TakeReturns, IterEnd, IterExit, IterRun, TaskReturns,
                NextTask, Step
  <2> QED
    BY <1>1, <2>1, <2>2
<1>6. ASSUME NEW t \in Threads, NEW x \in Tasks, AddTask(t, x) PROVE BakStop'
  BY <1>0, <1>1, <1>6 DEF AddTask, Q!Put, Q!waits
<1>7. ASSUME NEW t \in Threads,
             \/ StopPool(t) \/ AddReturns(t) \/ OnceFirst(t) \/ OnceDone(t)
             \/ StopReturns(t)
      PROVE  BakStop'
  <2>1. UNCHANGED << call, need_stop_, not_full_, not_empty_, running_ >>
    BY <1>7 DEF StopPool, AddReturns, OnceFirst, OnceDone, StopReturns, Step
  <2>2. \E place : Goto(t, place) /\ place \notin {"qstop", "exit"}
    BY <1>7 DEF StopPool, AddReturns, OnceFirst, OnceDone, StopReturns, Step, Return
  <2> QED
    BY <1>1, <2>1, <2>2
<1>8. ASSUME NEW t \in Threads, StopQueue(t) PROVE BakStop'
  <2>1. /\ at' = [at EXCEPT ![t] = "qstop"] /\ call' = [call EXCEPT ![t] = "stop"]
        /\ UNCHANGED << need_stop_, not_full_, not_empty_, running_ >>
    BY <1>8 DEF StopQueue, Goto, Q!Stop, Q!StopStep, Q!waits, QueueOnly
  <2> QED
    BY <1>0, <2>1
<1>9. ASSUME NEW t \in Threads, ClearAfterQueue(t) PROVE BakStop'
  <2>1. /\ at[t] = "qstop" /\ call[t] = "none" /\ at' = [at EXCEPT ![t] = "join"]
        /\ UNCHANGED << call, need_stop_, not_full_, not_empty_ >>
        /\ running_' = FALSE
    BY <1>9 DEF ClearAfterQueue, Goto, ClearRunning
  <2>2. need_stop_ /\ NobodyWaits
    BY <1>0, <2>1
  <2> QED
    BY <1>0, <2>1, <2>2
<1>10. ASSUME NEW t \in Threads, Join(t) PROVE BakStop'
  BY <1>0, <1>10 DEF Join
<1>11. ASSUME NEW t \in Threads, QueueSteps(t) PROVE BakStop'
  <2>1. /\ UNCHANGED << at, running_ >>
        /\ \A u \in Threads \ {t} : call'[u] = call[u]
        /\ call'[t] # call[t] =>
              \/ call[t] \in {"add", "take", "stopEmpty"} /\ call'[t] = "none"
              \/ call[t] = "stop" /\ call'[t] = "stopFull"
              \/ call[t] = "stopFull" /\ call'[t] = "stopEmpty"
    BY <1>0, <1>11, QueueEffect
  <2>2. call[t] \in {"add", "take"} => at[t] # "qstop"
    BY <1>0 DEF PlacesInv, CallsAt
  <2> QED
    BY <1>0, <1>11, <2>1, <2>2, StoppedWaits
<1> QED
  BY <1>2, <1>3, <1>4, <1>5, <1>6, <1>7, <1>8, <1>9, <1>10, <1>11, StepCases
     DEF IncludeSteps, BakSteps

(* In the pool of include.bak a worker leaves its loop only when the queue  *)
(* is stopped and nobody waits in it: it clears running_ last.              *)
THEOREM LeavesStoppedHolds == BothSpec => []LeavesStopped
<1>1. BothInit => BakStop
  BY DEF BothInit, Init, Q!Init, BakStop, Threads
<1>2. PoolInv /\ BakStop /\ [BothNext]_allVars => BakStop'
  BY BakStopStep DEF Either
<1>3. BakStop => LeavesStopped
  BY DEF BakStop, NobodyWaits, LeavesStopped, LeavesStoppedQueue
<1> QED
  BY PoolInvHolds, <1>1, <1>2, <1>3, PTL DEF BothSpec

-----------------------------------------------------------------------------
(* No lost wakeup in either pool.  The queue of include.bak may leave a     *)
(* producer asleep though there is room, but not all workers: only a worker *)
(* makes room.                                                              *)

AllBlockedWhenFull ==
  ~need_stop_ /\ Workers # {} /\ Workers \subseteq not_full_ => ~Q!NotFull

LEMMA AllBlockedStep ==
  PoolInv /\ AllBlockedWhenFull /\ Either => AllBlockedWhenFull'
<1> SUFFICES ASSUME PoolInv, AllBlockedWhenFull, Either PROVE AllBlockedWhenFull'
  OBVIOUS
<1> USE DEF AllBlockedWhenFull
<1>0. PlacesInv /\ Workers \subseteq Threads
      /\ not_full_ \subseteq { t \in Threads : call[t] = "add" }
  BY DEF PoolInv, PlacesInv, QueueOK, Q!TypeOK, Threads
<1>1. ASSUME UNCHANGED << queue_, need_stop_, not_full_ >> PROVE AllBlockedWhenFull'
  BY <1>1 DEF Q!NotFull
<1>2. ASSUME NEW t \in Threads, QueueSteps(t) PROVE AllBlockedWhenFull'
  <2>1. CASE Q!AddBlock(t)
    BY <2>1 DEF Q!AddBlock, Q!NotFull, Q!contents
  <2>2. CASE Q!AddPush(t)
    BY <2>2 DEF Q!AddPush
  <2>3. CASE Q!TakeAll(t)
    <3>1. t \in Workers /\ call[t] = "take" /\ not_full_' \subseteq not_full_
      <4>1. not_full_' \subseteq not_full_
        BY <1>2, <2>3
           DEF QueueSteps, InQueue, InQueueBak, Spurious, Q!Spurious, Q!Proceed,
               Q!ProceedBak, Q!AddBlock, Q!InAdd, Q!AddPush, Q!AddStopped, Q!TakeBlock,
               Q!TakeSwap, Q!TakeSwapBak, Q!NotifyProducers, Q!NotifyOneProducer,
               Q!NotifyOne, Q!TakeStopped, Q!StopSet, Q!StopNotifyFull,
               Q!StopNotifyEmpty, Q!StopStep, Q!TakeAll, Q!InTake, Q!waits
      <4> QED
        BY <1>0, <2>3, <4>1, TakeFacts DEF Q!TakeAll, Q!InTake
    <3> QED
      BY <1>0, <3>1
  <2>4. CASE Q!Spurious(t) \/ Q!StopNotifyFull(t)
    BY <1>0, <2>4 DEF Q!Spurious, Q!StopNotifyFull, Q!StopStep, Q!contents, Q!NotFull
  <2>5. CASE Q!StopSet(t)
    BY <2>5 DEF Q!StopSet
  <2>6. CASE Q!AddStopped(t) \/ Q!TakeBlock(t) \/ Q!TakeStopped(t) \/ Q!StopNotifyEmpty(t)
    BY <1>1, <2>6
       DEF Q!AddStopped, Q!TakeBlock, Q!TakeStopped, Q!StopNotifyEmpty, Q!StopStep,
           Q!contents, Q!waits
  <2> QED
    BY <1>2, <2>1, <2>2, <2>3, <2>4, <2>5, <2>6
       DEF QueueSteps, InQueue, InQueueBak, Spurious, Q!Proceed, Q!ProceedBak,
           Q!TakeSwap, Q!TakeSwapBak
<1>3. ASSUME ~ \E t \in Threads : QueueSteps(t)
      PROVE  UNCHANGED << queue_, need_stop_, not_full_ >>
  BY <1>3, StepCases
     DEF vars, Terminate, Start, LoopTake, LoopExit, TakeReturns, IterEnd, IterExit,
         IterRun, TaskReturns, NextTask, AddTask, AddReturns, StopPool, OnceFirst,
         OnceDone, IncludeSteps, BakSteps, StopRunning, StopQueue, QueueStopped,
         ClearAfterQueue, Join, StopReturns, Step, Q!Put, Q!Take, Q!Stop, Q!StopStep,
         Q!contents, Q!waits
<1> QED
  BY <1>1, <1>2, <1>3

(* In both pools the workers all sleep beside queued tasks only if every    *)
(* one of them waits in AddTask for room in a full queue.                   *)
THEOREM BothStalledHolds == BothSpec => []StalledOnlyByFullQueue
<1>1. BothInit => AllBlockedWhenFull
  BY DEF BothInit, Init, Q!Init, AllBlockedWhenFull
<1>2. PoolInv /\ AllBlockedWhenFull /\ [BothNext]_allVars => AllBlockedWhenFull'
  BY AllBlockedStep DEF Either
<1>3. PoolInv /\ AllBlockedWhenFull => StalledOnlyByFullQueue
  <2> SUFFICES ASSUME PoolInv, AllBlockedWhenFull, ~need_stop_, Workers # {},
                      Workers \subseteq not_full_ \cup not_empty_, queue_ # << >>
               PROVE  Workers \subseteq not_full_ /\ ~Q!NotFull
    BY DEF StalledOnlyByFullQueue
  <2>1. not_empty_ = {}
    <3> SUFFICES ASSUME not_empty_ # {} PROVE FALSE
      OBVIOUS
    <3>1. PICK t \in Threads : call[t] = "take" /\ t \notin not_empty_
      BY DEF PoolInv, QP!BakInv, QP!BacklogHasTaker, QP!NotEmpty, QP!InTake
    <3>2. t \in Workers
      BY <3>1 DEF PoolInv, PlacesInv, CallsAt, AtOK, LoopPlaces
    <3>3. call[t] = "add"
      BY <3>1, <3>2 DEF PoolInv, PlacesInv, QueueOK, Q!TypeOK
    <3> QED
      BY <3>1, <3>3
  <2> QED
    BY <2>1 DEF AllBlockedWhenFull
<1> QED
  BY PoolInvHolds, <1>1, <1>2, <1>3, PTL DEF BothSpec

-----------------------------------------------------------------------------
(* Both pools implement TaskPool. *)

ServedBy(w) == IF Serving(w) THEN Current(w) ELSE None

(* What the steps of TaskPool see of a worker: what it has left, and runs.  *)
SameView(w) == Remaining(w)' = Remaining(w) /\ ServedBy(w)' = ServedBy(w)

LEMMA SameWorkers ==
  ASSUME \A w \in Workers : SameView(w)
  PROVE  /\ UNCHANGED [w \in Workers |-> IF Serving(w) THEN Current(w) ELSE None]
         /\ UNCHANGED (UNION { Remaining(w) : w \in Workers })
BY DEF SameView, ServedBy

LEMMA Unmoved ==
  ASSUME NEW w \in Workers, list'[w] = list[w], pos'[w] = pos[w],
         Serving(w)' = Serving(w)
  PROVE  SameView(w)
BY DEF SameView, ServedBy, Remaining, Serving, Current

LEMMA PhaseSame == UNCHANGED << running_, need_stop_, flag_ >> => UNCHANGED Phase
BY DEF Phase

(* A step that moves no task is a stutter, or a step of the stop.           *)
LEMMA Stutter ==
  ASSUME \A w \in Workers : SameView(w),
         UNCHANGED << Q!Contents(queue_), finished, Phase >>
  PROVE  UNCHANGED Pool!poolVars
BY SameWorkers DEF Pool!poolVars, Pending

LEMMA Remains ==
  ASSUME PlacesInv, NEW w \in Workers
  PROVE  /\ Remaining(w) \subseteq Q!Contents(list[w])
         /\ Serving(w) => Current(w) \in Q!Contents(list[w])
<1>1. pos[w] \in Nat \ {0} /\ list[w] \in Seq(Tasks) /\ Len(list[w]) \in Nat
  BY DEF PlacesInv, BatchOK, QueueOK, Q!TypeOK, Threads
<1>2. Serving(w) => pos[w] \in 1..Len(list[w])
  BY <1>1 DEF PlacesInv, BatchOK
<1> QED
  BY <1>1, <1>2 DEF Remaining, Q!Contents, Current

(* AddTask, when the queue takes the task: TaskPool accepts it.             *)
LEMMA PushAccepts ==
  ASSUME PoolInv, NEW t \in Threads, QueueSteps(t), Q!AddPush(t)
  PROVE  Pool!Next
<1> DEFINE x == arg[t]
<1>0. PlacesInv /\ UNCHANGED << at, pos, finished, control >>
  BY QueueEffect DEF PoolInv
<1>1. /\ x \in Tasks /\ x \notin Q!Contents(accepted)
      /\ Q!Contents(queue_)' = Q!Contents(queue_) \cup {x}
      /\ ~need_stop_ /\ UNCHANGED << list, need_stop_ >>
  BY <1>0, PushFacts
<1>2. \A w \in Workers : SameView(w)
  BY <1>0, <1>1, Unmoved DEF Serving
<1>3. \A w \in Workers : Q!Contents(list[w]) \subseteq Q!Contents(accepted)
  BY <1>0 DEF PlacesInv, QueueOK, Threads
<1>4. x \notin Pending
  BY <1>0, <1>1, <1>3, Remains DEF Pending, PlacesInv, QueueOK
<1>5. x \notin finished
  BY <1>1 DEF PoolInv, OncePerTask
<1>6. \A w \in Workers : ServedBy(w) # x
  BY <1>0, <1>1, <1>3, Remains, NoneAssumption DEF ServedBy
<1>7. Pending' = Pending \cup {x}
  BY <1>1, <1>2, SameWorkers DEF Pending
<1>8. Phase \in {"open", "halting"} /\ UNCHANGED Phase
  BY <1>0, <1>1 DEF Phase
<1>9. Pool!Accept(x)
  BY <1>0, <1>2, <1>4, <1>5, <1>6, <1>7, <1>8, SameWorkers
     DEF Pool!Accept, Pool!Served, ServedBy
<1> QED
  BY <1>1, <1>9 DEF Pool!Next

(* Take: the queue's tasks become those of a worker.                        *)
LEMMA TakeStutters ==
  ASSUME PoolInv, NEW t \in Threads, QueueSteps(t), Q!TakeAll(t)
  PROVE  UNCHANGED Pool!poolVars
<1>0. PlacesInv /\ UNCHANGED << at, pos, finished, control >>
  BY QueueEffect DEF PoolInv
<1>1. /\ t \in Workers /\ at[t] = "take" /\ pos[t] = 1 /\ list[t] = << >>
      /\ queue_' = << >> /\ list'[t] = queue_
      /\ UNCHANGED need_stop_
  BY <1>0, TakeFacts
<1>2. ~Serving(t) /\ ~Serving(t)'
  BY <1>0, <1>1 DEF Serving, LoopPlaces
<1>3. Remaining(t) = {} /\ Remaining(t)' = Q!Contents(queue_)
  BY <1>0, <1>1, <1>2 DEF Remaining, Q!Contents
<1>4. \A w \in Workers \ {t} : SameView(w)
  <2>1. \A w \in Workers \ {t} : list'[w] = list[w]
    BY <1>0, QueueEffect DEF Threads
  <2> QED
    BY <1>0, <2>1, Unmoved DEF Serving
<1>5. Q!Contents(queue_)' = {}
  BY <1>1, ContentsNone
<1>6. Pending' = Pending
  BY <1>1, <1>3, <1>4, <1>5 DEF Pending, SameView
<1>7. \A w \in Workers : ServedBy(w)' = ServedBy(w)
  BY <1>2, <1>4 DEF SameView, ServedBy
<1>8. UNCHANGED Phase
  BY <1>0, <1>1, PhaseSame
<1> QED
  BY <1>0, <1>6, <1>7, <1>8 DEF Pool!poolVars, ServedBy

(* A worker begins the next task of its list.                               *)
LEMMA RunBegins ==
  ASSUME PoolInv, NEW w \in Workers, IterRun(w)
  PROVE  Pool!Next
<1> DEFINE x == Current(w)
<1>0. /\ at[w] = "iter" /\ at' = [at EXCEPT ![w] = "run"] /\ running_
      /\ pos[w] <= Len(list[w])
      /\ UNCHANGED << queueVars, control, work >>
      /\ at \in [Threads -> Places] /\ w \in Threads
      /\ pos[w] \in Nat \ {0} /\ list \in [Threads -> Seq(Tasks)]
      /\ PlacesInv
  BY DEF IterRun, More, Step, Goto, PoolInv, PlacesInv, AtOK, BatchOK, QueueOK,
         Q!TypeOK, Threads
<1>1. ~Serving(w) /\ Serving(w)' /\ Current(w)' = x
  BY <1>0 DEF Serving, LoopPlaces, Current
<1>2. \A v \in Workers \ {w} : SameView(v)
  <2>1. \A v \in Workers \ {w} : at'[v] = at[v]
    BY <1>0 DEF Threads
  <2> QED
    BY <1>0, <2>1, Unmoved DEF Serving
<1>3. pos[w] \in 1..Len(list[w]) /\ x \in Tasks /\ x \in Q!Contents(list[w])
  BY <1>0 DEF Current, Q!Contents
<1>4. Remaining(w) = { list[w][i] : i \in pos[w]..Len(list[w]) }
  BY <1>1 DEF Remaining
<1>5. Remaining(w)' = { list[w][i] : i \in (pos[w] + 1)..Len(list[w]) }
  BY <1>0, <1>1 DEF Remaining
<1>6. Remaining(w)' = Remaining(w) \ {x} /\ x \in Remaining(w)
  <2>1. NoDup(list[w])
    BY DEF PoolInv, OncePerTask
  <2> QED
    BY <1>0, <1>3, <1>4, <1>5, <2>1 DEF NoDup, Current
<1>7. \A v \in Workers \ {w} : x \notin Remaining(v)
  BY <1>0, <1>3, Remains DEF PlacesInv, QueueOK, Q!ListsDisjoint, Threads
<1>8. x \notin Q!Contents(queue_) /\ UNCHANGED Q!Contents(queue_)
  BY <1>0, <1>3 DEF PlacesInv, QueueOK, Q!ListsDisjoint
<1>9. Pending' = Pending \ {x} /\ x \in Pending
  BY <1>2, <1>6, <1>7, <1>8 DEF Pending, SameView
<1>10. Phase = "open" /\ UNCHANGED << Phase, finished >>
  BY <1>0 DEF Phase
<1>11. /\ ServedBy(w) = None /\ ServedBy(w)' = x
       /\ \A v \in Workers \ {w} : ServedBy(v)' = ServedBy(v)
  BY <1>1, <1>2 DEF ServedBy, SameView
<1>12. Pool!Begin(w, x)
  BY <1>9, <1>10, <1>11 DEF Pool!Begin, ServedBy
<1> QED
  BY <1>3, <1>12 DEF Pool!Next

(* A task returns to its worker.                                            *)
LEMMA ReturnFinishes ==
  ASSUME PoolInv, NEW w \in Workers, TaskReturns(w)
  PROVE  Pool!Next
<1>0. /\ at[w] \in {"run", "ret"} /\ at' = [at EXCEPT ![w] = "iter"]
      /\ finished' = finished \cup {Current(w)}
      /\ pos' = [pos EXCEPT ![w] = @ + 1]
      /\ UNCHANGED << queueVars, control >>
      /\ at \in [Threads -> Places] /\ w \in Threads
      /\ pos \in [Workers -> Nat \ {0}] /\ list \in [Threads -> Seq(Tasks)]
      /\ PlacesInv
  BY DEF TaskReturns, Returning, NextTask, Goto, PoolInv, PlacesInv, AtOK, BatchOK,
         QueueOK, Q!TypeOK, Threads
<1>1. Serving(w) /\ ~Serving(w)'
  BY <1>0 DEF Serving, LoopPlaces
<1>2. \A v \in Workers \ {w} : SameView(v)
  <2>1. \A v \in Workers \ {w} : at'[v] = at[v] /\ pos'[v] = pos[v]
    BY <1>0 DEF Threads
  <2> QED
    BY <1>0, <2>1, Unmoved DEF Serving
<1>3. Remaining(w)' = Remaining(w)
  BY <1>0, <1>1 DEF Remaining
<1>4. Current(w) # None
  <2>1. pos[w] \in 1..Len(list[w])
    BY <1>0, <1>1 DEF PlacesInv, BatchOK
  <2>2. Current(w) \in Tasks
    BY <1>0, <2>1 DEF Current
  <2> QED
    BY <2>2, NoneAssumption
<1>5. Pending' = Pending /\ UNCHANGED Phase
  BY <1>0, <1>2, <1>3, PhaseSame DEF Pending, SameView
<1>6. /\ ServedBy(w) = Current(w) /\ ServedBy(w)' = None
      /\ \A v \in Workers \ {w} : ServedBy(v)' = ServedBy(v)
  BY <1>1, <1>2 DEF ServedBy, SameView
<1>7. Pool!Finish(w)
  BY <1>0, <1>4, <1>5, <1>6 DEF Pool!Finish, ServedBy
<1> QED
  BY <1>7 DEF Pool!Next

(* The steps that move no task leave each worker as TaskPool sees it.       *)
LEMMA SteadySteps ==
  ASSUME PoolInv, Either
  PROVE  \/ (\A w \in Workers : SameView(w)) /\ UNCHANGED << queue_, finished >>
         \/ \E w \in Workers : IterRun(w) \/ TaskReturns(w)
         \/ \E t \in Threads : QueueSteps(t) /\ (Q!AddPush(t) \/ Q!TakeAll(t))
<1> DEFINE Steady == (\A w \in Workers : SameView(w)) /\ UNCHANGED << queue_, finished >>
<1>0. /\ at \in [Threads -> Places] /\ Workers \subseteq Threads /\ PlacesInv
      /\ \A t \in Threads : at[t] \in LoopPlaces => t \in Workers
  BY DEF PoolInv, PlacesInv, AtOK, Threads
<1>1. ASSUME NEW t \in Threads, NEW place, Goto(t, place),
             t \in Workers => (at[t] \in LoopPlaces <=> place \in LoopPlaces),
             UNCHANGED << queue_, finished, list, pos >>
      PROVE  Steady
  <2>1. \A w \in Workers : at'[w] = IF w = t THEN place ELSE at[w]
    BY <1>0, <1>1 DEF Goto
  <2>2. \A w \in Workers : Serving(w)' = Serving(w)
    BY <1>1, <2>1 DEF Serving
  <2> QED
    BY <1>1, <2>2, Unmoved
<1>2. ASSUME UNCHANGED << at, queue_, finished, list, pos >> PROVE Steady
  BY <1>2, Unmoved DEF Serving
<1>3. CASE UNCHANGED vars \/ Terminate
  BY <1>2, <1>3 DEF vars, Terminate
<1>4. CASE Start
  <2>1. started + 1 \in Workers /\ at[started + 1] = "unborn"
    BY <1>0, <1>4, NumThreadsAssumption
       DEF Start, Workers, PlacesInv, ControlOK, StartedOnce
  <2> QED
    BY <1>0, <1>1, <1>4, <2>1 DEF Start, LoopPlaces
<1>5. ASSUME NEW w \in Workers, LoopTake(w) PROVE Steady
  <2>1. /\ at[w] = "loop" /\ at' = [at EXCEPT ![w] = "take"]
        /\ list' = [list EXCEPT ![w] = << >>] /\ pos' = [pos EXCEPT ![w] = 1]
        /\ UNCHANGED << queue_, finished >>
        /\ list \in [Threads -> Seq(Tasks)] /\ pos \in [Workers -> Nat \ {0}]
    BY <1>0, <1>5 DEF LoopTake, Q!Take, Q!contents, Goto, PlacesInv, QueueOK,
                      Q!TypeOK, BatchOK
  <2>2. \A v \in Workers \ {w} : SameView(v)
    <3>1. \A v \in Workers \ {w} :
            at'[v] = at[v] /\ list'[v] = list[v] /\ pos'[v] = pos[v]
      BY <1>0, <2>1
    <3> QED
      BY <3>1, Unmoved DEF Serving
  <2>3. ~Serving(w) /\ ~Serving(w)'
    BY <1>0, <2>1 DEF Serving, LoopPlaces
  <2>4. pos[w] > Len(list[w]) /\ pos'[w] = 1 /\ list'[w] = << >>
    BY <1>0, <2>1 DEF PlacesInv, BatchOK
  <2>5. Len(list[w]) \in Nat /\ pos[w] \in Nat
    BY <1>0, <2>1
  <2>6. Remaining(w) = {} /\ Remaining(w)' = {}
    BY <2>3, <2>4, <2>5 DEF Remaining
  <2>7. SameView(w)
    BY <2>3, <2>6 DEF SameView, ServedBy
  <2> QED
    BY <2>1, <2>2, <2>7
<1>6. ASSUME NEW w \in Workers,
             LoopExit(w) \/ TakeReturns(w) \/ IterEnd(w) \/ IterExit(w)
      PROVE  Steady
  <2>1. \E place : Goto(w, place) /\ place \in LoopPlaces /\ at[w] \in LoopPlaces
    BY <1>6 DEF LoopExit, TakeReturns, IterEnd, IterExit, Step, LoopPlaces
  <2>2. UNCHANGED << queue_, finished, list, pos >>
    BY <1>6 DEF LoopExit, TakeReturns, IterEnd, IterExit, Step
  <2> QED
    BY <1>0, <1>1, <2>1, <2>2
<1>7. ASSUME NEW t \in Threads,
             \/ \E x \in Tasks : AddTask(t, x)
             \/ AddReturns(t) \/ StopPool(t) \/ OnceFirst(t) \/ OnceDone(t)
             \/ IncludeSteps(t) \/ BakSteps(t) \/ StopReturns(t)
      PROVE  Steady
  <2>1. \E place : Goto(t, place) /\ place \notin LoopPlaces
    BY <1>7
       DEF AddTask, AddReturns, StopPool, OnceFirst, OnceDone, IncludeSteps, BakSteps,
           StopRunning, QueueStopped, StopQueue, ClearAfterQueue, StopReturns, Step,
           Return, LoopPlaces
  <2>2. t \in Workers => at[t] \notin LoopPlaces
    BY <1>7
       DEF AddTask, AddReturns, StopPool, OnceFirst, OnceDone, IncludeSteps, BakSteps,
           StopRunning, QueueStopped, StopQueue, ClearAfterQueue, StopReturns, Step,
           MayCall, LoopPlaces
  <2>3. UNCHANGED << queue_, finished, list, pos >>
    BY <1>7
       DEF AddTask, AddReturns, StopPool, OnceFirst, OnceDone, IncludeSteps, BakSteps,
           StopRunning, QueueStopped, StopQueue, ClearAfterQueue, StopReturns, Step,
           Q!Put, Q!Stop, Q!StopStep, Q!contents
  <2> QED
    BY <1>1, <2>1, <2>2, <2>3
<1>8. ASSUME NEW t \in Threads, Join(t) PROVE Steady
  BY <1>2, <1>8 DEF Join
<1>9. ASSUME NEW t \in Threads, QueueSteps(t), ~Q!AddPush(t), ~Q!TakeAll(t)
      PROVE  Steady
  BY <1>0, <1>2, <1>9, QueueMoves, QueueEffect
<1> QED
  BY <1>3, <1>4, <1>5, <1>6, <1>7, <1>8, <1>9, StepCases

(* Phase goes on only by steps of the stop, and they move no task. *)
LEMMA PhaseSteps ==
  ASSUME PoolInv, Either
  PROVE  UNCHANGED Phase \/ Pool!Halt \/ Pool!Drain \/ Pool!Close
<1>0. /\ running_ \in BOOLEAN /\ need_stop_ \in BOOLEAN
      /\ flag_ \in {"unset", "active", "done"}
      /\ PlacesInv /\ OneStopper /\ StopInv
  BY DEF PoolInv, PlacesInv, ControlOK, QueueOK, Q!TypeOK
<1>1. CASE UNCHANGED vars \/ Terminate \/ Start
  BY <1>1, PhaseSame DEF vars, Terminate, Start
<1>2. ASSUME NEW w \in Workers,
             \/ LoopTake(w) \/ LoopExit(w) \/ TakeReturns(w) \/ IterEnd(w)
             \/ IterExit(w) \/ IterRun(w) \/ TaskReturns(w)
      PROVE  UNCHANGED Phase
  BY <1>2, PhaseSame
     DEF LoopTake, LoopExit, TakeReturns, IterEnd, IterExit, IterRun,
         TaskReturns, NextTask, Step, Q!Take
<1>3. ASSUME NEW t \in Threads,
             \/ \E x \in Tasks : AddTask(t, x)
             \/ StopPool(t) \/ AddReturns(t) \/ OnceDone(t) \/ Join(t) \/ StopQueue(t)
             \/ QueueStopped(t)
      PROVE  UNCHANGED Phase
  BY <1>3, PhaseSame
     DEF AddTask, StopPool, AddReturns, OnceDone, Join, StopQueue, QueueOnly,
         QueueStopped, Step, Q!Put, Q!Stop
<1>4. ASSUME NEW t \in Threads, OnceFirst(t) PROVE UNCHANGED Phase
  BY <1>0, <1>4 DEF OnceFirst, Phase
<1>5. ASSUME NEW t \in Threads, StopRunning(t) \/ ClearAfterQueue(t)
      PROVE  UNCHANGED Phase \/ Pool!Halt \/ Pool!Drain
  <2>1. flag_ = "active"
    BY <1>0, <1>5 DEF StopRunning, ClearAfterQueue, OneStopper, InStop
  <2>2. running_' = FALSE /\ UNCHANGED << need_stop_, flag_ >>
    BY <1>5 DEF StopRunning, ClearAfterQueue, ClearRunning, Q!Stop
  <2> QED
    BY <1>0, <2>1, <2>2 DEF Phase, Pool!Halt, Pool!Drain
<1>6. ASSUME NEW t \in Threads, StopReturns(t) PROVE Pool!Close
  <2>1. /\ at[t] = "join" /\ joined = NumThreads /\ flag_' = "done"
        /\ UNCHANGED << running_, need_stop_ >>
    BY <1>6 DEF StopReturns
  <2>2. ~running_ /\ need_stop_ /\ flag_ = "active"
    BY <1>0, <2>1 DEF OneStopper, InStop, StopInv, StopProgress
  <2>3. \A w \in Workers : at[w] = "exit"
    BY <1>0, <2>1 DEF StopInv, StopProgress, Workers
  <2> QED
    BY <2>1, <2>2, <2>3 DEF Phase, Pool!Close, Serving, LoopPlaces
<1>7. ASSUME NEW t \in Threads, QueueSteps(t)
      PROVE  UNCHANGED Phase \/ Pool!Drain
  <2>1. UNCHANGED << running_, flag_ >>
    BY <1>0, <1>7, QueueEffect
  <2>2. need_stop_' = need_stop_ \/ (call[t] = "stop" /\ need_stop_' = TRUE)
    BY <1>0, <1>7, StoppedWaits
  <2>3. call[t] = "stop" => flag_ = "active"
    BY <1>0 DEF PlacesInv, CallsAt, OneStopper, InStop
  <2> QED
    BY <1>0, <2>1, <2>2, <2>3 DEF Phase, Pool!Drain
<1> QED
  BY <1>1, <1>2, <1>3, <1>4, <1>5, <1>6, <1>7, StepCases DEF IncludeSteps, BakSteps

(* Every step is one of TaskPool.                                           *)
LEMMA PoolRefines == PoolInv /\ Either => [Pool!Next]_(Pool!poolVars)
<1> SUFFICES ASSUME PoolInv, Either PROVE [Pool!Next]_(Pool!poolVars)
  OBVIOUS
<1>1. CASE \E w \in Workers : IterRun(w) \/ TaskReturns(w)
  BY <1>1, RunBegins, ReturnFinishes
<1>2. CASE \E t \in Threads : QueueSteps(t) /\ (Q!AddPush(t) \/ Q!TakeAll(t))
  BY <1>2, PushAccepts, TakeStutters
<1>3. CASE (\A w \in Workers : SameView(w)) /\ UNCHANGED << queue_, finished >>
  <2>1. /\ UNCHANGED << Pending, finished >>
        /\ UNCHANGED [w \in Workers |-> IF Serving(w) THEN Current(w) ELSE None]
    BY <1>3, SameWorkers DEF Pending
  <2>2. CASE UNCHANGED Phase
    BY <2>1, <2>2 DEF Pool!poolVars
  <2>3. CASE Pool!Halt \/ Pool!Drain \/ Pool!Close
    BY <2>1, <2>3 DEF Pool!Next, Pool!Stopping
  <2> QED
    BY <2>2, <2>3, PhaseSteps
<1> QED
  BY <1>1, <1>2, <1>3, SteadySteps

(* Initial states are initial states of TaskPool.                           *)
LEMMA PoolRefinesInit == BothInit => Pool!Init
<1> SUFFICES ASSUME BothInit PROVE Pool!Init
  OBVIOUS
<1> USE DEF BothInit, Init, Q!Init
<1>1. \A w \in Workers : ~Serving(w) /\ Remaining(w) = {}
  BY DEF Serving, LoopPlaces, Remaining, Threads
<1>2. Pending = {}
  BY <1>1, ContentsNone DEF Pending
<1> QED
  BY <1>1, <1>2 DEF Pool!Init, Phase

(* Both pools keep the promises of TaskPool: every step of a worker, a task *)
(* or a client accepts, begins or finishes one task, or lets the stop go    *)
(* on, as TaskPool says, or shows nothing of itself.                        *)
THEOREM BothImplement == BothSpec => ImplementsTaskPool
<1>1. PoolInv /\ [BothNext]_allVars => [Pool!Next]_(Pool!poolVars)
  BY PoolRefines DEF Either
<1> QED
  BY PoolInvHolds, PoolRefinesInit, <1>1, PTL
     DEF BothSpec, ImplementsTaskPool, Pool!Spec

=============================================================================
