-------------------------- MODULE SyncQueueProofs --------------------------
(***************************************************************************)
(* Proofs about SyncQueue, for every set of threads and of tasks and every *)
(* capacity.                                                               *)
(***************************************************************************)
EXTENDS SyncQueue, TLAPS

(* The tuples of variables the actions leave unchanged. *)
USE DEF contents, waits, callers

(* Only a thread in Put carries an element, and Take gets an empty list.    *)
CallOK ==
  \A t \in Threads :
    /\ call[t] = "add" => arg[t] \in Tasks
    /\ call[t] = "take" => list[t] = << >>

TypeInv == TypeOK /\ CallOK

(* notify_one takes one thread out of the set, if there is one.             *)
LEMMA NotifyOneRemoves ==
  ASSUME NEW W, NEW V \in NotifyOne(W)
  PROVE  /\ V \subseteq W
         /\ W # {} => \E w \in W : w \notin V
         /\ \A w, u \in W : w \notin V /\ u \notin V => w = u
BY DEF NotifyOne

(* The invariant holds at first.                                            *)
LEMMA TypeInvInit == Init => TypeInv
<1> SUFFICES ASSUME Init PROVE TypeInv
  OBVIOUS
<1>1. << >> \in Seq(Tasks)
  OBVIOUS
<1>2. TypeOK
  BY <1>1 DEF Init, TypeOK, Calls
<1>3. CallOK
  BY DEF Init, CallOK
<1> QED
  BY <1>2, <1>3 DEF TypeInv

(* Every step keeps it.                                                     *)
LEMMA TypeInvStep == TypeInv /\ [Next]_vars => TypeInv'
<1> SUFFICES ASSUME TypeInv, [Next]_vars PROVE TypeInv'
  OBVIOUS
<1> USE DEF TypeInv, TypeOK, CallOK, Calls
<1>1. ASSUME NEW t \in Threads, NEW x \in Tasks, Put(t, x) PROVE TypeInv'
  BY <1>1 DEF Put
<1>2. ASSUME NEW t \in Threads, AddBlock(t) PROVE TypeInv'
  BY <1>2 DEF AddBlock, InAdd
<1>3. ASSUME NEW t \in Threads, AddPush(t) PROVE TypeInv'
  BY <1>3, NotifyOneRemoves
     DEF AddPush, PushBack, NotifyConsumer, InAdd, ReturnFromAdd
<1>4. ASSUME NEW t \in Threads, AddStopped(t) PROVE TypeInv'
  BY <1>4 DEF AddStopped, InAdd, ReturnFromAdd
<1>5. ASSUME NEW t \in Threads, Take(t) PROVE TypeInv'
  BY <1>5 DEF Take
<1>6. ASSUME NEW t \in Threads, TakeBlock(t) PROVE TypeInv'
  BY <1>6 DEF TakeBlock, InTake
<1>7. ASSUME NEW t \in Threads, TakeSwap(t) PROVE TypeInv'
  BY <1>7 DEF TakeSwap, TakeAll, Swap, NotifyProducers, InTake
<1>8. ASSUME NEW t \in Threads, TakeStopped(t) PROVE TypeInv'
  BY <1>8 DEF TakeStopped, InTake
<1>9. ASSUME NEW t \in Threads, Stop(t) PROVE TypeInv'
  BY <1>9 DEF Stop, StopStep
<1>10. ASSUME NEW t \in Threads, StopSet(t) PROVE TypeInv'
  BY <1>10 DEF StopSet, StopStep
<1>11. ASSUME NEW t \in Threads, StopNotifyFull(t) PROVE TypeInv'
  BY <1>11 DEF StopNotifyFull, StopStep
<1>12. ASSUME NEW t \in Threads, StopNotifyEmpty(t) PROVE TypeInv'
  BY <1>12 DEF StopNotifyEmpty, StopStep
<1>13. ASSUME NEW t \in Threads, Spurious(t) PROVE TypeInv'
  BY <1>13 DEF Spurious
<1>14. CASE UNCHANGED vars
  BY <1>14 DEF vars
<1> QED
  BY <1>1, <1>2, <1>3, <1>4, <1>5, <1>6, <1>7, <1>8, <1>9, <1>10, <1>11,
     <1>12, <1>13, <1>14 DEF Next, Enter, Proceed

(* The type invariant holds of every state the queue can reach.             *)
THEOREM TypeCorrect == Spec => []TypeOK
<1>1. TypeInv => TypeOK
  BY DEF TypeInv
<1> QED
  BY TypeInvInit, TypeInvStep, <1>1, PTL DEF Spec

-----------------------------------------------------------------------------
(* Capacity.  It follows from a bound on the length of the queue, which is  *)
(* inductive given that Take hands over an empty list.                      *)

Bounded == Len(queue_) <= MaxSize

LEMMA BoundedStep == TypeInv /\ Bounded /\ [Next]_vars => Bounded'
<1> SUFFICES ASSUME TypeInv, Bounded, [Next]_vars PROVE Bounded'
  OBVIOUS
<1> USE MaxSizeAssumption DEF Bounded
<1>1. ASSUME NEW t \in Threads, AddPush(t) PROVE Bounded'
  <2>1. queue_ \in Seq(Tasks) /\ arg[t] \in Tasks
    BY <1>1 DEF TypeInv, TypeOK, CallOK, AddPush, InAdd
  <2> QED
    BY <1>1, <2>1 DEF AddPush, PushBack, NotifyConsumer, NotFull
<1>2. ASSUME NEW t \in Threads, TakeSwap(t) PROVE Bounded'
  BY <1>2 DEF TypeInv, CallOK, TakeSwap, TakeAll, Swap, InTake
<1>3. ASSUME UNCHANGED queue_ PROVE Bounded'
  BY <1>3
<1> QED
  BY <1>1, <1>2, <1>3
     DEF Next, Enter, Proceed, vars, Put, AddBlock, AddStopped, Take, TakeBlock,
         TakeStopped, Stop, StopSet, StopNotifyFull, StopNotifyEmpty, StopStep,
         Spurious

(* Put never overfills the queue, and Full() agrees with NotFull().         *)
THEOREM CapacityHolds == Spec => []Capacity
<1>1. Init => Bounded
  BY MaxSizeAssumption DEF Init, Bounded
<1>2. TypeInv /\ Bounded => Capacity
  BY MaxSizeAssumption DEF TypeInv, TypeOK, Bounded, Capacity, Full, NotFull
<1> QED
  BY TypeInvInit, TypeInvStep, BoundedStep, <1>1, <1>2, PTL DEF Spec

-----------------------------------------------------------------------------
(* First in, first out, exactly once. *)

(* Appending to the second part of a sequence appends to the whole.         *)
LEMMA AppendConcat ==
  \A p, q \in Seq(Tasks), x \in Tasks : Append(p \o q, x) = p \o Append(q, x)
<1> TAKE p, q \in Seq(Tasks), x \in Tasks
<1> QED
  OBVIOUS

(* Moving the second part of a sequence to the first changes nothing.       *)
LEMMA ConcatEmpty ==
  ASSUME NEW S, NEW p \in Seq(S)
  PROVE  p \o << >> = p
OBVIOUS

LEMMA FifoStep == TypeInv /\ FifoExactlyOnce /\ [Next]_vars => FifoExactlyOnce'
<1> SUFFICES ASSUME TypeInv, FifoExactlyOnce, [Next]_vars
             PROVE  FifoExactlyOnce'
  OBVIOUS
<1> USE DEF FifoExactlyOnce
<1>0. queue_ \in Seq(Tasks) /\ drained \in Seq(Tasks)
  BY DEF TypeInv, TypeOK
<1>1. ASSUME NEW t \in Threads, AddPush(t) PROVE FifoExactlyOnce'
  <2>1. arg[t] \in Tasks
    BY <1>1 DEF TypeInv, CallOK, AddPush, InAdd
  <2>2. Append(drained \o queue_, arg[t]) = drained \o Append(queue_, arg[t])
    BY <1>0, <2>1, AppendConcat, Zenon
  <2> QED
    BY <1>1, <2>2 DEF AddPush, PushBack, NotifyConsumer
<1>2. ASSUME NEW t \in Threads, TakeSwap(t) PROVE FifoExactlyOnce'
  <2>1. queue_' = << >> /\ drained' = drained \o queue_ /\ accepted' = accepted
    BY <1>2 DEF TypeInv, CallOK, TakeSwap, TakeAll, Swap, InTake
  <2>2. drained \o queue_ \in Seq(Tasks)
    BY <1>0
  <2> QED
    BY <2>1, <2>2, ConcatEmpty
<1>3. ASSUME UNCHANGED << queue_, drained, accepted >> PROVE FifoExactlyOnce'
  BY <1>3
<1> QED
  BY <1>1, <1>2, <1>3
     DEF Next, Enter, Proceed, vars, Put, AddBlock, AddStopped, Take, TakeBlock,
         TakeStopped, Stop, StopSet, StopNotifyFull, StopNotifyEmpty, StopStep,
         Spurious

(* What was pushed is what was taken followed by what is queued.            *)
THEOREM FifoHolds == Spec => []FifoExactlyOnce
<1>1. Init => FifoExactlyOnce
  BY DEF Init, FifoExactlyOnce
<1> QED
  BY TypeInvInit, TypeInvStep, FifoStep, <1>1, PTL DEF Spec

-----------------------------------------------------------------------------
(* Wakeups. *)

LEMMA ProducersStep ==
  TypeInv /\ ProducersBlockOnlyWhenFull /\ [Next]_vars
    => ProducersBlockOnlyWhenFull'
<1> SUFFICES ASSUME TypeInv, ProducersBlockOnlyWhenFull, [Next]_vars
             PROVE  ProducersBlockOnlyWhenFull'
  OBVIOUS
<1> USE DEF ProducersBlockOnlyWhenFull, NotFull
<1>1. ASSUME NEW t \in Threads, AddBlock(t) PROVE ProducersBlockOnlyWhenFull'
  BY <1>1 DEF AddBlock
<1>2. ASSUME NEW t \in Threads, AddPush(t) PROVE ProducersBlockOnlyWhenFull'
  BY <1>2 DEF AddPush, PushBack, NotifyConsumer
<1>3. ASSUME NEW t \in Threads, TakeSwap(t) PROVE ProducersBlockOnlyWhenFull'
  BY <1>3 DEF TakeSwap, TakeAll, NotifyProducers
<1>4. ASSUME NEW t \in Threads, StopSet(t) PROVE ProducersBlockOnlyWhenFull'
  BY <1>4 DEF StopSet, StopStep
<1>5. ASSUME NEW t \in Threads, StopNotifyFull(t)
      PROVE  ProducersBlockOnlyWhenFull'
  BY <1>5 DEF StopNotifyFull, StopStep
<1>6. ASSUME NEW t \in Threads, Spurious(t) PROVE ProducersBlockOnlyWhenFull'
  BY <1>6 DEF Spurious
<1>7. ASSUME UNCHANGED << queue_, need_stop_, not_full_ >>
      PROVE  ProducersBlockOnlyWhenFull'
  BY <1>7
<1> QED
  BY <1>1, <1>2, <1>3, <1>4, <1>5, <1>6, <1>7
     DEF Next, Enter, Proceed, vars, Put, AddStopped, Take, TakeBlock,
         TakeStopped, Stop, StopNotifyEmpty, StopStep

(* Until the queue is stopped, a producer sleeps only while it is full.     *)
THEOREM ProducersHolds == Spec => []ProducersBlockOnlyWhenFull
<1>1. Init => ProducersBlockOnlyWhenFull
  BY DEF Init, ProducersBlockOnlyWhenFull
<1> QED
  BY TypeInvInit, TypeInvStep, ProducersStep, <1>1, PTL DEF Spec

LEMMA BacklogStep ==
  TypeInv /\ BacklogHasTaker /\ [Next]_vars => BacklogHasTaker'
<1> SUFFICES ASSUME TypeInv, BacklogHasTaker, [Next]_vars,
                    (~need_stop_ /\ NotEmpty /\ not_empty_ # {})'
             PROVE  \E t \in Threads : InTake(t)'
  BY DEF BacklogHasTaker, InTake
<1> USE DEF NotEmpty
<1>1. ASSUME NEW t \in Threads, NEW x \in Tasks, Put(t, x)
      PROVE  \E u \in Threads : InTake(u)'
  BY <1>1 DEF Put, TypeInv, TypeOK, BacklogHasTaker, InTake
<1>2. ASSUME NEW t \in Threads, AddBlock(t)
      PROVE  \E u \in Threads : InTake(u)'
  BY <1>2 DEF AddBlock, BacklogHasTaker, InTake
<1>3. ASSUME NEW t \in Threads, AddPush(t)
      PROVE  \E u \in Threads : InTake(u)'
  <2>1. not_empty_' \in NotifyOne(not_empty_)
    BY <1>3 DEF AddPush, PushBack, NotifyConsumer
  <2>2. PICK w \in not_empty_ : w \notin not_empty_'
    BY <2>1, NotifyOneRemoves
  <2>3. w \in Threads /\ call[w] = "take"
    BY <2>2 DEF TypeInv, TypeOK
  <2>4. call'[w] = "take"
    BY <1>3, <2>3
       DEF AddPush, InAdd, ReturnFromAdd, TypeInv, TypeOK
  <2> QED
    BY <2>2, <2>3, <2>4 DEF InTake
<1>4. ASSUME NEW t \in Threads, AddStopped(t)
      PROVE  \E u \in Threads : InTake(u)'
  BY <1>4 DEF AddStopped
<1>5. ASSUME NEW t \in Threads, Take(t)
      PROVE  \E u \in Threads : InTake(u)'
  BY <1>5 DEF Take, TypeInv, TypeOK, BacklogHasTaker, InTake
<1>6. ASSUME NEW t \in Threads, TakeBlock(t)
      PROVE  \E u \in Threads : InTake(u)'
  BY <1>6 DEF TakeBlock, NothingToTake
<1>7. ASSUME NEW t \in Threads, TakeSwap(t)
      PROVE  \E u \in Threads : InTake(u)'
  BY <1>7 DEF TakeSwap, TakeAll, NotifyProducers, Swap, InTake, TypeInv, CallOK
<1>8. ASSUME NEW t \in Threads, TakeStopped(t)
      PROVE  \E u \in Threads : InTake(u)'
  BY <1>8 DEF TakeStopped
<1>9. ASSUME NEW t \in Threads, Stop(t)
      PROVE  \E u \in Threads : InTake(u)'
  BY <1>9 DEF Stop, StopStep, TypeInv, TypeOK, BacklogHasTaker, InTake
<1>10. ASSUME NEW t \in Threads, StopSet(t)
       PROVE  \E u \in Threads : InTake(u)'
  BY <1>10 DEF StopSet, StopStep
<1>11. ASSUME NEW t \in Threads, StopNotifyFull(t)
       PROVE  \E u \in Threads : InTake(u)'
  BY <1>11 DEF StopNotifyFull, StopStep, TypeInv, TypeOK, BacklogHasTaker, InTake
<1>12. ASSUME NEW t \in Threads, StopNotifyEmpty(t)
       PROVE  \E u \in Threads : InTake(u)'
  BY <1>12 DEF StopNotifyEmpty, StopStep
<1>13. ASSUME NEW t \in Threads, Spurious(t)
       PROVE  \E u \in Threads : InTake(u)'
  BY <1>13 DEF Spurious, BacklogHasTaker, InTake
<1>14. CASE UNCHANGED vars
  BY <1>14 DEF vars, BacklogHasTaker, InTake
<1> QED
  BY <1>1, <1>2, <1>3, <1>4, <1>5, <1>6, <1>7, <1>8, <1>9, <1>10, <1>11,
     <1>12, <1>13, <1>14 DEF Next, Enter, Proceed

(* While elements are queued and a consumer sleeps, another one is awake.   *)
THEOREM BacklogHolds == Spec => []BacklogHasTaker
<1>1. Init => BacklogHasTaker
  BY DEF Init, BacklogHasTaker, NotEmpty
<1> QED
  BY TypeInvInit, TypeInvStep, BacklogStep, <1>1, PTL DEF Spec

LEMMA StopReachesStep ==
  TypeInv /\ StopReachesWaiters /\ [Next]_vars => StopReachesWaiters'
<1> SUFFICES ASSUME TypeInv, StopReachesWaiters, [Next]_vars
             PROVE  StopReachesWaiters'
  OBVIOUS
<1> USE DEF StopReachesWaiters, TypeInv, TypeOK
<1>1. ASSUME NEW t \in Threads, NEW x \in Tasks, Put(t, x)
      PROVE  StopReachesWaiters'
  BY <1>1 DEF Put
<1>2. ASSUME NEW t \in Threads, AddBlock(t) PROVE StopReachesWaiters'
  BY <1>2 DEF AddBlock
<1>3. ASSUME NEW t \in Threads, AddPush(t) PROVE StopReachesWaiters'
  BY <1>3 DEF AddPush, PushBack, NotifyConsumer
<1>4. ASSUME NEW t \in Threads, AddStopped(t) PROVE StopReachesWaiters'
  BY <1>4 DEF AddStopped, InAdd, ReturnFromAdd
<1>5. ASSUME NEW t \in Threads, Take(t) PROVE StopReachesWaiters'
  BY <1>5 DEF Take
<1>6. ASSUME NEW t \in Threads, TakeBlock(t) PROVE StopReachesWaiters'
  BY <1>6 DEF TakeBlock, NothingToTake
<1>7. ASSUME NEW t \in Threads, TakeSwap(t) PROVE StopReachesWaiters'
  BY <1>7 DEF TakeSwap, TakeAll, NotifyProducers, Swap
<1>8. ASSUME NEW t \in Threads, TakeStopped(t) PROVE StopReachesWaiters'
  BY <1>8 DEF TakeStopped, InTake
<1>9. ASSUME NEW t \in Threads, Stop(t) PROVE StopReachesWaiters'
  BY <1>9 DEF Stop, StopStep
<1>10. ASSUME NEW t \in Threads, StopSet(t) PROVE StopReachesWaiters'
  BY <1>10 DEF StopSet, StopStep
<1>11. ASSUME NEW t \in Threads, StopNotifyFull(t) PROVE StopReachesWaiters'
  BY <1>11 DEF StopNotifyFull, StopStep
<1>12. ASSUME NEW t \in Threads, StopNotifyEmpty(t) PROVE StopReachesWaiters'
  BY <1>12 DEF StopNotifyEmpty, StopStep
<1>13. ASSUME NEW t \in Threads, Spurious(t) PROVE StopReachesWaiters'
  BY <1>13 DEF Spurious
<1>14. CASE UNCHANGED vars
  BY <1>14 DEF vars
<1> QED
  BY <1>1, <1>2, <1>3, <1>4, <1>5, <1>6, <1>7, <1>8, <1>9, <1>10, <1>11,
     <1>12, <1>13, <1>14 DEF Next, Enter, Proceed

(* Once need_stop_ is set, whoever still sleeps will be notified.           *)
THEOREM StopReachesHolds == Spec => []StopReachesWaiters
<1>1. Init => StopReachesWaiters
  BY DEF Init, StopReachesWaiters
<1> QED
  BY TypeInvInit, TypeInvStep, StopReachesStep, <1>1, PTL DEF Spec

-----------------------------------------------------------------------------
(* The consumers' lists.  An element is in one place only because a task is *)
(* given to one Put, and is in nobody's arg once it is in the queue.        *)

ContentsOnce ==
  /\ \A t, u \in Threads : t # u /\ arg[t] = arg[u] => arg[t] = None
  /\ \A t \in Threads : arg[t] \notin Contents(accepted)
  /\ Contents(queue_) \subseteq Contents(accepted)
  /\ \A t \in Threads : Contents(list[t]) \subseteq Contents(accepted)

ListsInv == ContentsOnce /\ ListsDisjoint

(* What a queue holds once an element is pushed.                            *)
LEMMA ContentsAppend ==
  \A s \in Seq(Tasks), x \in Tasks :
    Contents(Append(s, x)) = Contents(s) \cup {x}
<1> TAKE s \in Seq(Tasks), x \in Tasks
<1>1. Contents(Append(s, x)) \subseteq Contents(s) \cup {x}
  BY DEF Contents
<1>2. Contents(s) \subseteq Contents(Append(s, x))
  <2> SUFFICES ASSUME NEW i \in 1..Len(s) PROVE s[i] \in Contents(Append(s, x))
    BY DEF Contents
  <2>1. i \in 1..Len(Append(s, x)) /\ Append(s, x)[i] = s[i]
    OBVIOUS
  <2> QED
    BY <2>1 DEF Contents
<1>3. x \in Contents(Append(s, x))
  <2>1. Len(s) + 1 \in 1..Len(Append(s, x)) /\ Append(s, x)[Len(s) + 1] = x
    OBVIOUS
  <2> QED
    BY <2>1 DEF Contents
<1> QED
  BY <1>1, <1>2, <1>3

(* An empty queue holds nothing.                                            *)
LEMMA ContentsEmpty == Contents(<< >>) = {}
BY DEF Contents

(* A queue of tasks does not hold None.                                     *)
LEMMA ContentsTasks == \A s \in Seq(Tasks) : None \notin Contents(s)
BY NoneAssumption DEF Contents

LEMMA ListsStep == TypeInv /\ ListsInv /\ [Next]_vars => ListsInv'
<1> SUFFICES ASSUME TypeInv, ListsInv, [Next]_vars PROVE ListsInv'
  OBVIOUS
<1> USE DEF ListsInv, ContentsOnce, ListsDisjoint
<1>0. /\ queue_ \in Seq(Tasks) /\ accepted \in Seq(Tasks)
      /\ arg \in [Threads -> Tasks \cup {None}]
      /\ list \in [Threads -> Seq(Tasks)]
      /\ None \notin Contents(accepted)
  BY ContentsTasks DEF TypeInv, TypeOK
<1>1. ASSUME NEW t \in Threads, NEW x \in Tasks, Put(t, x) PROVE ListsInv'
  <2>1. x \notin Contents(accepted) /\ \A u \in Threads : arg[u] # x
    BY <1>1 DEF Put, Fresh
  <2>2. UNCHANGED << Contents(queue_), Contents(accepted), list >>
    BY <1>1 DEF Put
  <2>3. arg'[t] = x /\ \A u \in Threads : u # t => arg'[u] = arg[u]
    BY <1>0, <1>1 DEF Put
  <2> QED
    BY <1>1, <2>1, <2>2, <2>3 DEF Put
<1>2. ASSUME NEW t \in Threads, AddPush(t) PROVE ListsInv'
  <2>1. arg[t] \in Tasks /\ arg[t] # None
    BY <1>2, NoneAssumption DEF TypeInv, CallOK, AddPush, InAdd
  <2>2. /\ Contents(queue_') = Contents(queue_) \cup {arg[t]}
        /\ Contents(accepted') = Contents(accepted) \cup {arg[t]}
    BY <1>0, <1>2, <2>1, ContentsAppend DEF AddPush, PushBack
  <2>3. arg'[t] = None /\ \A u \in Threads : u # t => arg'[u] = arg[u]
    BY <1>0, <1>2 DEF AddPush, ReturnFromAdd
  <2>4. list' = list
    BY <1>2 DEF AddPush
  <2>5. ContentsOnce'
    BY <1>0, <2>1, <2>2, <2>3, <2>4
  <2>6. ListsDisjoint'
    BY <2>2, <2>4
  <2> QED
    BY <2>5, <2>6
<1>3. ASSUME NEW t \in Threads, AddStopped(t) PROVE ListsInv'
  <2>1. arg'[t] = None /\ \A u \in Threads : u # t => arg'[u] = arg[u]
    BY <1>0, <1>3 DEF AddStopped, ReturnFromAdd
  <2> QED
    BY <1>0, <1>3, <2>1 DEF AddStopped
<1>4. ASSUME NEW t \in Threads, Take(t) PROVE ListsInv'
  <2>1. /\ list'[t] = << >> /\ \A u \in Threads : u # t => list'[u] = list[u]
        /\ UNCHANGED << queue_, accepted, arg >>
    BY <1>0, <1>4 DEF Take
  <2> QED
    BY <2>1, ContentsEmpty
<1>5. ASSUME NEW t \in Threads, TakeSwap(t) PROVE ListsInv'
  <2>1. /\ list'[t] = queue_ /\ \A u \in Threads : u # t => list'[u] = list[u]
        /\ queue_' = << >>
        /\ UNCHANGED << accepted, arg >>
    BY <1>0, <1>5
       DEF TakeSwap, TakeAll, Swap, InTake, TypeInv, CallOK
  <2> QED
    BY <2>1, ContentsEmpty
<1>6. ASSUME UNCHANGED << queue_, accepted, arg, list >> PROVE ListsInv'
  BY <1>6
<1> QED
  BY <1>1, <1>2, <1>3, <1>4, <1>5, <1>6
     DEF Next, Enter, Proceed, vars, AddBlock, TakeBlock, TakeStopped, Stop,
         StopSet, StopNotifyFull, StopNotifyEmpty, StopStep, Spurious

(* Two consumers never hold the same element, and none holds a queued one.  *)
THEOREM ListsHolds == Spec => []ListsDisjoint
<1>1. Init => ListsInv
  BY ContentsEmpty DEF Init, ListsInv, ContentsOnce, ListsDisjoint
<1>2. ListsInv => ListsDisjoint
  BY DEF ListsInv
<1> QED
  BY TypeInvInit, TypeInvStep, ListsStep, <1>1, <1>2, PTL DEF Spec

-----------------------------------------------------------------------------
(* The queue of include.bak, whose Take notifies one producer only: what is *)
(* said of elements, of consumers and of Stop holds of it too.              *)

BakInv ==
  TypeInv /\ Bounded /\ FifoExactlyOnce /\ ListsInv /\ BacklogHasTaker
    /\ StopReachesWaiters

LEMMA BakSteps == NextBak => Next \/ \E t \in Threads : TakeSwapBak(t)
BY DEF NextBak, ProceedBak, Next, Proceed

LEMMA TakeSwapBakKeeps ==
  ASSUME BakInv, NEW t \in Threads, TakeSwapBak(t)
  PROVE  BakInv'
<1> USE DEF BakInv
<1>0. /\ list[t] = << >> /\ queue_ \in Seq(Tasks) /\ ~need_stop_
      /\ drained \in Seq(Tasks) /\ list \in [Threads -> Seq(Tasks)]
      /\ not_full_' \subseteq not_full_ /\ t \notin not_empty_
  BY NotifyOneRemoves
     DEF TakeSwapBak, NotifyOneProducer, TakeAll, InTake, TypeInv, TypeOK, CallOK
<1>1. /\ list'[t] = queue_ /\ queue_' = << >> /\ drained' = drained \o queue_
      /\ \A u \in Threads : u # t => list'[u] = list[u]
      /\ list' \in [Threads -> Seq(Tasks)]
      /\ UNCHANGED << accepted, arg, refused, need_stop_, not_empty_ >>
  BY <1>0 DEF TakeSwapBak, TakeAll, Swap
<1>2. call[t] = "take" /\ call' = [call EXCEPT ![t] = "none"]
  BY DEF TakeSwapBak, TakeAll, InTake
<1>3. TypeInv'
  <2>1. << >> \in Seq(Tasks) /\ drained \o queue_ \in Seq(Tasks)
    BY <1>0
  <2> QED
    BY <1>0, <1>1, <1>2, <2>1 DEF TypeInv, TypeOK, CallOK, Calls
<1>4. Bounded'
  BY <1>1, MaxSizeAssumption DEF Bounded
<1>5. FifoExactlyOnce'
  <2>1. drained \o queue_ \in Seq(Tasks)
    BY <1>0
  <2> QED
    BY <1>1, <2>1, ConcatEmpty DEF FifoExactlyOnce
<1>6. ListsInv'
  BY <1>1, ContentsEmpty DEF ListsInv, ContentsOnce, ListsDisjoint
<1>7. BacklogHasTaker' /\ StopReachesWaiters'
  BY <1>0, <1>1 DEF BacklogHasTaker, NotEmpty, StopReachesWaiters
<1> QED
  BY <1>3, <1>4, <1>5, <1>6, <1>7

(* Every step keeps it.                                                     *)
LEMMA BakInvStep == BakInv /\ [Next \/ NextBak]_vars => BakInv'
BY BakSteps, TakeSwapBakKeeps, TypeInvStep, BoundedStep, FifoStep, ListsStep,
   BacklogStep, StopReachesStep DEF BakInv

(* The invariant holds at first.                                            *)
LEMMA InvsInit == Init => BakInv
<1> SUFFICES ASSUME Init PROVE BakInv
  OBVIOUS
<1>1. Bounded /\ FifoExactlyOnce
  BY MaxSizeAssumption DEF Init, Bounded, FifoExactlyOnce
<1>2. ListsInv
  BY ContentsEmpty DEF Init, ListsInv, ContentsOnce, ListsDisjoint
<1>3. BacklogHasTaker /\ StopReachesWaiters
  BY DEF Init, BacklogHasTaker, NotEmpty, StopReachesWaiters
<1> QED
  BY TypeInvInit, <1>1, <1>2, <1>3 DEF BakInv

(* One notification is enough for all of this, and only what producers wait *)
(* for is lost: the queue of include.bak is bounded, first in first out,    *)
(* and wakes its consumers and those who wait when it is stopped.           *)
THEOREM BakHolds ==
  FairSpecBak => []( /\ TypeOK /\ Capacity /\ FifoExactlyOnce
                     /\ ListsDisjoint /\ BacklogHasTaker /\ StopReachesWaiters )
<1>1. BakInv => /\ TypeOK /\ Capacity /\ FifoExactlyOnce
                /\ ListsDisjoint /\ BacklogHasTaker /\ StopReachesWaiters
  BY MaxSizeAssumption
     DEF BakInv, TypeInv, TypeOK, Bounded, Capacity, Full, NotFull, ListsInv
<1> QED
  BY InvsInit, BakInvStep, <1>1, PTL DEF FairSpecBak

=============================================================================
