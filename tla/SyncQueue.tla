----------------------------- MODULE SyncQueue -----------------------------
(***************************************************************************)
(* The bounded blocking queue of include/sync_queue.hpp.                   *)
(*                                                                         *)
(* One action is one critical section of mutex_: a thread that has called  *)
(* Put, Take or Stop locks, evaluates the predicate of its wait, and       *)
(* either blocks (releasing the mutex atomically) or runs the rest of the  *)
(* section.  A thread removed from a waiter set has been notified and      *)
(* evaluates its predicate again the next time it gets the mutex, which is *)
(* what condition_variable::wait(lock, pred) does.  Stop() is not one      *)
(* section: it sets need_stop_ under the mutex, releases it, and only then *)
(* notifies the two condition variables, so it is three actions.           *)
(***************************************************************************)
EXTENDS Naturals, Sequences

CONSTANTS
  Threads,   \* the threads that call the queue
  Tasks,     \* the elements put in the queue, each put at most once
  MaxSize,   \* max_size_
  None       \* the argument of a thread that is not in Put

ASSUME MaxSizeAssumption == MaxSize \in Nat
ASSUME NoneAssumption == None \notin Tasks

VARIABLES
  queue_,       \* std::list<T> queue_
  need_stop_,   \* bool need_stop_
  not_full_,    \* the threads blocked in not_full_.wait
  not_empty_,   \* the threads blocked in not_empty_.wait
  call,         \* the operation each thread is in, "none" outside the queue
  arg,          \* the element a thread in Put carries
  list,         \* the list a thread passed to its last Take
  accepted,     \* history: the elements pushed, in the order of the pushes
  drained,      \* history: the elements taken, in the order of the takes
  refused       \* history: the elements Put dropped because of need_stop_

contents == << queue_, accepted, drained, refused >>
waits == << not_full_, not_empty_ >>
callers == << call, arg, list >>
vars == << contents, need_stop_, waits, callers >>

Calls == {"none", "add", "take", "stop", "stopFull", "stopEmpty"}

Contents(s) == { s[i] : i \in 1..Len(s) }

(* The elements no Put has been called with yet. *)
Fresh == Tasks \ (Contents(accepted) \cup refused
                    \cup { arg[t] : t \in Threads })

(* Slip: the bound is off by one. *)
NotFullOffByOne == Len(queue_) <= MaxSize

NotFull == Len(queue_) < MaxSize
NotEmpty == queue_ # << >>
Full == Len(queue_) = MaxSize

(* The possible waiter sets after notify_one: any one waiter is released. *)
NotifyOne(W) == IF W = {} THEN {W} ELSE { W \ {w} : w \in W }

Init ==
  /\ queue_ = << >> /\ need_stop_ = FALSE
  /\ not_full_ = {} /\ not_empty_ = {}
  /\ call = [t \in Threads |-> "none"]
  /\ arg = [t \in Threads |-> None]
  /\ list = [t \in Threads |-> << >>]
  /\ accepted = << >> /\ drained = << >> /\ refused = {}

-----------------------------------------------------------------------------
(* Put, both overloads: Add(x). *)

Put(t, x) ==
  /\ call[t] = "none"
  /\ x \in Fresh
  /\ call' = [call EXCEPT ![t] = "add"]
  /\ arg' = [arg EXCEPT ![t] = x]
  /\ UNCHANGED << contents, need_stop_, waits, list >>

(* Slip: a thread goes on that is still asleep. *)
InAddAsleep(t) == call[t] = "add"

InAdd(t) == call[t] = "add" /\ t \notin not_full_

ReturnFromAdd(t) ==
  /\ call' = [call EXCEPT ![t] = "none"]
  /\ arg' = [arg EXCEPT ![t] = None]

AddBlock(t) ==
  /\ InAdd(t)
  /\ ~need_stop_ /\ ~NotFull
  /\ not_full_' = not_full_ \cup {t}
  /\ UNCHANGED << contents, need_stop_, not_empty_, callers >>

(* Slip: the element goes to the front. *)
PushFront(x) == queue_' = << x >> \o queue_

PushBack(x) == queue_' = Append(queue_, x)

(* Slip: no consumer is notified. *)
NotifyNoConsumer == UNCHANGED not_empty_

NotifyConsumer == not_empty_' \in NotifyOne(not_empty_)

AddPush(t) ==
  /\ InAdd(t)
  /\ ~need_stop_ /\ NotFull
  /\ PushBack(arg[t])
  /\ accepted' = Append(accepted, arg[t])
  /\ NotifyConsumer
  /\ ReturnFromAdd(t)
  /\ UNCHANGED << need_stop_, not_full_, list, drained, refused >>

AddStopped(t) ==
  /\ InAdd(t)
  /\ need_stop_
  /\ refused' = refused \cup {arg[t]}
  /\ ReturnFromAdd(t)
  /\ UNCHANGED << queue_, accepted, drained, need_stop_, waits, list >>

-----------------------------------------------------------------------------
(* Take(std::list<T>&), called with an empty list.  Take(T&) calls pop() on *)
(* a std::list and cannot be instantiated.                                  *)

Take(t) ==
  /\ call[t] = "none"
  /\ call' = [call EXCEPT ![t] = "take"]
  /\ list' = [list EXCEPT ![t] = << >>]
  /\ UNCHANGED << contents, need_stop_, waits, arg >>

InTake(t) == call[t] = "take" /\ t \notin not_empty_

(* Slip: the wait's predicate is NotEmpty() alone. *)
NothingToTakeDeaf == ~NotEmpty

NothingToTake == ~need_stop_ /\ ~NotEmpty

TakeBlock(t) ==
  /\ InTake(t)
  /\ NothingToTake
  /\ not_empty_' = not_empty_ \cup {t}
  /\ UNCHANGED << contents, need_stop_, not_full_, callers >>

(* Slip: the queue is copied into the list and not emptied. *)
SwapCopy(t) == list' = [list EXCEPT ![t] = queue_] /\ UNCHANGED queue_

Swap(t) == list' = [list EXCEPT ![t] = queue_] /\ queue_' = list[t]

(* Slips: one producer is notified, or none, after the queue was emptied. *)
NotifyOneProducer == not_full_' \in NotifyOne(not_full_)
NotifyNoProducer == UNCHANGED not_full_

NotifyProducers == not_full_' = {}

TakeAll(t) ==
  /\ InTake(t)
  /\ ~need_stop_ /\ NotEmpty
  /\ Swap(t)
  /\ drained' = drained \o queue_
  /\ call' = [call EXCEPT ![t] = "none"]
  /\ UNCHANGED << need_stop_, not_empty_, arg, accepted, refused >>

TakeSwap(t) == TakeAll(t) /\ NotifyProducers

TakeStopped(t) ==
  /\ InTake(t)
  /\ need_stop_
  /\ call' = [call EXCEPT ![t] = "none"]
  /\ UNCHANGED << contents, need_stop_, waits, arg, list >>

-----------------------------------------------------------------------------
(* Stop(). *)

StopStep(t, from, to) ==
  /\ call[t] = from
  /\ call' = [call EXCEPT ![t] = to]
  /\ UNCHANGED << contents, arg, list >>

Stop(t) == StopStep(t, "none", "stop") /\ UNCHANGED << need_stop_, waits >>

StopSet(t) ==
  StopStep(t, "stop", "stopFull") /\ need_stop_' = TRUE /\ UNCHANGED waits

(* Slip: Stop releases one producer only. *)
StopNotifyFullOne(t) ==
  /\ StopStep(t, "stopFull", "stopEmpty") /\ not_full_' \in NotifyOne(not_full_)
  /\ UNCHANGED << need_stop_, not_empty_ >>

StopNotifyFull(t) ==
  /\ StopStep(t, "stopFull", "stopEmpty") /\ not_full_' = {}
  /\ UNCHANGED << need_stop_, not_empty_ >>

StopNotifyEmpty(t) ==
  /\ StopStep(t, "stopEmpty", "none") /\ not_empty_' = {}
  /\ UNCHANGED << need_stop_, not_full_ >>

-----------------------------------------------------------------------------
(* A wait may return without a notification. *)
Spurious(t) ==
  /\ t \in not_full_ \cup not_empty_
  /\ not_full_' = not_full_ \ {t}
  /\ not_empty_' = not_empty_ \ {t}
  /\ UNCHANGED << contents, need_stop_, callers >>

(* A thread outside the queue calls one of its operations. *)
Enter(t) == (\E x \in Tasks : Put(t, x)) \/ Take(t) \/ Stop(t)

(* A thread inside an operation runs its next critical section. *)
Proceed(t) ==
  \/ AddBlock(t) \/ AddPush(t) \/ AddStopped(t)
  \/ TakeBlock(t) \/ TakeSwap(t) \/ TakeStopped(t)
  \/ StopSet(t) \/ StopNotifyFull(t) \/ StopNotifyEmpty(t)

Next == \E t \in Threads : Enter(t) \/ Proceed(t) \/ Spurious(t)

Spec == Init /\ [][Next]_vars

(* A thread that can run a critical section gets the mutex in the end.     *)
(* Nothing obliges a client to call the queue.                             *)
FairSpec == Spec /\ \A t \in Threads : WF_vars(Proceed(t))

-----------------------------------------------------------------------------
(* include.bak/sync_queue.hpp: Take moves the whole queue out but notifies  *)
(* a single producer.                                                       *)

TakeSwapBak(t) == TakeAll(t) /\ NotifyOneProducer

ProceedBak(t) ==
  \/ AddBlock(t) \/ AddPush(t) \/ AddStopped(t)
  \/ TakeBlock(t) \/ TakeSwapBak(t) \/ TakeStopped(t)
  \/ StopSet(t) \/ StopNotifyFull(t) \/ StopNotifyEmpty(t)

NextBak == \E t \in Threads : Enter(t) \/ ProceedBak(t) \/ Spurious(t)

FairSpecBak ==
  /\ Init /\ [][NextBak]_vars
  /\ \A t \in Threads : WF_vars(ProceedBak(t))

-----------------------------------------------------------------------------
(* Properties. *)

(* Type invariant.  A thread waits on not_full_ only inside Put and on      *)
(* not_empty_ only inside Take.                                             *)
TypeOK ==
  /\ queue_ \in Seq(Tasks)
  /\ need_stop_ \in BOOLEAN
  /\ not_full_ \subseteq { t \in Threads : call[t] = "add" }
  /\ not_empty_ \subseteq { t \in Threads : call[t] = "take" }
  /\ call \in [Threads -> Calls]
  /\ arg \in [Threads -> Tasks \cup {None}]
  /\ list \in [Threads -> Seq(Tasks)]
  /\ accepted \in Seq(Tasks)
  /\ drained \in Seq(Tasks)
  /\ refused \subseteq Tasks

(* Put never overfills the queue, whoever slipped in between the            *)
(* notification of a blocked producer and its return from the wait; so      *)
(* Full(), which tests equality, agrees with NotFull(), which tests order.  *)
Capacity == Full <=> ~NotFull

(* The queue is first in, first out and loses, duplicates and reorders      *)
(* nothing: what was pushed is what was taken followed by what is queued.   *)
FifoExactlyOnce == accepted = drained \o queue_

(* Two consumers never hold the same element, and none holds a queued one.  *)
ListsDisjoint ==
  /\ \A t, u \in Threads : t # u => Contents(list[t]) \cap Contents(list[u]) = {}
  /\ \A t \in Threads : Contents(list[t]) \cap Contents(queue_) = {}

(* Until the queue is stopped, a producer stays blocked only while there is *)
(* no room: Take, which makes room for all, releases all of them.           *)
ProducersBlockOnlyWhenFull ==
  ~need_stop_ /\ not_full_ # {} => ~NotFull

(* No lost wakeup: while elements are queued and a consumer is blocked,     *)
(* another consumer is awake and about to take them.                        *)
BacklogHasTaker ==
  ~need_stop_ /\ NotEmpty /\ not_empty_ # {} => \E t \in Threads : InTake(t)

(* Stop() notifies after it releases the mutex; a thread still blocked once *)
(* need_stop_ is set is one that a Stop() in progress has yet to notify.    *)
StopReachesWaiters ==
  need_stop_ =>
    /\ not_full_ # {} => \E t \in Threads : call[t] = "stopFull"
    /\ not_empty_ # {} =>
         \E t \in Threads : call[t] \in {"stopFull", "stopEmpty"}

(* Once the queue is stopped, every call in progress returns.               *)
StopReleases ==
  \A t \in Threads : need_stop_ /\ call[t] # "none" ~> call[t] = "none"

(* Put waits until there is room and no longer: no call of Put lasts for    *)
(* ever while there is room.                                                *)
PutWaitsForRoomOnly ==
  \A t \in Threads : ~<>[](call[t] = "add" /\ NotFull /\ ~need_stop_)

=============================================================================
