----------------------------- MODULE TaskGroup -----------------------------
(***************************************************************************)
(* TaskGroup (with ParallelInvoke), WhenAll and WhenAny of                 *)
(* include/task_group.hpp: one caller starts tasks 1..n with std::async    *)
(* and collects their results; the destructors of the futures wait for     *)
(* what still runs.  std::async may defer a task to the caller's get().    *)
(***************************************************************************)
EXTENDS Naturals, FiniteSets

CONSTANT MaxTasks   \* bound: the length of the range

VARIABLES
  algo,     \* which function is called
  n,        \* how many tasks it is given
  valued,   \* "group": the tasks in group_, which return a value; the others
            \* are in void_group_
  fut,      \* each task's future: what has become of the task
  calls,    \* history: how often each task's function was called
  pc,       \* where the caller is
  got,      \* the tasks whose future the caller has got
  at        \* the task that is started or polled next; the result of "any"

vars == << algo, n, valued, fut, calls, pc, got, at >>

Tasks == 1..MaxTasks

Init ==
  /\ algo \in {"group", "all", "any"}
  /\ n \in 0..MaxTasks
  /\ valued \in SUBSET (1..n) /\ (algo # "group" => valued = {})
  /\ fut = [i \in Tasks |-> "none"] /\ calls = [i \in Tasks |-> 0]
  /\ pc = "start" /\ got = {} /\ at = 1

Set(i, s) == fut' = [fut EXCEPT ![i] = s]

Call(i) == calls' = [calls EXCEPT ![i] = @ + 1]

(* The implementation of std::async chooses between the two. *)
Async(i) == \E s \in {"async", "deferred"} : Set(i, s)

StartNext ==
  /\ pc = "start" /\ at <= n
  /\ Async(at)
  /\ at' = at + 1
  /\ UNCHANGED << algo, n, valued, calls, pc, got >>

Run == algo = "group" /\ StartNext
RunRange == algo = "all" /\ StartNext
TransForm == algo = "any" /\ StartNext

AllStarted ==
  /\ pc = "start" /\ at > n
  /\ pc' = "collect"
  /\ at' = 1
  /\ UNCHANGED << algo, n, valued, fut, calls, got >>

(* The thread of a task. *)
Begin(i) ==
  /\ fut[i] = "async"
  /\ Set(i, "running") /\ Call(i)
  /\ UNCHANGED << algo, n, valued, pc, got, at >>

Finish(i) ==
  /\ fut[i] = "running"
  /\ \E s \in {"value", "threw"} : Set(i, s)
  /\ UNCHANGED << algo, n, valued, calls, pc, got, at >>

(* group_ is gone through by type, then void_group_ in order; WhenAll goes  *)
(* through the range in order.                                              *)
Least(S) == { i \in S : \A j \in S : i <= j }

NextToGet ==
  IF valued \subseteq got THEN Least((1..n) \ got) ELSE valued \ got

(* get() throws what the task threw. *)
AfterGet(s) == IF s = "threw" THEN "unwind" ELSE "collect"

Get(i) ==
  /\ pc = "collect" /\ algo # "any"
  /\ i \in NextToGet
  /\ got' = got \cup {i}
  /\ UNCHANGED << algo, n, valued, at >>
  /\ \/ /\ fut[i] \in {"value", "threw"}
        /\ pc' = AfterGet(fut[i])
        /\ UNCHANGED << fut, calls >>
     \/ /\ fut[i] = "deferred"        \* get() calls the function itself
        /\ \E s \in {"value", "threw"} : Set(i, s) /\ pc' = AfterGet(s)
        /\ Call(i)

AllGot ==
  /\ pc = "collect" /\ algo # "any" /\ NextToGet = {}
  /\ pc' = "leave"
  /\ UNCHANGED << algo, n, valued, fut, calls, got, at >>

Ready(i) == fut[i] \in {"value", "threw"}

NextAt == (at % n) + 1

(* GetAnyResultPair asks one future after the other, round after round; a   *)
(* deferred task is never ready, and no task at all is polled for ever.     *)
Poll ==
  /\ pc = "collect" /\ algo = "any" /\ n > 0
  /\ IF Ready(at)
       THEN /\ got' = {at}
            /\ pc' = IF fut[at] = "threw" THEN "unwind" ELSE "leave"
            /\ at' = at
       ELSE /\ at' = NextAt
            /\ UNCHANGED << got, pc >>
  /\ UNCHANGED << algo, n, valued, fut, calls >>

(* Slip: a future that is destroyed does not wait. *)
LeftAlone(i) == TRUE

Ended(i) == fut[i] \notin {"async", "running"}

(* The futures are destroyed: the last one of a started task waits for it,  *)
(* that of a deferred one drops it.                                         *)
Leave ==
  /\ pc \in {"leave", "unwind"}
  /\ \A i \in 1..n : Ended(i)
  /\ pc' = IF pc = "leave" THEN "returned" ELSE "thrown"
  /\ UNCHANGED << algo, n, valued, fut, calls, got, at >>

Caller ==
  \/ Run \/ RunRange \/ TransForm \/ AllStarted \/ AllGot \/ Poll \/ Leave
  \/ \E i \in Tasks : Get(i)

Thread(i) == Begin(i) \/ Finish(i)

Next == Caller \/ \E i \in Tasks : Thread(i)

Spec == /\ Init /\ [][Next]_vars
        /\ WF_vars(Caller) /\ \A i \in Tasks : WF_vars(Thread(i))

-----------------------------------------------------------------------------
(* Properties. *)

(* Type invariant. *)
TypeOK ==
  /\ algo \in {"group", "all", "any"} /\ n \in 0..MaxTasks
  /\ valued \subseteq Tasks /\ got \subseteq Tasks
  /\ fut \in [Tasks -> {"none", "async", "deferred", "running", "value", "threw"}]
  /\ calls \in [Tasks -> 0..1]
  /\ pc \in {"start", "collect", "leave", "unwind", "returned", "thrown"}
  /\ at \in 1..(n + 1)

Over == pc \in {"returned", "thrown"}

(* No task runs on after the call, also when the call throws at the first   *)
(* exception with others still running, and when "any" has its result.      *)
NoTaskOutlivesCall ==
  Over => \A i \in 1..n : fut[i] \in {"value", "threw", "deferred"}

(* A group, or WhenAll, that returns has called every task once, and none   *)
(* of them threw.                                                           *)
ReturnsComplete ==
  pc = "returned" /\ algo # "any" => \A i \in 1..n : calls[i] = 1 /\ fut[i] = "value"

(* WhenAny returns, or throws, what a task brought that has ended, and the  *)
(* index of that task; it calls no task itself.                             *)
AnyNamesWinner == Over /\ algo = "any" =>
  /\ got = {at} /\ at \in 1..n
  /\ fut[at] = IF pc = "returned" THEN "value" ELSE "threw"
  /\ \A i \in 1..n : fut[i] = "deferred" => calls[i] = 0

(* The call comes to an end, unless WhenAny has no task with a thread.      *)
NothingToPoll ==
  algo = "any" /\ pc = "collect" /\ \A i \in 1..n : fut[i] = "deferred"

Terminates == <>(Over \/ NothingToPoll)

=============================================================================
