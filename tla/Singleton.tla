----------------------------- MODULE Singleton -----------------------------
(***************************************************************************)
(* Singleton<T> of include/singleton.hpp: the static pointer instance_ and *)
(* the three functions that use it without a lock.  One action is one      *)
(* access to instance_, or the construction or destruction of an object;   *)
(* every reader sees the last value written.  Which threads call which     *)
(* function is a parameter.                                                *)
(***************************************************************************)
EXTENDS Naturals, FiniteSets

CONSTANTS
  Threads,
  Creators,    \* the threads that call Instance
  Destroyers,  \* the threads that call DestroyInstance
  Objects,     \* the objects new may make, each once
  Null

VARIABLES
  instance,    \* instance_
  alive,       \* the objects constructed and not deleted
  deleted,     \* the objects deleted
  pc,
  mine         \* what each thread made, is about to delete, or was given

vars == << instance, alive, deleted, pc, mine >>

Init ==
  /\ instance = Null
  /\ alive = {} /\ deleted = {}
  /\ pc = [t \in Threads |-> "idle"]
  /\ mine = [t \in Threads |-> Null]

Move(t, from, to) == pc[t] = from /\ pc' = [pc EXCEPT ![t] = to]

(* The reads of instance_ in the three conditions. *)
Call(t, place) ==
  /\ Move(t, "idle", place)
  /\ UNCHANGED << instance, alive, deleted, mine >>

Missing == instance = Null

InstanceCall(t) ==
  /\ t \in Creators
  /\ Call(t, IF Missing THEN "create" ELSE "return")

GetInstance(t) == instance # Null /\ Call(t, "return")

DestroyInstance(t) ==
  /\ t \in Destroyers /\ instance # Null
  /\ Call(t, "delete")

Create(t, o) ==
  /\ Move(t, "create", "publish")
  /\ o \in Objects \ (alive \cup deleted)
  /\ alive' = alive \cup {o}
  /\ mine' = [mine EXCEPT ![t] = o]
  /\ UNCHANGED << instance, deleted >>

Publish(t) ==
  /\ Move(t, "publish", "return")
  /\ instance' = mine[t]
  /\ UNCHANGED << alive, deleted, mine >>

(* return instance_ reads the pointer again. *)
Return(t) ==
  /\ Move(t, "return", "idle")
  /\ mine' = [mine EXCEPT ![t] = instance]
  /\ UNCHANGED << instance, alive, deleted >>

(* delete instance_ reads it again too; the delete of null does nothing. *)
Doomed == {instance} \ {Null}

Delete(t) ==
  /\ Move(t, "delete", "clear")
  /\ alive' = alive \ Doomed
  /\ deleted' = deleted \cup Doomed
  /\ UNCHANGED << instance, mine >>

(* Slip: instance_ is not set to null after the delete. *)
NotCleared == instance

Cleared == Null

Clear(t) ==
  /\ Move(t, "clear", "idle")
  /\ instance' = Cleared
  /\ UNCHANGED << alive, deleted, mine >>

Next == \E t \in Threads :
  \/ InstanceCall(t) \/ GetInstance(t) \/ DestroyInstance(t)
  \/ \E o \in Objects : Create(t, o)
  \/ Publish(t) \/ Return(t) \/ Delete(t) \/ Clear(t)

Spec == Init /\ [][Next]_vars

-----------------------------------------------------------------------------
(* Properties. *)

(* Type invariant. *)
TypeOK ==
  /\ instance \in Objects \cup {Null}
  /\ alive \subseteq Objects /\ deleted \subseteq Objects
  /\ pc \in [Threads ->
       {"idle", "create", "publish", "return", "delete", "clear"}]
  /\ mine \in [Threads -> Objects \cup {Null}]

(* There is never a second object, neither of two callers of Instance nor   *)
(* of one that calls again while others read.                               *)
OneObject == Cardinality(alive) <= 1

(* instance_ points to a live object except between the delete and the      *)
(* assignment in DestroyInstance.                                           *)
NeverDangles == instance # Null =>
  instance \in alive \/ \E t \in Threads : pc[t] = "clear"

(* The creator, which alone may destroy, is never given null or an object   *)
(* that is gone, whatever the readers do.                                   *)
CreatorGetsLive == [][ \A t \in Creators \cap Destroyers :
  pc[t] = "return" /\ pc'[t] = "idle" => mine'[t] \in alive ]_vars

(* DestroyInstance destroys the singleton: when no call is in progress and  *)
(* instance_ is null, no object is left (singleton.hpp:23).                 *)
DestroyedForGood ==
  (\A t \in Threads : pc[t] = "idle") /\ instance = Null => alive = {}

=============================================================================
