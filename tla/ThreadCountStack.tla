-------------------------- MODULE ThreadCountStack --------------------------
(***************************************************************************)
(* LockFreeStackUseThreadCount of include/atomic_stack_use_thread_count.h: *)
(* a stack of linked nodes whose memory is reclaimed by counting the       *)
(* threads in pop.  A popped node is deleted at once by a thread that is   *)
(* alone in pop; any other goes to the list to_be_deleted, which a thread  *)
(* that finds itself alone claims, and deletes if it is alone still.       *)
(*                                                                         *)
(* One action is one operation on an atomic, with the accesses to the      *)
(* thread's own variables and to node fields nobody else writes around it. *)
(* to_be_deleted is only added to and taken whole, so it is a set, and     *)
(* adding to it is one step.  A deleted node's address may be allocated    *)
(* again at once.  Memory is sequentially consistent, as the default       *)
(* orders of the code make it, and the atomics start as zero (static       *)
(* storage).                                                               *)
(***************************************************************************)
EXTENDS Naturals, Sequences, FiniteSets

CONSTANTS
  Threads,
  Nodes,    \* the addresses new may return
  Values,   \* the elements pushed, each at most once
  Null,     \* the null pointer; also a moved-from data
  MaxPops   \* bound: how many pops are called

VARIABLES
  head, next, data,  \* the stack: its top, and the fields of each node
  alive,             \* the nodes allocated and not deleted
  to_be_deleted,     \* the nodes whose deletion was put off
  threads_in_pop,
  pc, old,           \* the place of each thread; its new_node or old_head
  claimed,           \* its nodes_to_delete
  pops,              \* how many pops were called
  out, empties,      \* history: the elements popped, the pops of nothing
  process            \* "up", or "crashed" on a null pointer

stack == << head, next, data >>
reclaim == << alive, to_be_deleted, claimed >>
history == << pops, out, empties >>
vars == << stack, reclaim, threads_in_pop, pc, old, history, process >>

Fresh == Values \ ({ data[n] : n \in alive } \cup out)

Goto(t, place) == pc' = [pc EXCEPT ![t] = place]

Init ==
  /\ head = Null
  /\ next = [n \in Nodes |-> Null] /\ data = [n \in Nodes |-> Null]
  /\ alive = {} /\ to_be_deleted = {}
  /\ threads_in_pop = 0
  /\ pc = [t \in Threads |-> "idle"]
  /\ old = [t \in Threads |-> Null]
  /\ claimed = [t \in Threads |-> {}]
  /\ pops = 0 /\ out = {} /\ empties = 0
  /\ process = "up"

-----------------------------------------------------------------------------
(* push. *)

Push(t, x, n) ==
  /\ pc[t] = "idle"
  /\ x \in Fresh
  /\ n \in Nodes \ alive
  /\ alive' = alive \cup {n}
  /\ data' = [data EXCEPT ![n] = x]
  /\ next' = [next EXCEPT ![n] = head]
  /\ old' = [old EXCEPT ![t] = n]
  /\ Goto(t, "push")
  /\ UNCHANGED << head, to_be_deleted, claimed, threads_in_pop, history, process >>

PushExpected(t) == head = next[old[t]]

PushLink(t) ==
  /\ pc[t] = "push" /\ PushExpected(t)
  /\ head' = old[t]
  /\ Goto(t, "idle")
  /\ UNCHANGED << next, data, reclaim, threads_in_pop, old, history, process >>

PushRetry(t) ==
  /\ pc[t] = "push" /\ ~PushExpected(t)
  /\ next' = [next EXCEPT ![old[t]] = head]
  /\ UNCHANGED << head, data, reclaim, threads_in_pop, pc, old, history, process >>

-----------------------------------------------------------------------------
(* pop. *)

Pop(t) ==
  /\ pc[t] = "idle" /\ pops < MaxPops
  /\ pops' = pops + 1
  /\ threads_in_pop' = threads_in_pop + 1
  /\ Goto(t, "load")
  /\ UNCHANGED << stack, reclaim, old, out, empties, process >>

HeadIsNull == head = Null

(* A load of head, by load() or by an exchange that fails. *)
Load(t) ==
  /\ \/ pc[t] = "load"
     \/ pc[t] = "swing" /\ head # old[t]
  /\ old' = [old EXCEPT ![t] = head]
  /\ empties' = IF HeadIsNull THEN empties + 1 ELSE empties
  /\ Goto(t, IF HeadIsNull THEN "check" ELSE "swing")
  /\ UNCHANGED << stack, reclaim, threads_in_pop, pops, out, process >>

Swing(t) ==
  /\ pc[t] = "swing" /\ head = old[t]
  /\ head' = next[old[t]]
  /\ out' = out \cup {data[old[t]]}
  /\ data' = [data EXCEPT ![old[t]] = Null]
  /\ Goto(t, "check")
  /\ UNCHANGED << next, reclaim, threads_in_pop, old, pops, empties, process >>

-----------------------------------------------------------------------------
(* try_reclaim. *)

Check(t) ==
  /\ pc[t] = "check"
  /\ Goto(t, IF threads_in_pop = 1 THEN "claim" ELSE "chain")
  /\ UNCHANGED << stack, reclaim, threads_in_pop, old, history, process >>

ClearList == to_be_deleted' = {}

Claim(t) ==
  /\ pc[t] = "claim"
  /\ claimed' = [claimed EXCEPT ![t] = to_be_deleted]
  /\ ClearList
  /\ Goto(t, "leave")
  /\ UNCHANGED << stack, alive, threads_in_pop, old, history, process >>

(* Slip: the count is not looked at again. *)
AloneAnyway == TRUE

StillAlone == threads_in_pop = 1

UncountSelf == threads_in_pop' = threads_in_pop - 1

Leave(t) ==
  /\ pc[t] = "leave"
  /\ UncountSelf
  /\ Goto(t, IF StillAlone \/ claimed[t] = {} THEN "delete" ELSE "rechain")
  /\ UNCHANGED << stack, reclaim, old, history, process >>

(* delete_nodes, then the popped node. *)
DeleteClaimed(t, n) ==
  /\ pc[t] = "delete" /\ n \in claimed[t]
  /\ alive' = alive \ {n}
  /\ claimed' = [claimed EXCEPT ![t] = @ \ {n}]
  /\ UNCHANGED << stack, to_be_deleted, threads_in_pop, pc, old, history, process >>

DeletePopped(t) ==
  /\ pc[t] = "delete" /\ claimed[t] = {}
  /\ alive' = alive \ {old[t]}
  /\ Goto(t, "idle")
  /\ UNCHANGED << stack, to_be_deleted, claimed, threads_in_pop, old, history,
                  process >>

(* chain_pending_nodes. *)
Rechain(t) ==
  /\ pc[t] = "rechain"
  /\ to_be_deleted' = to_be_deleted \cup claimed[t]
  /\ claimed' = [claimed EXCEPT ![t] = {}]
  /\ Goto(t, "delete")
  /\ UNCHANGED << stack, alive, threads_in_pop, old, history, process >>

(* chain_pending_node, which writes the next of the popped node. *)
Chain(t) ==
  /\ pc[t] = "chain" /\ old[t] # Null
  /\ to_be_deleted' = to_be_deleted \cup {old[t]}
  /\ Goto(t, "uncount")
  /\ UNCHANGED << stack, alive, claimed, threads_in_pop, old, history, process >>

ChainNull(t) ==
  /\ pc[t] = "chain" /\ old[t] = Null
  /\ process' = "crashed"
  /\ UNCHANGED << stack, reclaim, threads_in_pop, pc, old, history >>

Uncount(t) ==
  /\ pc[t] = "uncount"
  /\ UncountSelf
  /\ Goto(t, "idle")
  /\ UNCHANGED << stack, reclaim, old, history, process >>

Next ==
  /\ process = "up"
  /\ \E t \in Threads :
       \/ \E x \in Values, n \in Nodes : Push(t, x, n)
       \/ PushLink(t) \/ PushRetry(t)
       \/ Pop(t) \/ Load(t) \/ Swing(t)
       \/ Check(t) \/ Claim(t) \/ Leave(t)
       \/ (\E n \in Nodes : DeleteClaimed(t, n)) \/ DeletePopped(t)
       \/ Rechain(t) \/ Chain(t) \/ ChainNull(t) \/ Uncount(t)

Spec == Init /\ [][Next]_vars

-----------------------------------------------------------------------------
(* The nodes linked from head, the top first. *)
Path == LET p[k \in 0..Cardinality(Nodes)] ==
              IF k = 0 THEN head
              ELSE IF p[k - 1] = Null THEN Null ELSE next[p[k - 1]]
        IN  p

Linked == { Path[k] : k \in 0..Cardinality(Nodes) } \ {Null}

Elements == [ k \in 1..Cardinality(Linked) |-> data[Path[k - 1]] ]

(* The threads that threads_in_pop counts. *)
Popping == { t \in Threads :
  pc[t] \in {"load", "swing", "check", "claim", "leave", "chain", "uncount"} }

(* The nodes a thread alone has to dispose of. *)
Owned(t) ==
  claimed[t] \cup
    IF pc[t] \in {"push", "check", "claim", "leave", "delete", "rechain", "chain"}
    THEN {old[t]} \ {Null} ELSE {}

Lifo == INSTANCE LifoStack WITH stack <- Elements

-----------------------------------------------------------------------------
(* Properties. *)

(* Type invariant.  A thread that dereferences old has a node there, except *)
(* that chain_pending_node may get the null of a pop of nothing.            *)
TypeOK ==
  /\ head \in Nodes \cup {Null}
  /\ next \in [Nodes -> Nodes \cup {Null}]
  /\ data \in [Nodes -> Values \cup {Null}]
  /\ alive \subseteq Nodes /\ to_be_deleted \subseteq Nodes
  /\ threads_in_pop \in Nat
  /\ pc \in [Threads -> {"idle", "push", "load", "swing", "check", "claim",
                         "leave", "delete", "rechain", "chain", "uncount"}]
  /\ old \in [Threads -> Nodes \cup {Null}]
  /\ claimed \in [Threads -> SUBSET Nodes]
  /\ pops \in 0..MaxPops /\ empties \in 0..MaxPops
  /\ out \subseteq Values
  /\ process \in {"up", "crashed"}
  /\ \A t \in Threads : pc[t] \in {"push", "swing"} => old[t] \in Nodes

(* No node is deleted while it is in the stack, while a thread is about to  *)
(* dereference it, or while another has it to dispose of.                   *)
NoUseAfterDelete ==
  /\ Linked \cup to_be_deleted \subseteq alive
  /\ \A t \in Threads :
       /\ pc[t] = "swing" => old[t] \in alive
       /\ Owned(t) \subseteq alive

(* threads_in_pop counts the threads that may hold a node in old_head, so   *)
(* that a pop without company never takes the way of chain_pending_node.    *)
CountsThreads == threads_in_pop = Cardinality(Popping)

(* No node has two threads to delete it, and no allocated node has none: it *)
(* is in the stack, on the list, or with exactly one thread.                *)
OneOwner ==
  \A n \in alive :
    Cardinality({ t \in Threads : n \in Owned(t) })
      + (IF n \in Linked THEN 1 ELSE 0)
      + (IF n \in to_be_deleted THEN 1 ELSE 0) = 1

(* The stack is linearizable.                                               *)
ImplementsLifo == Lifo!Spec

=============================================================================
