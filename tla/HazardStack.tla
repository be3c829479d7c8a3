---------------------------- MODULE HazardStack ----------------------------
(***************************************************************************)
(* LockFreeStackUseHarzardPointer of                                       *)
(* include/atomic_stack_use_harzard_pointer.h: a stack of linked nodes     *)
(* whose memory is reclaimed with hazard pointers.  A thread that pops     *)
(* announces the node it is about to dereference in a slot of its own; a   *)
(* popped node found in no slot is deleted, any other goes to a list that  *)
(* later pops go through.                                                  *)
(*                                                                         *)
(* One action is one operation on an atomic, with the accesses to the      *)
(* thread's own variables and to node fields nobody else writes around it. *)
(* The list of nodes to reclaim is only added to and taken whole, so it is *)
(* a set, and adding to it is one step.  A deleted node's address may be   *)
(* allocated again at once.  Memory is sequentially consistent, as the     *)
(* default orders of the code make it.                                     *)
(***************************************************************************)
EXTENDS Naturals, Sequences, FiniteSets

CONSTANTS
  Threads,
  Nodes,       \* the addresses new may return
  Values,      \* the elements pushed, each at most once
  Null,        \* the null pointer; also a moved-from data and the id of no thread
  MaxHazards,  \* max_hazard_pointers
  MaxPops,     \* bound: how many pops are called
  MaxExits     \* bound: how many threads end, each replaced by a new one

VARIABLES
  head, next, data,  \* the stack: its top, and the fields of each node
  alive,             \* the nodes allocated and not deleted
  id, pointer,       \* hazard_pointers: owner and announced node of each slot
  nodes_to_reclaim,  \* the nodes whose deletion was put off
  self,              \* the place and the variables of each thread
  pops, exits,       \* how many pops were called, how many threads ended
  out, empties       \* history: the elements popped, the pops of nothing

heap == << next, data, alive >>
hazards == << id, pointer >>
calls == << pops, exits >>
results == << out, empties >>
vars == << head, heap, hazards, nodes_to_reclaim, self, calls, results >>

Slots == 1..MaxHazards

Fresh == Values \ ({ data[n] : n \in alive } \cup out)

Init ==
  /\ head = Null
  /\ next = [n \in Nodes |-> Null] /\ data = [n \in Nodes |-> Null]
  /\ alive = {}
  /\ id = [s \in Slots |-> Null] /\ pointer = [s \in Slots |-> Null]
  /\ nodes_to_reclaim = {}
  /\ self = [t \in Threads |->
       [ pc |-> "idle",
         slot |-> 0,          \* the slot of its hp_owner, 0 before it has one
         i |-> 1,             \* the loop over the slots
         old |-> Null,        \* old_head in pop, new_node in push
         current |-> Null,    \* the node whose deletion is being decided
         mine |-> {} ] ]      \* what it took from nodes_to_reclaim
  /\ pops = 0 /\ exits = 0
  /\ out = {} /\ empties = 0

-----------------------------------------------------------------------------
(* push. *)

Push(t, x, n) ==
  /\ self[t].pc = "idle"
  /\ x \in Fresh
  /\ n \in Nodes \ alive
  /\ alive' = alive \cup {n}
  /\ data' = [data EXCEPT ![n] = x]
  /\ next' = [next EXCEPT ![n] = head]
  /\ self' = [self EXCEPT ![t].pc = "push", ![t].old = n]
  /\ UNCHANGED << head, hazards, nodes_to_reclaim, calls, results >>

PushExpected(t) == head = next[self[t].old]

PushLink(t) ==
  /\ self[t].pc = "push" /\ PushExpected(t)
  /\ head' = self[t].old
  /\ self' = [self EXCEPT ![t].pc = "idle", ![t].old = Null]
  /\ UNCHANGED << heap, hazards, nodes_to_reclaim, calls, results >>

PushRetry(t) ==
  /\ self[t].pc = "push" /\ ~PushExpected(t)
  /\ next' = [next EXCEPT ![self[t].old] = head]
  /\ UNCHANGED << head, data, alive, hazards, nodes_to_reclaim, self, calls,
                  results >>

-----------------------------------------------------------------------------
(* hp_owner: a thread's first pop claims a slot, the thread's end gives it  *)
(* back.                                                                    *)

HasHazardPointer(t) == self[t].slot # 0

Pop(t) ==
  /\ self[t].pc = "idle" /\ pops < MaxPops
  /\ pops' = pops + 1
  /\ self' = [self EXCEPT ![t].pc = IF HasHazardPointer(t) THEN "load" ELSE "claim"]
  /\ UNCHANGED << head, heap, hazards, nodes_to_reclaim, exits, results >>

(* Slip: a slot is taken whoever owns it. *)
SlotAny(t) == TRUE

SlotFree(t) == id[self[t].i] = Null

Claim(t) ==
  /\ self[t].pc = "claim" /\ SlotFree(t)
  /\ id' = [id EXCEPT ![self[t].i] = t]
  /\ self' = [self EXCEPT ![t].pc = "load", ![t].slot = self[t].i, ![t].i = 1]
  /\ UNCHANGED << head, heap, pointer, nodes_to_reclaim, calls, results >>

(* The end of a loop over the slots. *)
LastSlot(t) == self[t].i = MaxHazards

ClaimNext(t) ==
  /\ self[t].pc = "claim" /\ ~SlotFree(t) /\ ~LastSlot(t)
  /\ self' = [self EXCEPT ![t].i = @ + 1]
  /\ UNCHANGED << head, heap, hazards, nodes_to_reclaim, calls, results >>

(* The constructor throws, out of the pop, if it found every slot taken. *)
ClaimThrows(t) ==
  /\ self[t].pc = "claim" /\ ~SlotFree(t) /\ LastSlot(t)
  /\ self' = [self EXCEPT ![t].pc = "idle", ![t].i = 1]
  /\ UNCHANGED << head, heap, hazards, nodes_to_reclaim, calls, results >>

ExitClear(t) ==
  /\ self[t].pc = "idle" /\ HasHazardPointer(t) /\ exits < MaxExits
  /\ exits' = exits + 1
  /\ pointer' = [pointer EXCEPT ![self[t].slot] = Null]
  /\ self' = [self EXCEPT ![t].pc = "exit"]
  /\ UNCHANGED << head, heap, id, nodes_to_reclaim, pops, results >>

ExitFree(t) ==
  /\ self[t].pc = "exit"
  /\ id' = [id EXCEPT ![self[t].slot] = Null]
  /\ self' = [self EXCEPT ![t].pc = "idle", ![t].slot = 0]
  /\ UNCHANGED << head, heap, pointer, nodes_to_reclaim, calls, results >>

-----------------------------------------------------------------------------
(* pop, until a node is this thread's alone. *)

Load(t) ==
  /\ self[t].pc = "load"
  /\ self' = [self EXCEPT ![t].pc = "protect", ![t].old = head]
  /\ UNCHANGED << head, heap, hazards, nodes_to_reclaim, calls, results >>

Protect(t) ==
  /\ self[t].pc = "protect"
  /\ pointer' = [pointer EXCEPT ![self[t].slot] = self[t].old]
  /\ self' = [self EXCEPT ![t].pc = "reread"]
  /\ UNCHANGED << head, heap, id, nodes_to_reclaim, calls, results >>

Confirmed(t) == head = self[t].old

HeadIsNull == head = Null

Reread(t) ==
  /\ self[t].pc = "reread" /\ ~(Confirmed(t) /\ HeadIsNull)
  /\ self' = [self EXCEPT ![t].pc = IF Confirmed(t) THEN "swing" ELSE "protect",
                          ![t].old = head]
  /\ UNCHANGED << head, heap, hazards, nodes_to_reclaim, calls, results >>

RereadEmpty(t) ==
  /\ self[t].pc = "reread" /\ Confirmed(t) /\ HeadIsNull
  /\ empties' = empties + 1
  /\ self' = [self EXCEPT ![t].pc = "clear"]
  /\ UNCHANGED << head, heap, hazards, nodes_to_reclaim, calls, out >>

Swing(t) ==
  /\ self[t].pc = "swing" /\ head = self[t].old
  /\ head' = next[self[t].old]
  /\ self' = [self EXCEPT ![t].pc = "clear"]
  /\ UNCHANGED << heap, hazards, nodes_to_reclaim, calls, results >>

SwingFail(t) ==
  /\ self[t].pc = "swing" /\ head # self[t].old
  /\ self' = [self EXCEPT ![t].pc = "protect", ![t].old = head]
  /\ UNCHANGED << head, heap, hazards, nodes_to_reclaim, calls, results >>

ClearHazard(t) == pointer' = [pointer EXCEPT ![self[t].slot] = Null]

ClearEmpty(t) ==
  /\ self[t].pc = "clear" /\ self[t].old = Null
  /\ ClearHazard(t)
  /\ self' = [self EXCEPT ![t].pc = "idle"]
  /\ UNCHANGED << head, heap, id, nodes_to_reclaim, calls, results >>

ClearTake(t) ==
  /\ self[t].pc = "clear" /\ self[t].old # Null
  /\ ClearHazard(t)
  /\ out' = out \cup {data[self[t].old]}
  /\ data' = [data EXCEPT ![self[t].old] = Null]
  /\ self' = [self EXCEPT ![t].pc = "scan", ![t].current = self[t].old]
  /\ UNCHANGED << head, next, alive, id, nodes_to_reclaim, calls, empties >>

-----------------------------------------------------------------------------
(* Reclamation: first of the popped node, whose old is still set, then of   *)
(* the nodes whose deletion was put off.                                    *)

(* outstanding_hazard_pointers_for, one slot at a time. *)
Outstanding(t) == pointer[self[t].i] = self[t].current

ScanNext(t) ==
  /\ self[t].pc = "scan" /\ ~Outstanding(t) /\ ~LastSlot(t)
  /\ self' = [self EXCEPT ![t].i = @ + 1]
  /\ UNCHANGED << head, heap, hazards, nodes_to_reclaim, calls, results >>

ScanFound(t) ==
  /\ self[t].pc = "scan" /\ Outstanding(t)
  /\ self' = [self EXCEPT ![t].pc = "keep", ![t].i = 1]
  /\ UNCHANGED << head, heap, hazards, nodes_to_reclaim, calls, results >>

(* current is dealt with. *)
Dealt(t) ==
  self' = [self EXCEPT ![t].pc = IF self[t].old # Null THEN "sweep" ELSE "next",
                       ![t].current = Null, ![t].i = 1]

(* The deleter of its entry in the list, or pop itself, deletes the node. *)
DeleteNode(n) == alive' = alive \ {n}

Delete(t) ==
  /\ self[t].pc = "scan" /\ ~Outstanding(t) /\ LastSlot(t)
  /\ DeleteNode(self[t].current)
  /\ Dealt(t)
  /\ UNCHANGED << head, next, data, hazards, nodes_to_reclaim, calls, results >>

(* Slip: a node still in use is dropped. *)
DropNode(t) == UNCHANGED nodes_to_reclaim

KeepNode(t) == nodes_to_reclaim' = nodes_to_reclaim \cup {self[t].current}

Keep(t) ==
  /\ self[t].pc = "keep"
  /\ KeepNode(t)
  /\ Dealt(t)
  /\ UNCHANGED << head, heap, hazards, calls, results >>

(* delete_nodes_with_no_hazards. *)
Sweep(t) ==
  /\ self[t].pc = "sweep"
  /\ nodes_to_reclaim' = {}
  /\ self' = [self EXCEPT ![t].pc = "next", ![t].old = Null,
                          ![t].mine = nodes_to_reclaim]
  /\ UNCHANGED << head, heap, hazards, calls, results >>

SweepNext(t, n) ==
  /\ self[t].pc = "next" /\ n \in self[t].mine
  /\ self' = [self EXCEPT ![t].pc = "scan", ![t].current = n,
                          ![t].mine = @ \ {n}]
  /\ UNCHANGED << head, heap, hazards, nodes_to_reclaim, calls, results >>

SweepEnd(t) ==
  /\ self[t].pc = "next" /\ self[t].mine = {}
  /\ self' = [self EXCEPT ![t].pc = "idle"]
  /\ UNCHANGED << head, heap, hazards, nodes_to_reclaim, calls, results >>

Next == \E t \in Threads :
  \/ \E x \in Values, n \in Nodes : Push(t, x, n)
  \/ PushLink(t) \/ PushRetry(t)
  \/ Pop(t) \/ Claim(t) \/ ClaimNext(t) \/ ClaimThrows(t)
  \/ ExitClear(t) \/ ExitFree(t)
  \/ Load(t) \/ Protect(t) \/ Reread(t) \/ RereadEmpty(t)
  \/ Swing(t) \/ SwingFail(t) \/ ClearEmpty(t) \/ ClearTake(t)
  \/ ScanNext(t) \/ ScanFound(t) \/ Delete(t) \/ Keep(t)
  \/ Sweep(t) \/ (\E n \in Nodes : SweepNext(t, n)) \/ SweepEnd(t)

Spec == Init /\ [][Next]_vars

-----------------------------------------------------------------------------
Places == {"idle", "push", "claim", "exit", "load", "protect", "reread", "swing",
           "clear", "scan", "keep", "sweep", "next"}

(* The nodes linked from head, the top first. *)
Path == LET p[k \in 0..Cardinality(Nodes)] ==
              IF k = 0 THEN head
              ELSE IF p[k - 1] = Null THEN Null ELSE next[p[k - 1]]
        IN  p

Linked == { Path[k] : k \in 0..Cardinality(Nodes) } \ {Null}

Chain == [ k \in 1..Cardinality({ j \in 0..Cardinality(Nodes) : Path[j] # Null })
             |-> Path[k - 1] ]

(* The nodes a thread alone has to dispose of. *)
Owned(t) ==
  self[t].mine \cup
    CASE self[t].pc \in {"push", "clear"} -> {self[t].old} \ {Null}
      [] self[t].pc \in {"scan", "keep"}  -> {self[t].current}
      [] OTHER                            -> {}

(* The elements of nodes out of the stack that their popper has yet to take. *)
Popped == { data[self[t].old] : t \in { u \in Threads :
              self[u].pc = "clear" /\ self[u].old # Null } }

Lifo == INSTANCE LifoStack
          WITH stack <- [k \in 1..Len(Chain) |-> data[Chain[k]]],
               out <- out \cup Popped

-----------------------------------------------------------------------------
(* Properties. *)

(* Type invariant.  A thread that dereferences old has a node there, and a  *)
(* thread that uses its hazard pointer has a slot.                          *)
TypeOK ==
  /\ head \in Nodes \cup {Null}
  /\ next \in [Nodes -> Nodes \cup {Null}]
  /\ data \in [Nodes -> Values \cup {Null}]
  /\ alive \subseteq Nodes /\ nodes_to_reclaim \subseteq Nodes
  /\ id \in [Slots -> Threads \cup {Null}]
  /\ pointer \in [Slots -> Nodes \cup {Null}]
  /\ self \in [Threads ->
       [ pc : Places, slot : 0..MaxHazards, i : Slots, old : Nodes \cup {Null},
         current : Nodes \cup {Null}, mine : SUBSET Nodes ]]
  /\ pops \in 0..MaxPops /\ exits \in 0..MaxExits /\ empties \in 0..MaxPops
  /\ out \subseteq Values
  /\ \A t \in Threads :
       /\ self[t].pc \in {"push", "swing"} => self[t].old \in Nodes
       /\ self[t].pc \in {"load", "protect", "reread", "swing", "clear", "exit"}
            => self[t].slot # 0

(* A node is deleted only when it is out of the stack and no thread will    *)
(* dereference it: neither one that announced it, nor one that has it to    *)
(* dispose of.                                                              *)
NoUseAfterDelete ==
  /\ Linked \cup nodes_to_reclaim \subseteq alive
  /\ \A t \in Threads :
       /\ self[t].pc = "swing" => self[t].old \in alive
       /\ Owned(t) \subseteq alive

(* No node has two threads to delete it, and no allocated node has none: it *)
(* is in the stack, on the list, or with exactly one thread.                *)
OneOwner ==
  \A n \in alive :
    Cardinality({ t \in Threads : n \in Owned(t) })
      + (IF n \in Linked THEN 1 ELSE 0)
      + (IF n \in nodes_to_reclaim THEN 1 ELSE 0) = 1

(* A slot announces what its one owner has in hand: nothing between pops,   *)
(* or a node would be kept for ever, and nothing of a former owner, whose   *)
(* last stores come late.                                                   *)
SlotsHandedOver ==
  /\ \A s \in Slots : id[s] = Null => pointer[s] = Null
  /\ \A t \in Threads :
       /\ self[t].slot # 0 => id[self[t].slot] = t
       /\ self[t].pc = "idle" /\ self[t].slot # 0 => pointer[self[t].slot] = Null
       /\ self[t].pc \in {"reread", "swing"} => pointer[self[t].slot] = self[t].old

(* The stack is linearizable.                                               *)
ImplementsLifo == Lifo!Spec

=============================================================================
