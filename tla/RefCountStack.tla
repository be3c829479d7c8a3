--------------------------- MODULE RefCountStack ---------------------------
(***************************************************************************)
(* LockFreeStackUseReferenceCount of                                       *)
(* include/atomic_stack_reference_count.h: a stack of linked nodes whose   *)
(* memory is reclaimed by split reference counts.  A node's external count *)
(* travels with the pointer to it, in head or in the node above; its       *)
(* internal count is in the node; their sum tells how many threads still   *)
(* use the node.                                                           *)
(*                                                                         *)
(* One action is one operation on an atomic, with the accesses to the      *)
(* thread's own variables and to node fields nobody else writes around it. *)
(* A deleted node's address may be allocated again at once.  Memory is     *)
(* sequentially consistent, and head starts as zero (static storage).      *)
(***************************************************************************)
EXTENDS Integers, Sequences, FiniteSets

CONSTANTS
  Threads,
  Nodes,     \* the addresses new may return
  Values,    \* the elements pushed, each at most once
  Null,      \* the null pointer; also a moved-from data
  MaxPops,   \* bound: how many pops are called
  MaxCount   \* bound: of the external count, which grows with every retry

VARIABLES
  head,      \* counted_node_ptr: external_count and ptr
  next,      \* node::next of each node, a counted_node_ptr
  internal,  \* node::internal_count
  data,      \* node::data
  alive,     \* the nodes allocated and not deleted
  pc,        \* where each thread is
  old,       \* old_head of each thread in pop
  ptr,       \* new_node.ptr of a thread in push, ptr of one in pop
  pops,      \* how many pops have been called
  out,       \* history: the elements pops returned
  empties    \* history: how many pops returned nothing

nodeVars == << next, internal, data, alive >>
locals == << old, ptr >>
history == << pops, out, empties >>
vars == << head, nodeVars, pc, locals, history >>

CountedPtr(c, p) == [count |-> c, ptr |-> p]
Counted == [count : 0..MaxCount, ptr : Nodes \cup {Null}]

Fresh == Values \ ({ data[n] : n \in alive } \cup out)

Goto(t, place) == pc' = [pc EXCEPT ![t] = place]

Init ==
  /\ head = CountedPtr(0, Null)
  /\ next = [n \in Nodes |-> CountedPtr(0, Null)]
  /\ internal = [n \in Nodes |-> 0]
  /\ data = [n \in Nodes |-> Null]
  /\ alive = {}
  /\ pc = [t \in Threads |-> "idle"]
  /\ old = [t \in Threads |-> CountedPtr(0, Null)]
  /\ ptr = [t \in Threads |-> Null]
  /\ pops = 0
  /\ out = {}
  /\ empties = 0

-----------------------------------------------------------------------------
(* push. *)

Push(t, x, n) ==
  /\ pc[t] = "idle"
  /\ x \in Fresh
  /\ n \in Nodes \ alive
  /\ alive' = alive \cup {n}
  /\ data' = [data EXCEPT ![n] = x]
  /\ internal' = [internal EXCEPT ![n] = 0]
  /\ next' = [next EXCEPT ![n] = head]
  /\ ptr' = [ptr EXCEPT ![t] = n]
  /\ Goto(t, "push")
  /\ UNCHANGED << head, old, history >>

PushExpected(t) == head = next[ptr[t]]

PushLink(t) ==
  /\ pc[t] = "push" /\ PushExpected(t)
  /\ head' = CountedPtr(1, ptr[t])
  /\ Goto(t, "idle")
  /\ UNCHANGED << nodeVars, locals, history >>

PushRetry(t) ==
  /\ pc[t] = "push" /\ ~PushExpected(t)
  /\ next' = [next EXCEPT ![ptr[t]] = head]
  /\ UNCHANGED << head, internal, data, alive, pc, locals, history >>

-----------------------------------------------------------------------------
(* pop. *)

Pop(t) ==
  /\ pc[t] = "idle" /\ pops < MaxPops
  /\ pops' = pops + 1
  /\ old' = [old EXCEPT ![t] = head]
  /\ Goto(t, "count")
  /\ UNCHANGED << head, nodeVars, ptr, out, empties >>

(* increase_head_count: count this thread among those that use the head. *)
CountRetry(t) ==
  /\ pc[t] = "count" /\ head # old[t]
  /\ old' = [old EXCEPT ![t] = head]
  /\ UNCHANGED << head, nodeVars, pc, ptr, history >>

Increase(t) ==
  /\ pc[t] = "count" /\ head = old[t]
  /\ head.count < MaxCount
  /\ head' = [head EXCEPT !.count = @ + 1]

(* Slip: a null head is not told from a node. *)
HeadNeverNull == FALSE

HeadIsNull == head.ptr = Null

Count(t) ==
  /\ Increase(t) /\ ~HeadIsNull
  /\ old' = [old EXCEPT ![t] = head']
  /\ ptr' = [ptr EXCEPT ![t] = head.ptr]
  /\ Goto(t, "swing")
  /\ UNCHANGED << nodeVars, history >>

CountEmpty(t) ==
  /\ Increase(t) /\ HeadIsNull
  /\ empties' = empties + 1
  /\ Goto(t, "idle")
  /\ UNCHANGED << nodeVars, locals, pops, out >>

(* The head swings to the next node, if neither it nor its count changed. *)
Swing(t) ==
  /\ pc[t] = "swing" /\ head = old[t]
  /\ head' = next[ptr[t]]
  /\ Goto(t, "take")
  /\ UNCHANGED << nodeVars, locals, history >>

SwingFail(t) ==
  /\ pc[t] = "swing" /\ head # old[t]
  /\ old' = [old EXCEPT ![t] = head]
  /\ Goto(t, "release")
  /\ UNCHANGED << head, nodeVars, ptr, history >>

(* Slip: the popper forgets its own use. *)
CountIncreaseByOne(t) == old[t].count - 1

(* The external count, less the link from head and the popper's own use. *)
CountIncrease(t) == old[t].count - 2

PopperIsLast(t) == internal[ptr[t]] = -CountIncrease(t)

Take(t) ==
  /\ pc[t] = "take"
  /\ out' = out \cup {data[ptr[t]]}
  /\ data' = [data EXCEPT ![ptr[t]] = Null]
  /\ internal' = [internal EXCEPT ![ptr[t]] = @ + CountIncrease(t)]
  /\ Goto(t, IF PopperIsLast(t) THEN "delete" ELSE "idle")
  /\ UNCHANGED << head, next, alive, locals, pops, empties >>

LoserIsLast(t) == internal[ptr[t]] = 1

Release(t) ==
  /\ pc[t] = "release"
  /\ internal' = [internal EXCEPT ![ptr[t]] = @ - 1]
  /\ Goto(t, IF LoserIsLast(t) THEN "deleteRetry" ELSE "count")
  /\ UNCHANGED << head, next, data, alive, locals, history >>

Delete(t) ==
  /\ pc[t] \in {"delete", "deleteRetry"}
  /\ alive' = alive \ {ptr[t]}
  /\ Goto(t, IF pc[t] = "delete" THEN "idle" ELSE "count")
  /\ UNCHANGED << head, next, internal, data, locals, history >>

Next == \E t \in Threads :
  \/ \E x \in Values, n \in Nodes : Push(t, x, n)
  \/ PushLink(t) \/ PushRetry(t)
  \/ Pop(t) \/ CountRetry(t) \/ Count(t) \/ CountEmpty(t)
  \/ Swing(t) \/ SwingFail(t) \/ Take(t) \/ Release(t) \/ Delete(t)

Spec == Init /\ [][Next]_vars

-----------------------------------------------------------------------------
(* The nodes linked from head, the top first. *)
Path == LET p[k \in 0..Cardinality(Nodes)] ==
              IF k = 0 THEN head
              ELSE IF p[k - 1].ptr = Null THEN p[k - 1] ELSE next[p[k - 1].ptr]
        IN  p

(* The links that count the users of the node below: head, and the next of *)
(* each node in the stack.                                                 *)
Links == { Path[k] : k \in 0..Cardinality(Nodes) }

Linked == { l.ptr : l \in Links } \ {Null}

Chain == [ k \in 1..Cardinality({ j \in 0..Cardinality(Nodes) : Path[j].ptr # Null })
             |-> Path[k - 1].ptr ]

(* The threads that hold a reference to n which they will give back. *)
Users(n) == { t \in Threads : pc[t] \in {"swing", "release"} /\ ptr[t] = n }

Touching == {"push", "swing", "take", "release", "delete", "deleteRetry"}

Popped == { data[ptr[t]] : t \in { u \in Threads : pc[u] = "take" } }

Lifo == INSTANCE LifoStack
          WITH stack <- [i \in 1..Len(Chain) |-> data[Chain[i]]],
               out <- out \cup Popped

-----------------------------------------------------------------------------
(* Properties. *)

(* Type invariant.  A thread that dereferences ptr has a node there.        *)
TypeOK ==
  /\ head \in Counted
  /\ next \in [Nodes -> Counted]
  /\ internal \in [Nodes -> Int]
  /\ data \in [Nodes -> Values \cup {Null}]
  /\ alive \subseteq Nodes
  /\ pc \in [Threads -> Touching \cup {"idle", "count"}]
  /\ old \in [Threads -> Counted]
  /\ ptr \in [Threads -> Nodes \cup {Null}]
  /\ \A t \in Threads : pc[t] \in Touching => ptr[t] \in Nodes
  /\ pops \in 0..MaxPops /\ empties \in 0..MaxPops
  /\ out \subseteq Values

(* No node is deleted while it is in the stack or while another thread will *)
(* still dereference or delete it.                                          *)
NoUseAfterDelete ==
  /\ Linked \subseteq alive
  /\ \A t \in Threads : pc[t] \in Touching => ptr[t] \in alive

(* A node that is out of the stack is deleted by the last thread that used  *)
(* it: when no call is in progress, only nodes of the stack are allocated.  *)
NoLeak == (\A t \in Threads : pc[t] = "idle") => alive = Linked

(* The two counts of a node always add up to the number of its users: while *)
(* it is linked, the external one less the link itself; once it is popped,  *)
(* with what the popper is about to add; then the internal one alone.       *)
CountsAddUp ==
  /\ \A l \in Links : l.ptr # Null =>
       l.count - 1 + internal[l.ptr] = Cardinality(Users(l.ptr))
  /\ \A t \in Threads : pc[t] = "take" =>
       internal[ptr[t]] + old[t].count - 2 = Cardinality(Users(ptr[t]))
  /\ \A n \in alive \ Linked :
       (\A t \in Threads : ptr[t] = n => pc[t] \notin {"push", "take"}) =>
         internal[n] = Cardinality(Users(n))

(* The stack is linearizable.                                               *)
ImplementsLifo == Lifo!Spec

=============================================================================
