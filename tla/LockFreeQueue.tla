--------------------------- MODULE LockFreeQueue ---------------------------
(***************************************************************************)
(* LockFreeQueue of include/lock_free_queue.h: a linked queue whose last   *)
(* node is an empty dummy.  Head and tail are links that carry an external *)
(* count; a node counts the external counters it still has and, inside,    *)
(* the references given back.  A pusher that finds the dummy already       *)
(* filled helps the other push to append the next dummy.                   *)
(*                                                                         *)
(* One action is one operation on a shared atomic, with what the thread    *)
(* does on its own around it.  Memory is sequentially consistent; a        *)
(* deleted node's address may be allocated again at once.  The class has   *)
(* no constructor that allocates the first dummy: the model starts with    *)
(* the dummy that Push and Pop take for granted.                           *)
(***************************************************************************)
EXTENDS Integers, Sequences, FiniteSets

CONSTANTS
  Threads,
  Nodes,     \* the addresses new may return
  Values,    \* the elements pushed, each at most once
  Null,
  MaxPops,   \* bound: how many pops are called
  MaxCount   \* bound: of the external count, which grows with every retry

VARIABLES
  head, tail,   \* the two CountedNodePtr of the queue
  node,         \* the fields of each node
  alive,        \* the nodes allocated and not deleted
  me,           \* of each thread: its place and its local variables
  pops,         \* how many pops have been called
  out,          \* history: the elements popped, in order
  lost,         \* history: the elements stored in a node already popped
  empties,      \* history: how many pops returned nothing
  emptyAt       \* history: the nodes on which they did

history == << pops, out, lost, empties, emptyAt >>
vars == << head, tail, node, alive, me, history >>

CountedNodePtr(c, p) == [count |-> c, ptr |-> p]
None == CountedNodePtr(0, Null)

(* A node has two external counters, that of head or next and tail's. *)
NewNode == [next |-> None, internal |-> 0, counters |-> 2, data |-> Null]

(* old is old_tail or old_head, cur the node it pointed to when counted, to *)
(* the new_tail of SetNewTail, mine new_next.ptr and val new_data.          *)
Idle == [pc |-> "idle", old |-> None, cur |-> Null, to |-> None,
         mine |-> Null, val |-> Null]

Init == \E n \in Nodes :
  /\ head = CountedNodePtr(1, n) /\ tail = head
  /\ node = [m \in Nodes |-> NewNode]
  /\ alive = {n}
  /\ me = [t \in Threads |-> Idle]
  /\ pops = 0 /\ out = << >> /\ lost = {} /\ empties = 0 /\ emptyAt = {}

At(t, place) == me[t].pc = place

-----------------------------------------------------------------------------
(* The nodes from head on, in order. *)
Path == LET p[k \in 0..Cardinality(Nodes)] ==
              IF k = 0 THEN head.ptr
              ELSE IF p[k - 1] = Null THEN Null ELSE node[p[k - 1]].next.ptr
        IN  p

Linked == { Path[k] : k \in DOMAIN Path } \ {Null}

(* The elements a pop can reach: those of the nodes before the tail. *)
Before == { k \in DOMAIN Path : \A i \in 0..k : Path[i] \notin {tail.ptr, Null} }

Queue == [k \in 1..Cardinality(Before) |-> node[Path[k - 1]].data]

-----------------------------------------------------------------------------
(* Push. *)

Fresh(x) ==
  /\ x \notin lost \cup { node[n].data : n \in Nodes }
                   \cup { out[i] : i \in 1..Len(out) }
  /\ \A t \in Threads : me[t].val # x

Push(t, x, n) ==
  /\ At(t, "idle") /\ Fresh(x) /\ n \in Nodes \ alive
  /\ alive' = alive \cup {n}
  /\ node' = [node EXCEPT ![n] = NewNode]
  /\ me' = [me EXCEPT ![t] = [Idle EXCEPT !.pc = "countTail", !.old = tail,
                                          !.mine = n, !.val = x]]
  /\ UNCHANGED << head, tail, history >>

(* IncreaseExternalCount(tail_, old_tail), then (head_, old_head). *)
Increased(c) == [c EXCEPT !.count = @ + 1]

Counts(t, c, then) ==
  me' = [me EXCEPT ![t].pc = IF c = me[t].old THEN then ELSE @,
                   ![t].old = IF c = @ THEN Increased(c) ELSE c,
                   ![t].cur = c.ptr]

CountTail(t) ==
  /\ At(t, "countTail") /\ tail.count < MaxCount
  /\ tail' = IF tail = me[t].old THEN Increased(tail) ELSE tail
  /\ Counts(t, tail, "data")
  /\ UNCHANGED << head, node, alive, history >>

CountHead(t) ==
  /\ At(t, "countHead") /\ head.count < MaxCount
  /\ head' = IF head = me[t].old THEN Increased(head) ELSE head
  /\ Counts(t, head, "look")
  /\ UNCHANGED << tail, node, alive, history >>

DataFree(n) == node[n].data = Null

SetData(t) == LET n == me[t].cur IN
  /\ At(t, "data") /\ DataFree(n)
  /\ node' = [node EXCEPT ![n].data = me[t].val]
  /\ lost' = IF n \in Linked THEN lost ELSE lost \cup {me[t].val}
  /\ me' = [me EXCEPT ![t].pc = "link", ![t].val = Null]
  /\ UNCHANGED << head, tail, alive, pops, out, empties, emptyAt >>

DataTaken(t) ==
  /\ At(t, "data") /\ ~DataFree(me[t].cur)
  /\ me' = [me EXCEPT ![t].pc = "help"]
  /\ UNCHANGED << head, tail, node, alive, history >>

Spare(t) == {me[t].mine}

(* A push that stored its element links its own node, or deletes it when a *)
(* helper was faster.                                                       *)
Link(t) == LET n == me[t].cur IN
  /\ At(t, "link")
  /\ IF node[n].next = None
       THEN node' = [node EXCEPT ![n].next = CountedNodePtr(1, me[t].mine)]
            /\ UNCHANGED alive
       ELSE UNCHANGED node /\ alive' = alive \ Spare(t)
  /\ me' = [me EXCEPT ![t].pc = "setTail", ![t].to = node'[n].next,
                      ![t].mine = Null]
  /\ UNCHANGED << head, tail, history >>

(* A helper links its own node, and allocates another one for itself. *)
HelpLink(t, n) ==
  /\ At(t, "help") /\ node[me[t].cur].next = None /\ n \in Nodes \ alive
  /\ alive' = alive \cup {n}
  /\ node' = [node EXCEPT ![me[t].cur].next = CountedNodePtr(1, me[t].mine),
                          ![n] = NewNode]
  /\ me' = [me EXCEPT ![t].pc = "setTail", ![t].mine = n,
                      ![t].to = CountedNodePtr(1, me[t].mine)]
  /\ UNCHANGED << head, tail, history >>

HelpLinked(t) ==
  /\ At(t, "help") /\ node[me[t].cur].next # None
  /\ me' = [me EXCEPT ![t].pc = "setTail", ![t].to = node[me[t].cur].next]
  /\ UNCHANGED << head, tail, node, alive, history >>

(* SetNewTail. *)
TailExpected(t) == tail = me[t].old

SetTail(t) ==
  /\ At(t, "setTail") /\ TailExpected(t)
  /\ tail' = me[t].to
  /\ me' = [me EXCEPT ![t].pc = "free"]
  /\ UNCHANGED << head, node, alive, history >>

SetTailFail(t) ==
  /\ At(t, "setTail") /\ ~TailExpected(t)
  /\ me' = [me EXCEPT ![t].old = tail,
                      ![t].pc = IF tail.ptr = me[t].cur THEN @ ELSE "release"]
  /\ UNCHANGED << head, tail, node, alive, history >>

-----------------------------------------------------------------------------
(* Pop. *)

Pop(t) ==
  /\ At(t, "idle") /\ pops < MaxPops
  /\ pops' = pops + 1
  /\ me' = [me EXCEPT ![t].pc = "countHead", ![t].old = head]
  /\ UNCHANGED << head, tail, node, alive, out, lost, empties, emptyAt >>

(* Slip: a queue is empty when the head has no next. *)
IsEmptyWithoutNext(t) == node[me[t].cur].next = None

IsEmpty(t) == me[t].cur = tail.ptr

(* The reference that CountHead took is not given back. *)
PopEmpty(t) ==
  /\ At(t, "look") /\ IsEmpty(t)
  /\ empties' = empties + 1
  /\ emptyAt' = emptyAt \cup {me[t].cur}
  /\ me' = [me EXCEPT ![t] = Idle]
  /\ UNCHANGED << head, tail, node, alive, pops, out, lost >>

Look(t) ==
  /\ At(t, "look") /\ ~IsEmpty(t)
  /\ me' = [me EXCEPT ![t].pc = "setHead"]
  /\ UNCHANGED << head, tail, node, alive, history >>

(* A node's next does not change any more once the tail has left it. *)
SetHead(t) ==
  /\ At(t, "setHead") /\ head = me[t].old
  /\ head' = node[me[t].cur].next
  /\ out' = Append(out, node[me[t].cur].data)
  /\ me' = [me EXCEPT ![t].pc = "take"]
  /\ UNCHANGED << tail, node, alive, pops, lost, empties, emptyAt >>

SetHeadFail(t) ==
  /\ At(t, "setHead") /\ head # me[t].old
  /\ me' = [me EXCEPT ![t].pc = "release", ![t].old = head]
  /\ UNCHANGED << head, tail, node, alive, history >>

(* data.exchange(nullptr): the node looks like an unfilled dummy again. *)
Take(t) ==
  /\ At(t, "take")
  /\ node' = [node EXCEPT ![me[t].cur].data = Null]
  /\ me' = [me EXCEPT ![t].pc = "free"]
  /\ UNCHANGED << head, tail, alive, history >>

-----------------------------------------------------------------------------
(* The references of a node. *)

CountIncrease(t) == me[t].old.count - 2

Unused(n) == n.internal = 0 /\ n.counters = 0

IsPop(t) == me[t].to = None

GiveBack(t, counters, uses, returns, again) == LET n == me[t].cur IN
  /\ node' = [node EXCEPT ![n].counters = @ - counters, ![n].internal = @ + uses]
  /\ alive' = IF Unused(node'[n]) THEN alive \ {n} ELSE alive
  /\ me' = [me EXCEPT ![t] = IF returns THEN Idle ELSE [@ EXCEPT !.pc = again]]
  /\ UNCHANGED << head, tail, history >>

FreeExternalCounter(t) ==
  /\ At(t, "free")
  /\ GiveBack(t, 1, CountIncrease(t), me[t].mine = Null, "countTail")

ReleaseRef(t) ==
  /\ At(t, "release")
  /\ GiveBack(t, 0, -1, ~IsPop(t) /\ me[t].mine = Null,
              IF IsPop(t) THEN "countHead" ELSE "countTail")

Next == \E t \in Threads :
  \/ \E n \in Nodes : HelpLink(t, n) \/ \E x \in Values : Push(t, x, n)
  \/ CountTail(t) \/ SetData(t) \/ DataTaken(t) \/ Link(t) \/ HelpLinked(t)
  \/ SetTail(t) \/ SetTailFail(t)
  \/ Pop(t) \/ CountHead(t) \/ PopEmpty(t) \/ Look(t)
  \/ SetHead(t) \/ SetHeadFail(t) \/ Take(t)
  \/ FreeExternalCounter(t) \/ ReleaseRef(t)

Spec == Init /\ [][Next]_vars

-----------------------------------------------------------------------------
(* Properties. *)

Touching == {"data", "link", "help", "setTail", "look", "setHead", "take",
             "free", "release"}

Counted == [count : 0..MaxCount, ptr : Nodes \cup {Null}]

(* Type invariant.  An inner count is negative while references come back  *)
(* before the outer counts do.                                              *)
TypeOK ==
  /\ head \in Counted /\ tail \in Counted
  /\ node \in [Nodes -> [next : Counted, internal : Int, counters : 0..2,
                         data : Values \cup {Null}]]
  /\ alive \subseteq Nodes /\ emptyAt \subseteq Nodes
  /\ me \in [Threads ->
       [pc : Touching \cup {"idle", "countTail", "countHead"}, old : Counted,
        cur : Nodes \cup {Null}, to : Counted, mine : Nodes \cup {Null},
        val : Values \cup {Null}]]
  /\ pops \in 0..MaxPops /\ empties \in 0..MaxPops
  /\ lost \subseteq Values /\ out \in Seq(Values)

(* No node is deleted while it is linked, while a call still dereferences  *)
(* it, or while a pusher still means to link it.                            *)
NoUseAfterDelete ==
  /\ Linked \cup {tail.ptr} \subseteq alive
  /\ \A t \in Threads :
       /\ me[t].pc \in Touching => me[t].cur \in alive
       /\ me[t].mine # Null => me[t].mine \in alive

(* When no call is in progress, the nodes allocated are the queue's and     *)
(* those on which a pop has found the queue empty, which kept a reference:  *)
(* nodes that the pushes allocate for each other are linked or deleted.     *)
LeaksOnlyEmptyPops ==
  (\A t \in Threads : At(t, "idle")) => alive = Linked \cup emptyAt

Fifo == INSTANCE FifoQueue WITH queue <- Queue

(* Pushes and pops are linearizable to a first-in-first-out queue, but for  *)
(* the pushes that store their element in a node already popped.            *)
ImplementsFifo == Fifo!Spec

=============================================================================
