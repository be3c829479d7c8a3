--------------------------- MODULE SharedptrStack ---------------------------
(***************************************************************************)
(* LockFreeStackUseSharedptr of include/atomic_stack_use_sharedptr.h: a    *)
(* linked stack whose links are shared_ptrs, read and exchanged with the   *)
(* atomic functions for shared_ptr.  A node lives as long as a link or a   *)
(* thread's variable leads to it; its address is then free at once.  One   *)
(* action is one atomic function.  (push reads head with load(), which a   *)
(* shared_ptr has not: the model takes it for the atomic_load of pop.)     *)
(***************************************************************************)
EXTENDS Naturals, Sequences, FiniteSets

CONSTANTS
  Threads, Nodes, Values, Null,
  MaxPops     \* bound: how many pops are called

VARIABLES
  head, next, data,
  pc,
  new,        \* new_node of each thread
  old,        \* old_head of each thread
  below,      \* the copy of old_head->next that pop passes to the exchange
  pops, out, empties   \* history, as in LifoStack; calls of pop

vars == << head, next, data, pc, new, old, below, pops, out, empties >>

Init ==
  /\ head = Null
  /\ next = [n \in Nodes |-> Null] /\ data = [n \in Nodes |-> Null]
  /\ pc = [t \in Threads |-> "idle"]
  /\ new = [t \in Threads |-> Null] /\ old = [t \in Threads |-> Null]
  /\ below = [t \in Threads |-> Null]
  /\ pops = 0 /\ out = {} /\ empties = 0

(* The nodes that a chain of links from n leads to, in order. *)
Chain(n) == LET c[k \in 0..Cardinality(Nodes)] ==
                  [ m \in Nodes \cup {Null} |->
                      IF m = Null \/ k = 0 THEN << >>
                      ELSE << m >> \o c[k - 1][next[m]] ]
            IN  c[Cardinality(Nodes)][n]

ChainSet(n) == { Chain(n)[i] : i \in 1..Len(Chain(n)) }

(* Slip: old_head is a bare pointer and keeps nothing alive. *)
CountedByLinks == {head} \cup { new[t] : t \in Threads }

Counted == {head} \cup UNION { {new[t], old[t], below[t]} : t \in Threads }

Alive == UNION { ChainSet(n) : n \in Counted }

Fresh(x) == x \notin out \cup { data[n] : n \in Alive }

Push(t, x, n) ==
  /\ pc[t] = "idle" /\ Fresh(x) /\ n \in Nodes \ Alive
  /\ data' = [data EXCEPT ![n] = x]
  /\ next' = [next EXCEPT ![n] = head]
  /\ new' = [new EXCEPT ![t] = n]
  /\ pc' = [pc EXCEPT ![t] = "push"]
  /\ UNCHANGED << head, old, below, pops, out, empties >>

AfterPush(t) == Null

(* compare_exchange: the node goes in, or its next is read again. *)
PushExchange(t) ==
  /\ pc[t] = "push"
  /\ IF head = next[new[t]]
       THEN /\ head' = new[t]
            /\ new' = [new EXCEPT ![t] = AfterPush(t)]
            /\ pc' = [pc EXCEPT ![t] = "idle"]
            /\ next' = next
       ELSE /\ next' = [next EXCEPT ![new[t]] = head]
            /\ UNCHANGED << head, new, pc >>
  /\ UNCHANGED << data, old, below, pops, out, empties >>

(* pop's atomic_load; a null head ends the pop. *)
Pop(t) ==
  /\ pc[t] = "idle" /\ pops < MaxPops
  /\ pops' = pops + 1
  /\ old' = [old EXCEPT ![t] = head]
  /\ empties' = IF head = Null THEN empties + 1 ELSE empties
  /\ pc' = [pc EXCEPT ![t] = IF head = Null THEN "idle" ELSE "pop"]
  /\ UNCHANGED << head, next, data, new, below, out >>

ReadNext(t) ==
  /\ pc[t] = "pop"
  /\ below' = [below EXCEPT ![t] = next[old[t]]]
  /\ pc' = [pc EXCEPT ![t] = "exchange"]
  /\ UNCHANGED << head, next, data, new, old, pops, out, empties >>

HeadExpected(t) == head = old[t]

PopExchange(t) ==
  /\ pc[t] = "exchange" /\ HeadExpected(t)
  /\ head' = below[t]
  /\ out' = out \cup {data[old[t]]}
  /\ old' = [old EXCEPT ![t] = Null] /\ below' = [below EXCEPT ![t] = Null]
  /\ pc' = [pc EXCEPT ![t] = "idle"]
  /\ UNCHANGED << next, data, new, pops, empties >>

PopRetry(t) ==
  /\ pc[t] = "exchange" /\ ~HeadExpected(t)
  /\ old' = [old EXCEPT ![t] = head] /\ below' = [below EXCEPT ![t] = Null]
  /\ empties' = IF head = Null THEN empties + 1 ELSE empties
  /\ pc' = [pc EXCEPT ![t] = IF head = Null THEN "idle" ELSE "pop"]
  /\ UNCHANGED << head, next, data, new, pops, out >>

Next == \E t \in Threads :
  \/ \E x \in Values, n \in Nodes : Push(t, x, n)
  \/ PushExchange(t) \/ Pop(t) \/ ReadNext(t) \/ PopExchange(t) \/ PopRetry(t)

Spec == Init /\ [][Next]_vars

-----------------------------------------------------------------------------
(* Properties. *)

(* Type invariant. *)
TypeOK ==
  /\ head \in Nodes \cup {Null}
  /\ next \in [Nodes -> Nodes \cup {Null}]
  /\ data \in [Nodes -> Values \cup {Null}]
  /\ pc \in [Threads -> {"idle", "push", "pop", "exchange"}]
  /\ new \in [Threads -> Nodes \cup {Null}]
  /\ old \in [Threads -> Nodes \cup {Null}]
  /\ below \in [Threads -> Nodes \cup {Null}]
  /\ \A t \in Threads : (pc[t] = "push" <=> new[t] # Null)
                          /\ (pc[t] \in {"pop", "exchange"} <=> old[t] # Null)
  /\ pops \in 0..MaxPops /\ empties \in 0..MaxPops /\ out \subseteq Values

Lifo == INSTANCE LifoStack
          WITH stack <- [i \in 1..Len(Chain(head)) |-> data[Chain(head)[i]]]

(* The stack is linearizable: a head that is equal to old_head is the node  *)
(* that was read, and its next is still the one below it, because the       *)
(* shared_ptr keeps the node from being allocated again.                    *)
ImplementsLifo == Lifo!Spec

=============================================================================
