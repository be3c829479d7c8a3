------------------------------ MODULE ListNode ------------------------------
(***************************************************************************)
(* ListNode<T> of include/list_node.hpp: a node of a doubly linked list    *)
(* and the two insertions beside it.  The client has linked a header and a *)
(* tailer to one another, whose own outer links point nowhere.             *)
(***************************************************************************)
EXTENDS Naturals, FiniteSets, SequencesExt

CONSTANTS
  Nodes,             \* the nodes that may be allocated
  Header, Tailer,    \* the nodes at the ends
  Null

Outermost == {Header, Tailer}

VARIABLES pred, succ   \* the links of every node that is allocated

vars == << pred, succ >>

Allocated == DOMAIN succ

Init ==
  /\ pred = [n \in Outermost |-> IF n = Header THEN Null ELSE Header]
  /\ succ = [n \in Outermost |-> IF n = Header THEN Tailer ELSE Null]

Set(link, n, m) == [x \in DOMAIN link \cup {n} |-> IF x = n THEN m ELSE link[x]]

(* What the constructor of the new node gets for its far side. *)
Beyond(link, n) == link[n]

(* Slip: this node's link is set first, and followed afterwards. *)
FollowedLate(link, n, p) == p

(* The node on the far side of p, by this node's old link. *)
Neighbour(link, n, p) == link[n]

(* p = new ListNode(e, this, succ); succ->pred = p; succ = p. *)
InsertAsSucc(n, p) ==
  /\ n \in Allocated \ {Tailer} /\ p \in Nodes \ Allocated
  /\ pred' = Set(Set(pred, p, n), Neighbour(succ, n, p), p)
  /\ succ' = Set(Set(succ, p, Beyond(succ, n)), n, p)

(* p = new ListNode(e, pred, this); pred->succ = p; pred = p. *)
InsertAsPred(n, p) ==
  /\ n \in Allocated \ {Header} /\ p \in Nodes \ Allocated
  /\ succ' = Set(Set(succ, p, n), Neighbour(pred, n, p), p)
  /\ pred' = Set(Set(pred, p, Beyond(pred, n)), n, p)

Next == \E n \in Allocated, p \in Nodes : InsertAsPred(n, p) \/ InsertAsSucc(n, p)

Spec == Init /\ [][Next]_vars

-----------------------------------------------------------------------------
(* Properties. *)

(* The nodes one meets when one follows succ from the header. *)
Order ==
  LET node[k \in 1..Cardinality(Allocated)] ==
        IF k = 1 THEN Header ELSE IF node[k - 1] = Null THEN Null ELSE succ[node[k - 1]]
  IN  node

(* Type invariant.  Only the outer links of the ends point nowhere. *)
TypeOK ==
  /\ Allocated \subseteq Nodes \cup Outermost
  /\ \A n \in Allocated : (succ[n] = Null <=> n = Tailer) /\ (pred[n] = Null <=> n = Header)
  /\ succ \in [Allocated -> Allocated \cup {Null}]
  /\ pred \in [Allocated -> Allocated \cup {Null}]

(* Whatever was inserted beside what: succ leads from the header to the     *)
(* tailer over every node once, and pred leads the same way back.           *)
LinksAgree ==
  /\ ToSet(Order) = Allocated /\ Last(Order) = Tailer
  /\ \A k \in 2..Len(Order) : pred[Order[k]] = Order[k - 1]

At(n) == CHOOSE k \in 1..Len(Order) : Order[k] = n

(* An insertion puts the new node right beside this one, on the side it     *)
(* names, and leaves the order of all others.                               *)
InsertsBeside == [][ \A n \in Allocated, p \in Nodes :
  /\ InsertAsPred(n, p) => Order' = InsertAt(Order, At(n), p)
  /\ InsertAsSucc(n, p) => Order' = InsertAt(Order, At(n) + 1, p) ]_vars

=============================================================================
