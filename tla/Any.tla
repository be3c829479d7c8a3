-------------------------------- MODULE Any --------------------------------
(***************************************************************************)
(* Any of include/any.hpp: a pointer that owns an object of some type and  *)
(* the index of the type.  Copies clone the object, the move constructor   *)
(* takes it, and AnyCast gives out a reference through which it can be     *)
(* changed.  Cloning may throw.  One thread uses the variables.            *)
(***************************************************************************)
EXTENDS Naturals, Functions

CONSTANTS
  Anys,        \* the variables of type Any
  Types,       \* the types of what they hold
  Values,
  Addresses,   \* of the objects that ptr_ may own
  Null

Void == "void"

VARIABLES
  any,      \* ptr_ and type_index_ of each variable, and whether it exists
  heap,     \* the objects that are allocated, by address
  hollow,   \* history: the variables that were moved from, or copied from one
  crashed   \* AnyCast went through a null ptr_

vars == << any, heap, hollow, crashed >>

Gone == [here |-> FALSE, ptr |-> Null, type |-> Void]

Init ==
  /\ any = [x \in Anys |-> Gone]
  /\ heap = << >>
  /\ hollow = {} /\ crashed = FALSE

Holding(p, t) == [here |-> TRUE, ptr |-> p, type |-> t]

Allocated == DOMAIN heap

(* The heap once address p is deleted, and once object o is made at q. *)
Freed(h, p) == Restrict(h, DOMAIN h \ {p})
Made(h, q, o) == [a \in DOMAIN h \cup {q} |-> IF a = q THEN o ELSE h[a]]

Object(t, v) == [type |-> t, value |-> v]

Mark(x, y) == hollow' = IF y \in hollow THEN hollow \cup {x} ELSE hollow \ {x}

DefaultConstruct(x) ==
  /\ ~any[x].here
  /\ any' = [any EXCEPT ![x] = Holding(Null, Void)]
  /\ UNCHANGED << heap, hollow, crashed >>

Construct(x, t, v, q) ==
  /\ ~any[x].here /\ q \notin Allocated
  /\ any' = [any EXCEPT ![x] = Holding(q, t)]
  /\ heap' = Made(heap, q, Object(t, v))
  /\ UNCHANGED << hollow, crashed >>

Clone(y, q) == IF any[y].ptr = Null THEN Null ELSE q

(* What cloning y to q does to heap h. *)
Cloned(h, y, q) ==
  IF Clone(y, q) = q THEN Made(h, q, heap[any[y].ptr]) ELSE h

CopyConstruct(x, y, q) ==
  /\ ~any[x].here /\ any[y].here /\ q \notin Allocated
  /\ any' = [any EXCEPT ![x] = Holding(Clone(y, q), any[y].type)]
  /\ heap' = Cloned(heap, y, q)
  /\ Mark(x, y)
  /\ UNCHANGED crashed

(* The moved-from variable keeps its type index. *)
MoveConstruct(x, y) ==
  /\ ~any[x].here /\ any[y].here
  /\ any' = [any EXCEPT ![x] = [any[y] EXCEPT !.here = TRUE], ![y].ptr = Null]
  /\ hollow' = (IF y \in hollow THEN hollow \cup {x} ELSE hollow \ {x})
                 \cup (IF any[y].ptr = Null THEN {} ELSE {y})
  /\ UNCHANGED << heap, crashed >>

(* Slip: the type index is that of Any itself. *)
TypeOfAny(x, y) == "Any"

NewType(x, y) == any[y].type

(* The clone is made before the old object goes; if that throws, nothing    *)
(* has changed.                                                             *)
Assign(x, y, q) ==
  /\ any[x].here /\ any[y].here /\ q \notin Allocated
  /\ x # y
  /\ any' = [any EXCEPT ![x] = Holding(Clone(y, q), NewType(x, y))]
  /\ heap' = Freed(Cloned(heap, y, q), any[x].ptr)
  /\ Mark(x, y)
  /\ UNCHANGED crashed

(* x = v: a temporary Any is made, assigned and destroyed. *)
AssignValue(x, t, v, q) ==
  /\ any[x].here /\ q \notin Allocated
  /\ any' = [any EXCEPT ![x] = Holding(q, t)]
  /\ heap' = Made(Freed(heap, any[x].ptr), q, Object(t, v))
  /\ hollow' = hollow \ {x}
  /\ UNCHANGED crashed

Destruct(x) ==
  /\ any[x].here
  /\ any' = [any EXCEPT ![x] = Gone]
  /\ heap' = Freed(heap, any[x].ptr)
  /\ hollow' = hollow \ {x}
  /\ UNCHANGED crashed

(* A cast to another type throws and changes nothing. *)
Is(x, t) == any[x].here /\ any[x].type = t

(* The client writes through the reference that AnyCast returned. *)
AnyCast(x, t, v) ==
  /\ Is(x, t)
  /\ IF any[x].ptr = Null
       THEN crashed' = TRUE /\ UNCHANGED heap
       ELSE heap' = [heap EXCEPT ![any[x].ptr].value = v] /\ UNCHANGED crashed
  /\ UNCHANGED << any, hollow >>

Next == ~crashed /\ \E x \in Anys :
  \/ DefaultConstruct(x) \/ Destruct(x)
  \/ \E y \in Anys : \/ MoveConstruct(x, y)
                     \/ \E q \in Addresses : CopyConstruct(x, y, q) \/ Assign(x, y, q)
  \/ \E t \in Types, v \in Values :
       AnyCast(x, t, v) \/ \E q \in Addresses : Construct(x, t, v, q) \/ AssignValue(x, t, v, q)

Spec == Init /\ [][Next]_vars

-----------------------------------------------------------------------------
(* Properties. *)

(* Type invariant. *)
TypeOK ==
  /\ any \in [Anys -> [here : BOOLEAN, ptr : Addresses \cup {Null}, type : Types \cup {Void}]]
  /\ Allocated \subseteq Addresses
  /\ \A p \in Allocated : heap[p] \in [type : Types, value : Values]
  /\ hollow \subseteq Anys /\ crashed \in BOOLEAN

(* Every object is owned by one variable: copies do not see each other's    *)
(* changes, nothing is deleted twice, and nothing is left behind.           *)
OwnedOnce ==
  /\ \A x, y \in Anys : any[x].ptr = any[y].ptr /\ any[x].ptr # Null => x = y
  /\ Allocated = { any[x].ptr : x \in Anys } \ {Null}

(* The type index is the type of the object, or the object is missing       *)
(* because it was moved away, here or in the variable this one was copied   *)
(* from.                                                                    *)
TypeTellsObject == \A x \in Anys :
  IF any[x].ptr \in Allocated THEN heap[any[x].ptr].type = any[x].type
  ELSE any[x].type = Void \/ x \in hollow

=============================================================================
