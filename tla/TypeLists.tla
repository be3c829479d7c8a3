------------------------------ MODULE TypeLists ------------------------------
(***************************************************************************)
(* What Variant computes about its list of types: the recursive templates  *)
(* of include/variant.hpp and include/variant_new.hpp, and the choice of a *)
(* handler in Visit.  Types are numbers, which stand for their sizes too.  *)
(* A behaviour grows one list, so that the invariants are checked on every *)
(* list up to MaxLen.                                                       *)
(***************************************************************************)
EXTENDS Integers, Sequences

CONSTANTS Types, MaxLen

VARIABLE list

Winner(a, b) == IF a >= b THEN a ELSE b

(* max[i] is the winner of the first i. *)
IntegerMax(l) ==
  LET max[i \in 1..Len(l)] == IF i = 1 THEN l[1] ELSE Winner(max[i - 1], l[i])
  IN  max[Len(l)]

(* As of arrays of such a size of char, short or int. *)
AlignmentOf(t) == IF t % 4 = 0 THEN 4 ELSE IF t % 2 = 0 THEN 2 ELSE 1

(* Slip: the largest type's alignment is taken for the largest one. *)
AlignOfLargest(l) == AlignmentOf(IntegerMax(l))

MaxAlign(l) == IntegerMax([i \in 1..Len(l) |-> AlignmentOf(l[i])])

(* aligned_storage. *)
Storage(l) == [size |-> IntegerMax(l), align |-> MaxAlign(l)]

(* The other templates take the types one by one from the left: from[i] is *)
(* what they come to for the types from the i-th on.                       *)
Contains(t, l) ==
  LET from[i \in 1..(Len(l) + 1)] == i <= Len(l) /\ (t = l[i] \/ from[i + 1])
  IN  from[1]

(* The number of types behind the first t, or -1. *)
GetLeftSize(t, l) ==
  LET from[i \in 1..(Len(l) + 1)] ==
        IF i > Len(l) THEN -1 ELSE IF t = l[i] THEN Len(l) - i ELSE from[i + 1]
  IN  from[1]

Index(t, l) == Len(l) - GetLeftSize(t, l) - 1

(* l without its first j types is rest[j]. *)
IndexType(i, l) ==
  LET rest[j \in 0..i] == IF j = 0 THEN l ELSE Tail(rest[j - 1])
  IN  Head(rest[i])

CountUp(n) == n + 1

IndexOf(t, l) ==
  LET from[i \in 1..(Len(l) + 1)] ==
        IF i > Len(l) THEN -1 ELSE IF t = l[i] THEN 0 ELSE CountUp(from[i + 1])
  IN  from[1]

At(i, l) == IndexType(i, l)

Matches(t, argument) == argument = t

(* The handlers that are called for a value of type t: each is known by the *)
(* number of handlers that follow it.                                       *)
Visit(t, handlers) ==
  LET from[i \in 1..(Len(handlers) + 1)] ==
        IF i > Len(handlers) THEN {}
        ELSE IF Matches(t, handlers[i]) THEN {Len(handlers) - i} ELSE from[i + 1]
  IN  from[1]

Init == list = << >>

Grow(t) == Len(list) < MaxLen /\ list' = Append(list, t)

Next == \E t \in Types : Grow(t)

Spec == Init /\ [][Next]_list

-----------------------------------------------------------------------------
(* Properties. *)

Listed(t) == \E i \in 1..Len(list) : list[i] = t

IsFirst(i, t) == list[i] = t /\ \A j \in 1..(i - 1) : list[j] # t

(* The storage of a variant is as large as its largest type, and aligned    *)
(* for every type, also when the largest has not the greatest alignment.    *)
StorageFits == list # << >> =>
  LET storage == Storage(list) IN
  /\ \A i \in 1..Len(list) : list[i] <= storage.size /\ storage.align % AlignmentOf(list[i]) = 0
  /\ Listed(storage.size)

(* The two headers agree on the position of the first type that matches,    *)
(* from which IndexType and At give the type back, and Contains tells       *)
(* whether there is one.                                                    *)
IndexesFirst == \A t \in Types :
  /\ Contains(t, list) <=> Listed(t)
  /\ Listed(t) =>
       /\ IsFirst(Index(t, list) + 1, t)
       /\ IndexOf(t, list) = Index(t, list)
       /\ IndexType(Index(t, list), list) = t /\ At(IndexOf(t, list), list) = t

(* A type that is not in the list has the index Len(list) in variant.hpp,   *)
(* but in variant_new.hpp the index of the last type: the -1 at the end of  *)
(* the recursion is counted up like any other.                              *)
AbsentIndexes == \A t \in Types : ~Listed(t) =>
  Index(t, list) = Len(list) /\ IndexOf(t, list) = Len(list) - 1

(* Visit calls one handler, the first for the type, or none if there is no  *)
(* handler for it; list is here the list of the handlers' argument types.   *)
VisitsFirst == \A t \in Types :
  Visit(t, list) = { Len(list) - i : i \in { j \in 1..Len(list) : IsFirst(j, t) } }

=============================================================================
