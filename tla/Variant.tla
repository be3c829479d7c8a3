------------------------------- MODULE Variant -------------------------------
(***************************************************************************)
(* Variant<Types...> of include/variant.hpp and include/variant_new.hpp:   *)
(* storage for one object and the index of its type.  The helpers destroy, *)
(* copy and move look the type up in the list of types: in variant.hpp the *)
(* first match is acted on, in variant_new.hpp every match.  Constructors  *)
(* of the types may throw.  One thread uses the variants.                  *)
(***************************************************************************)
EXTENDS Naturals, Sequences, FiniteSets

CONSTANTS
  Variants,     \* the variables of type Variant<Types...>
  TypeList,     \* Types...
  EveryMatch,   \* variant_new.hpp
  MaxAssigns    \* bound: how many assignments are made

Held == { TypeList[i] : i \in 1..Len(TypeList) }
Void == "void"

VARIABLES
  var,        \* of each variant: whether it exists, its type index, and the
              \* type of the object that is alive in its storage
  lost,       \* objects that were overwritten or given up alive
  assigns,    \* assignments made
  torn,       \* a constructor threw in the middle of an assignment
  confused    \* a destructor, a copy or Get met storage without such an object,
              \* or storage that was being constructed over

vars == << var, lost, assigns, torn, confused >>

Gone == [here |-> FALSE, type |-> Void, there |-> Void]

Init ==
  /\ var = [x \in Variants |-> Gone]
  /\ lost = 0 /\ assigns = 0
  /\ torn = FALSE /\ confused = FALSE

Holding(t, o) == [here |-> TRUE, type |-> t, there |-> o]

Matches(t) == { i \in 1..Len(TypeList) : TypeList[i] = t }

(* The recursive helpers of variant.hpp go to the first match. *)
FirstMatch(t) == { i \in Matches(t) : \A j \in Matches(t) : i <= j }

(* destroy0, move0 and copy0 of variant_new.hpp are called for every type. *)
AllMatches(t) == Matches(t)

(* How often the helpers act on type t; they never do for void. *)
Acts(t) == Cardinality(IF EveryMatch THEN AllMatches(t) ELSE FirstMatch(t))

OneIf(b) == IF b THEN 1 ELSE 0

(* Objects given up when what acts on type t constructs over the storage. *)
Overwritten(x, t) == IF Acts(t) = 0 THEN 0 ELSE OneIf(x.there # Void) + Acts(t) - 1

(* What acts on type t needs such an object. *)
Meets(x, t) == Acts(t) > 0 => x.there = t

DefaultConstruct(x) ==
  /\ ~var[x].here
  /\ var' = [var EXCEPT ![x] = Holding(Void, Void)]
  /\ UNCHANGED << lost, assigns, torn, confused >>

(* A construction that throws leaves no variant, and no object. *)
Construct(x, t) ==
  /\ ~var[x].here
  /\ var' = [var EXCEPT ![x] = Holding(t, t)]
  /\ UNCHANGED << lost, assigns, torn, confused >>

(* Copy and move constructors: a moved-from object is alive, and the        *)
(* variant it is in keeps its type.                                         *)
ConstructFrom(x, y) ==
  /\ ~var[x].here /\ var[y].here
  /\ confused' = ~Meets(var[y], var[y].type)
  /\ var' = [var EXCEPT ![x] = Holding(var[y].type,
               IF Acts(var[y].type) = 0 THEN Void ELSE var[y].type)]
  /\ lost' = lost + Overwritten(Gone, var[y].type)
  /\ UNCHANGED << assigns, torn >>

TypeTaken(x, y) == var[y].type

(* No assignment asks whether it is given itself: the constructor is then   *)
(* given the object over which it constructs.                               *)
OverItself(x, y) == x = y /\ Acts(var[y].type) > 0

(* Both assignments: the object is constructed over whatever is in the      *)
(* storage, nothing being destroyed; then the type is taken.                *)
Assign(x, y) ==
  /\ var[x].here /\ var[y].here /\ assigns < MaxAssigns
  /\ assigns' = assigns + 1
  /\ confused' = (~Meets(var[y], var[y].type) \/ OverItself(x, y))
  /\ lost' = lost + Overwritten(var[x], var[y].type)
  /\ var' = [var EXCEPT ![x].type = TypeTaken(x, y),
                        ![x].there = IF Acts(var[y].type) = 0 THEN @ ELSE var[y].type]
  /\ UNCHANGED torn

(* The constructor throws: the storage is no object now, the type stays. *)
AssignThrows(x, y) ==
  /\ var[x].here /\ var[y].here /\ assigns < MaxAssigns
  /\ Acts(var[y].type) > 0
  /\ assigns' = assigns + 1 /\ torn' = TRUE
  /\ confused' = (~Meets(var[y], var[y].type) \/ OverItself(x, y))
  /\ lost' = lost + OneIf(var[x].there # Void)
  /\ var' = [var EXCEPT ![x].there = Void]

Is(x, t) == var[x].type = t

(* It throws bad_cast for another type. *)
Get(x, t) ==
  /\ var[x].here /\ Is(x, t)
  /\ confused' = (var[x].there # t)
  /\ UNCHANGED << var, lost, assigns, torn >>

(* Slip: the helper ends before it has found the type. *)
DestroysNone(x) == 0

Destroys(x) == Acts(var[x].type)

After(x) == Gone

Destruct(x) ==
  /\ var[x].here
  /\ confused' = (~Meets(var[x], var[x].type) \/ Destroys(x) > 1)
  /\ lost' = lost + OneIf(var[x].there # Void /\ Destroys(x) = 0)
  /\ var' = [var EXCEPT ![x] = After(x)]
  /\ UNCHANGED << assigns, torn >>

(* Once any of these has been confused, the behaviour is undefined. *)
Next == ~confused /\ \E x \in Variants :
  \/ DefaultConstruct(x) \/ Destruct(x)
  \/ \E t \in Held : Construct(x, t) \/ Get(x, t)
  \/ \E y \in Variants : ConstructFrom(x, y) \/ Assign(x, y) \/ AssignThrows(x, y)

Spec == Init /\ [][Next]_vars

-----------------------------------------------------------------------------
(* Properties. *)

(* Type invariant. *)
TypeOK ==
  /\ var \in [Variants -> [here : BOOLEAN, type : Held \cup {Void},
                           there : Held \cup {Void}]]
  /\ \A x \in Variants : ~var[x].here => var[x] = Gone
  /\ lost \in Nat /\ assigns \in 0..MaxAssigns
  /\ torn \in BOOLEAN /\ confused \in BOOLEAN

(* Until a constructor throws in an assignment, a variant with a type has   *)
(* an object of that type.                                                  *)
TypeTellsTruth ==
  ~torn => \A x \in Variants : var[x].type # Void => var[x].there = var[x].type

(* Until then, only the assignment of a variant to itself gives a           *)
(* constructor storage without the object that it copies; no destructor,    *)
(* no other copy and no Get meets anything but an object of the type.       *)
MisreadsItself == confused' /\ ~torn =>
  \E x \in Variants : Assign(x, x) \/ AssignThrows(x, x)

(* Variants that are constructed, copied, moved and destroyed lose nothing; *)
(* an assignment gives up one object at most, the one it constructs over or *)
(* leaves behind under the type void.                                       *)
LostByAssignment == lost <= assigns

=============================================================================
