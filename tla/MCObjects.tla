----------------------------- MODULE MCObjects -----------------------------
(* What one thread keeps its objects in, for TLC: optionals and lazies,     *)
(* Anys and the IoC container, variants, the object pool, list nodes, and   *)
(* what the templates compute about types.  A behaviour is one of the       *)
(* component that part names; the variables of the others stay as they are. *)
EXTENDS Integers, Sequences, FiniteSets, TLC

CONSTANTS
  Variables,                  \* of type Optional, Lazy, Any or Variant
  Keys,                       \* of the IoC container and the pool
  Types, Values, Addresses,
  Objects,                    \* of the pool
  Nodes,                      \* of the list
  Header, Tailer, Null

ASSUME ObjectsAssumption ==
  /\ Header # Tailer /\ {Header, Tailer, Null} \cap (Nodes \cup Addresses \cup Values) = {}
  /\ Null \notin {Header, Tailer} /\ "void" \notin Types
  /\ {"null", "bad_cast"} \cap Values = {}   \* what Resolve returns else
  /\ IsFiniteSet(Objects)

VARIABLES
  part,
  opt, misread, func, ended, loads, stray,   \* Optional, Lazy
  any, heap, hollow, crashed, answers,       \* Any, IocContainer
  var, lost, assigns, torn, confused,        \* Variant
  open, stored, held, deleted, gets,         \* ObjectPool
  pred, succ,                                \* ListNode
  list,                                      \* TypeLists
  given, lvalue, at                          \* FunctionTraits

forLazy == << func, ended, loads, stray >>
forOptional == << opt, misread, forLazy >>
forAny == << any, heap, hollow, crashed, answers >>
forVariant == << var, lost, assigns, torn, confused >>
forPool == << open, stored, held, deleted, gets >>
forTypes == << list, given, lvalue, at >>
vars == << part, forOptional, forAny, forVariant, forPool, pred, succ, forTypes >>

RepeatedTypes == << "int", "string", "int" >>
DistinctTypes == << "int", "string" >>

Lazies == INSTANCE Lazy WITH Optionals <- Variables, None <- Null
Holders == INSTANCE Any WITH Anys <- Variables
Ioc == INSTANCE IocContainer WITH Anys <- Keys
Old == INSTANCE Variant WITH
  Variants <- Variables, TypeList <- RepeatedTypes, EveryMatch <- FALSE, MaxAssigns <- 3
New == INSTANCE Variant WITH
  Variants <- Variables, TypeList <- DistinctTypes, EveryMatch <- TRUE, MaxAssigns <- 3
Pool == INSTANCE ObjectPool WITH MaxObjectNum <- 2
List == INSTANCE ListNode
Lists == INSTANCE TypeLists WITH Types <- {2, 3, 4}, MaxLen <- 5
Traits == INSTANCE FunctionTraits

Init ==
  /\ part \in {"Optional", "Lazy", "Any", "Ioc", "Variant", "VariantNew",
               "Pool", "List", "Lists", "Traits"}
  /\ Lazies!LazyInit /\ Old!Init /\ Pool!Init /\ List!Init /\ Lists!Init
  /\ IF part = "Ioc" THEN Ioc!IocInit ELSE Holders!Init /\ answers = Null
  /\ IF part = "Traits" THEN Traits!Init ELSE given = Null /\ lvalue = Null /\ at = Null

Next == UNCHANGED part /\
  \/ /\ \/ part = "Optional" /\ Lazies!Next /\ UNCHANGED forLazy
        \/ part = "Lazy" /\ Lazies!LazyNext
     /\ UNCHANGED << forAny, forVariant, forPool, pred, succ, forTypes >>
  \/ /\ \/ part = "Any" /\ Holders!Next /\ UNCHANGED answers
        \/ part = "Ioc" /\ Ioc!IocNext
     /\ UNCHANGED << forOptional, forVariant, forPool, pred, succ, forTypes >>
  \/ /\ \/ part = "Variant" /\ Old!Next
        \/ part = "VariantNew" /\ New!Next
     /\ UNCHANGED << forOptional, forAny, forPool, pred, succ, forTypes >>
  \/ /\ part = "Pool" /\ Pool!Next
     /\ UNCHANGED << forOptional, forAny, forVariant, pred, succ, forTypes >>
  \/ /\ part = "List" /\ List!Next
     /\ UNCHANGED << forOptional, forAny, forVariant, forPool, forTypes >>
  \/ /\ \/ part = "Lists" /\ Lists!Next /\ UNCHANGED << given, lvalue, at >>
        \/ part = "Traits" /\ Traits!Next /\ UNCHANGED list
     /\ UNCHANGED << forOptional, forAny, forVariant, forPool, pred, succ >>

Spec == Init /\ [][Next]_vars

Symmetry == Permutations(Types) \cup Permutations(Values)
              \cup Permutations(Addresses)

-----------------------------------------------------------------------------
(* Properties: those of the components. *)

(* Type invariant.                                                          *)
TypeOK ==
  /\ Lazies!LazyTypeOK /\ Pool!TypeOK /\ List!TypeOK
  /\ IF part = "Ioc" THEN Ioc!TypeOK ELSE Holders!TypeOK
  /\ Old!TypeOK /\ New!TypeOK
  /\ part = "Traits" => Traits!TypeOK

(* Every object has one owner and ends once.  An optional has an object in  *)
(* its storage just when its flag says so, also after a constructor threw;  *)
(* an assignment copies the right side and touches nothing else; only an    *)
(* optional that is emplaced from its own value reads a dead object.  The   *)
(* value of a lazy comes from one call that did not throw.  No two Anys own *)
(* one object.  An object of the pool is in one place, is recycled once,    *)
(* and is deleted when the pool and the handles are.                        *)
OwnedOnce ==
  /\ []( /\ Lazies!FlagTellsLife
         /\ part = "Lazy" => Lazies!LoadedOnce /\ Lazies!NeverMisreads
         /\ part = "Any" => Holders!OwnedOnce
         /\ part = "Pool" => Pool!OneHome /\ Pool!RecycledOnce /\ Pool!NoHandleOutlivesPool )
  /\ Lazies!AssignCopies /\ Lazies!MisreadsOwnValueOnly
  /\ Pool!AllDeleted

(* The tag of an Any or a variant is the type of its object, as long as no  *)
(* object was moved away and no constructor threw in an assignment; only an *)
(* assignment to a variant loses objects, one at most; and what a variant   *)
(* copies, destroys or hands out is such an object, but for the assignment  *)
(* of a variant to itself, which constructs over what it copies.            *)
TagsTellTruth ==
  /\ []( /\ part = "Any" => Holders!TypeTellsObject
         /\ part = "Variant" => Old!TypeTellsTruth /\ Old!LostByAssignment
         /\ part = "VariantNew" => New!TypeTellsTruth /\ New!LostByAssignment )
  /\ [][ /\ part = "Variant" => Old!MisreadsItself
         /\ part = "VariantNew" => New!MisreadsItself ]_forVariant

(* Whatever nodes are inserted beside what, both links of every node tell   *)
(* of one list, and an insertion leaves the order of the others.            *)
LinksAgree ==
  /\ [](part = "List" => List!LinksAgree)
  /\ List!InsertsBeside

(* What is answered about types.  The storage of a variant fits all its     *)
(* types; both headers find the first type that matches, and differ in what *)
(* they say of one that is absent; Visit calls the first handler.           *)
(* to_function takes the rvalues that have one plain signature, and no      *)
(* lvalue.  A key of the IoC container makes objects with one constructor   *)
(* for good, and only for who asks with its signature.                      *)
TypeAnswers ==
  /\ Lists!StorageFits /\ Lists!IndexesFirst /\ Lists!AbsentIndexes /\ Lists!VisitsFirst
  /\ part = "Traits" => Traits!RvaluesConvert
  /\ part = "Ioc" => Ioc!OneConstructor

=============================================================================
