------------------------------ MODULE Optional ------------------------------
(***************************************************************************)
(* Optional<T> of include/optional.hpp: storage for one T and has_init_.   *)
(* What can go wrong is the life of the object in the storage, so live     *)
(* counts the constructions there less the destructions, and the           *)
(* constructors of T may throw.  One thread uses the optionals.            *)
(***************************************************************************)
EXTENDS Integers

CONSTANTS
  Optionals,   \* the variables of type Optional<T>
  Values,      \* the values of T
  None         \* no value

VARIABLES
  opt,         \* has_init_ and data_ of each optional, and whether it exists
  misread      \* a constructor of T read an object that was not alive

vars == << opt, misread >>

Gone == [here |-> FALSE, has_init |-> FALSE, live |-> 0, value |-> None]
Default == [Gone EXCEPT !.here = TRUE]

Init == opt = [o \in Optionals |-> Gone] /\ misread = FALSE

Put(o, s) == opt' = [opt EXCEPT ![o] = s]

(* Placement new in the storage, and the flag. *)
Constructed(s, v) == [s EXCEPT !.live = @ + 1, !.value = v]
Create(s, v) == [Constructed(s, v) EXCEPT !.has_init = TRUE]

Destroy(s) ==
  IF s.has_init THEN [s EXCEPT !.has_init = FALSE, !.live = @ - 1] ELSE s

(* Slip: the flag is set before the constructor, which may throw. *)
FlagFirst(s, v) == { Create(s, v), [s EXCEPT !.has_init = TRUE] }

(* The constructor of T may throw; has_init_ is set only after it. *)
Creations(s, v) == { Create(s, v), s }

(* What a constructor reads from a T: an object that is gone has any value. *)
Read(s) == IF s.live = 1 THEN {s.value} ELSE Values
Reads(s) == misread' = (misread \/ s.live # 1)

DefaultConstruct(o) == ~opt[o].here /\ Put(o, Default) /\ UNCHANGED misread

(* A constructor of Optional that throws leaves no optional. *)
Construct(o, v) ==
  /\ ~opt[o].here
  /\ Put(o, Create(Default, v))
  /\ UNCHANGED misread

IsInit(o) == opt[o].has_init

CopyConstruct(o, p) ==
  /\ ~opt[o].here /\ opt[p].here
  /\ IF IsInit(p)
       THEN /\ Reads(opt[p])
            /\ \E v \in Read(opt[p]) : Put(o, Create(Default, v))
       ELSE Put(o, Default) /\ UNCHANGED misread

Destruct(o) ==
  /\ opt[o].here
  /\ Put(o, [Destroy(opt[o]) EXCEPT !.here = FALSE, !.value = None])
  /\ UNCHANGED misread

NotSelf(o, p) == o # p

(* Copy: the old value goes before the new one is copied.  The right side  *)
(* is read after that, which matters when it is the same optional.         *)
Copy(o, p) ==
  LET rest == Destroy(opt[o])
      from == IF o = p THEN rest ELSE opt[p]
  IN  /\ Reads(from)
      /\ \E v \in Read(from) : \E s \in Creations(rest, v) : Put(o, s)

Assign(o, p) ==
  /\ opt[o].here /\ opt[p].here
  /\ NotSelf(o, p)
  /\ IF IsInit(p) THEN Copy(o, p)
               ELSE Put(o, Destroy(opt[o])) /\ UNCHANGED misread

Emplace(o, v) ==
  /\ opt[o].here
  /\ \E s \in Creations(Destroy(opt[o]), v) : Put(o, s)
  /\ UNCHANGED misread

(* The argument is *p, a reference that operator* gave out. *)
EmplaceFrom(o, p) == opt[o].here /\ IsInit(p) /\ Copy(o, p)

Next == \E o \in Optionals :
  \/ DefaultConstruct(o) \/ Destruct(o)
  \/ \E v \in Values : Construct(o, v) \/ Emplace(o, v)
  \/ \E p \in Optionals : CopyConstruct(o, p) \/ Assign(o, p) \/ EmplaceFrom(o, p)

Spec == Init /\ [][Next]_vars

-----------------------------------------------------------------------------
(* Properties. *)

(* Type invariant. *)
TypeOK ==
  /\ opt \in [Optionals -> [here : BOOLEAN, has_init : BOOLEAN, live : 0..1,
                            value : Values \cup {None}]]
  /\ misread \in BOOLEAN

(* The flag tells the truth: there is one object in the storage if it is    *)
(* set and none otherwise, also after a constructor threw and after the     *)
(* optional has gone.  Nothing is destroyed twice, and nothing is lost.     *)
FlagTellsLife ==
  \A o \in Optionals : opt[o].live = IF opt[o].has_init THEN 1 ELSE 0

Val(o) == IF opt[o].has_init THEN opt[o].value ELSE None

(* Assignment makes the left side equal to the right one, or empty if the   *)
(* copy threw, and touches nothing else.                                    *)
AssignCopies == [][ \A o, p \in Optionals : Assign(o, p) =>
  /\ Val(o)' \in {Val(p), None}
  /\ opt[p].has_init \/ Val(o)' = None
  /\ \A q \in Optionals \ {o} : opt'[q] = opt[q] ]_vars

(* A constructor reads a dead object only when an optional is emplaced from *)
(* its own value, which Emplace destroys first: never in an assignment.     *)
MisreadsOwnValueOnly == [][ misread' # misread =>
  \E o \in Optionals : EmplaceFrom(o, o) ]_vars

=============================================================================
