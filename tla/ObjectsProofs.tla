---------------------------- MODULE ObjectsProofs ----------------------------
(***************************************************************************)
(* Proofs about what one thread keeps its objects in, for every set of     *)
(* variables, keys, types, values, addresses, objects and nodes.  Each     *)
(* component has an inductive invariant of its own, which holds also when  *)
(* the behaviour is one of another part and its variables stay as they     *)
(* are; ObjectsInv is all of them.                                         *)
(***************************************************************************)
EXTENDS MCObjects, DataProofs

USE ObjectsAssumption DEF ObjectsAssumption

-----------------------------------------------------------------------------
(* Optional and Lazy. *)

(* The storage of an optional that is initialised, with the one object that *)
(* is there, or is not.                                                     *)
Slots ==
  { s \in [here : BOOLEAN, has_init : BOOLEAN, live : 0..1, value : Values \cup {Null}] :
      /\ s.live = IF s.has_init THEN 1 ELSE 0
      /\ s.has_init => s.here /\ s.value \in Values }

OptionalInv == opt \in [Variables -> Slots] /\ misread \in BOOLEAN

LazyInv ==
  /\ func \in [Variables -> {"none", "closure"}] /\ ended \in [Variables -> BOOLEAN]
  /\ loads \in [Variables -> 0..1] /\ stray \in BOOLEAN
  /\ part = "Lazy" =>
       /\ ~misread
       /\ \A l \in Variables : loads[l] = IF opt[l].has_init THEN 1 ELSE 0

(* What the operations put in a storage: nothing, and one object where     *)
(* there was none.                                                          *)
LEMMA SlotsMade ==
  /\ Lazies!Gone \in Slots /\ Lazies!Default \in Slots
  /\ ~Lazies!Gone.has_init /\ ~Lazies!Default.has_init /\ Lazies!Default.here
  /\ \A s \in Slots : /\ Lazies!Destroy(s) \in Slots /\ ~Lazies!Destroy(s).has_init
                       /\ Lazies!Destroy(s).here = s.here
  /\ \A s \in Slots, v \in Values : ~s.has_init /\ s.here =>
       /\ Lazies!Create(s, v) \in Slots /\ Lazies!Create(s, v).has_init
       /\ Lazies!Create(s, v).value = v /\ Lazies!Create(s, v) # s
  /\ \A s \in Slots : ~s.has_init =>
       [s EXCEPT !.here = FALSE, !.value = Null] \in Slots
<1> DEFINE Raw == [here : BOOLEAN, has_init : BOOLEAN, live : Int, value : Values \cup {Null}]
<1>1. Lazies!Gone \in Raw /\ Lazies!Gone \in Slots /\ ~Lazies!Gone.has_init
  BY DEF Slots, Lazies!Gone
<1>2. ASSUME NEW s \in Raw
      PROVE  /\ \A b \in BOOLEAN :
                  /\ [s EXCEPT !.here = b] \in Raw /\ [s EXCEPT !.here = b].here = b
                  /\ [s EXCEPT !.here = b].has_init = s.has_init
                  /\ [s EXCEPT !.here = b].live = s.live
                  /\ [s EXCEPT !.here = b].value = s.value
             /\ \A b \in BOOLEAN :
                  /\ [s EXCEPT !.has_init = b] \in Raw /\ [s EXCEPT !.has_init = b].has_init = b
                  /\ [s EXCEPT !.has_init = b].here = s.here
                  /\ [s EXCEPT !.has_init = b].live = s.live
                  /\ [s EXCEPT !.has_init = b].value = s.value
             /\ \A n \in Int :
                  /\ [s EXCEPT !.live = n] \in Raw /\ [s EXCEPT !.live = n].live = n
                  /\ [s EXCEPT !.live = n].has_init = s.has_init
                  /\ [s EXCEPT !.live = n].here = s.here
                  /\ [s EXCEPT !.live = n].value = s.value
             /\ \A v \in Values \cup {Null} :
                  /\ [s EXCEPT !.value = v] \in Raw /\ [s EXCEPT !.value = v].value = v
                  /\ [s EXCEPT !.value = v].has_init = s.has_init
                  /\ [s EXCEPT !.value = v].live = s.live
                  /\ [s EXCEPT !.value = v].here = s.here
  OBVIOUS
<1>3. \A s \in Slots : s \in Raw
  BY DEF Slots
<1>4. \A s \in Raw : s \in Slots <=>
        /\ s.live = IF s.has_init THEN 1 ELSE 0
        /\ s.has_init => s.here /\ s.value \in Values
  BY DEF Slots
<1>5. Lazies!Default \in Slots /\ ~Lazies!Default.has_init /\ Lazies!Default.here
  <2>1. PICK g : g = Lazies!Gone
    OBVIOUS
  <2>2. PICK d : d = [g EXCEPT !.here = TRUE]
    OBVIOUS
  <2>3. d = Lazies!Default
    BY <2>1, <2>2 DEF Lazies!Default
  <2>4. g \in Raw /\ g \in Slots /\ ~g.has_init
    BY <1>1, <2>1
  <2>5. d \in Raw /\ d.has_init = g.has_init /\ d.live = g.live /\ d.here
    BY <2>2, <2>4, <1>2
  <2> HIDE DEF Raw
  <2> QED BY <1>4, <2>3, <2>4, <2>5
<1>6. ASSUME NEW s \in Slots
      PROVE  /\ Lazies!Destroy(s) \in Slots /\ ~Lazies!Destroy(s).has_init
             /\ Lazies!Destroy(s).here = s.here
  <2>1. CASE ~s.has_init
    BY <2>1 DEF Lazies!Destroy
  <2>2. CASE s.has_init
    <3>1. PICK r : r = [s EXCEPT !.has_init = FALSE]
      OBVIOUS
    <3>2. r \in Raw /\ ~r.has_init /\ r.live = s.live /\ s.live = 1 /\ r.here = s.here
      BY <2>2, <3>1, <1>2, <1>3, <1>4
    <3>3. PICK d : d = [r EXCEPT !.live = s.live - 1]
      OBVIOUS
    <3>4. d \in Raw /\ d.live = 0 /\ ~d.has_init /\ d.here = s.here
      BY <3>2, <3>3, <1>2
    <3>5. Lazies!Destroy(s) = d
      BY <2>2, <3>1, <3>3 DEF Lazies!Destroy
    <3> HIDE DEF Raw
    <3> QED BY <1>4, <3>4, <3>5
  <2> QED BY <2>1, <2>2
<1>7. ASSUME NEW s \in Slots, NEW v \in Values, ~s.has_init, s.here
      PROVE  /\ Lazies!Create(s, v) \in Slots /\ Lazies!Create(s, v).has_init
             /\ Lazies!Create(s, v).value = v /\ Lazies!Create(s, v) # s
  <2>1. PICK r : r = [s EXCEPT !.live = s.live + 1]
    OBVIOUS
  <2>2. s \in Raw /\ s.live = 0
    BY <1>3, <1>4, <1>7
  <2>3. r \in Raw /\ r.live = 1 /\ r.here = s.here
    BY <1>2, <2>1, <2>2
  <2>4. PICK d : d = [r EXCEPT !.value = v]
    OBVIOUS
  <2>5. d \in Raw /\ d.live = 1 /\ d.value = v /\ d.here = s.here
    BY <1>2, <2>3, <2>4
  <2>6. PICK c : c = [d EXCEPT !.has_init = TRUE]
    OBVIOUS
  <2>7. c \in Raw /\ c.live = 1 /\ c.value = v /\ c.has_init /\ c.here = s.here
    BY <1>2, <2>5, <2>6
  <2>8. Lazies!Create(s, v) = c
    BY <2>1, <2>4, <2>6 DEF Lazies!Create, Lazies!Constructed
  <2> HIDE DEF Raw
  <2>9. c \in Slots /\ c # s
    BY <1>4, <1>7, <2>7
  <2> QED BY <2>7, <2>8, <2>9
<1>8. ASSUME NEW s \in Slots, ~s.has_init
      PROVE  [s EXCEPT !.here = FALSE, !.value = Null] \in Slots
  <2>1. PICK r : r = [s EXCEPT !.here = FALSE]
    OBVIOUS
  <2>2. r \in Raw /\ r.live = s.live /\ r.has_init = s.has_init
    BY <1>2, <1>3, <2>1
  <2>3. PICK d : d = [r EXCEPT !.value = Null]
    OBVIOUS
  <2>4. d \in Raw /\ d.live = s.live /\ d.has_init = s.has_init
    BY <1>2, <2>2, <2>3
  <2>5. d = [s EXCEPT !.here = FALSE, !.value = Null]
    BY <2>1, <2>3
  <2> HIDE DEF Raw
  <2> QED BY <1>3, <1>4, <1>8, <2>4, <2>5
<1> HIDE DEF Raw
<1> QED BY <1>1, <1>5, <1>6, <1>7, <1>8

(* An operation on optional o puts a storage of its kind in o, and leaves   *)
(* the other optionals alone.                                               *)
OptionalMoved(o) == opt'[o] \in Slots /\ opt' = [opt EXCEPT ![o] = opt'[o]]

(* One optional gets a slot; the others stay.                               *)
LEMMA OptionalPut ==
  ASSUME OptionalInv, NEW o \in Variables, NEW s \in Slots, Lazies!Put(o, s)
  PROVE  OptionalMoved(o) /\ opt'[o] = s
BY DEF OptionalInv, OptionalMoved, Lazies!Put

(* A copy to an optional with another's value reads a live object.          *)
LEMMA OptionalCopy ==
  ASSUME OptionalInv, NEW o \in Variables, NEW p \in Variables,
         opt[o].here, opt[p].has_init, Lazies!Copy(o, p)
  PROVE  /\ OptionalMoved(o) /\ misread' \in BOOLEAN
         /\ o # p => /\ misread' = misread
                     /\ opt'[o].has_init => opt'[o].value = opt[p].value
<1> DEFINE rest == Lazies!Destroy(opt[o])
           from == IF o = p THEN rest ELSE opt[p]
<1>1. opt[o] \in Slots /\ opt[p] \in Slots /\ misread \in BOOLEAN
  BY DEF OptionalInv
<1>2. rest \in Slots /\ ~rest.has_init /\ rest.here
  BY <1>1, SlotsMade
<1>3. /\ Lazies!Reads(from)
      /\ \E v \in Lazies!Read(from) : \E s \in Lazies!Creations(rest, v) : Lazies!Put(o, s)
  BY DEF Lazies!Copy
<1>4. misread' = (misread \/ from.live # 1)
  BY <1>3 DEF Lazies!Reads
<1>5. Lazies!Read(from) \subseteq Values
  <2>1. CASE o = p
    <3>1. from.live = 0
      BY <2>1, <1>2 DEF Slots
    <3> HIDE DEF from
    <3> QED BY <3>1 DEF Lazies!Read
  <2>2. CASE o # p
    <3>1. from = opt[p] /\ opt[p].value \in Values
      BY <2>2, <1>1 DEF Slots
    <3> HIDE DEF from
    <3> QED BY <3>1 DEF Lazies!Read
  <2> QED BY <2>1, <2>2
<1>6. o # p => from.live = 1 /\ Lazies!Read(from) = {opt[p].value}
  <2>1. ASSUME o # p PROVE from = opt[p] /\ opt[p].live = 1
    BY <2>1, <1>1 DEF Slots
  <2> HIDE DEF from
  <2> QED BY <2>1 DEF Lazies!Read
<1> HIDE DEF from, rest
<1>7. \E v \in Values : \E s \in Lazies!Creations(rest, v) :
        Lazies!Put(o, s) /\ (o # p => v = opt[p].value)
  <2>1. PICK v \in Lazies!Read(from) : \E s \in Lazies!Creations(rest, v) : Lazies!Put(o, s)
    BY <1>3
  <2>2. v \in Values /\ (o # p => v = opt[p].value)
    BY <1>5, <1>6, <2>1
  <2>3. PICK s \in Lazies!Creations(rest, v) : Lazies!Put(o, s)
    BY <2>1
  <2> QED BY <2>2, <2>3
<1>8. PICK v \in Values :
        /\ o # p => v = opt[p].value
        /\ \E s \in Lazies!Creations(rest, v) : Lazies!Put(o, s)
  BY <1>7
<1>9. PICK s \in Lazies!Creations(rest, v) : Lazies!Put(o, s)
  BY <1>8
<1>10. s \in Slots /\ (s.has_init => s.value = v)
  BY <1>2, <1>9, SlotsMade DEF Lazies!Creations
<1>11. OptionalMoved(o) /\ opt'[o] = s
  BY <1>9, <1>10, OptionalPut
<1> QED BY <1>1, <1>4, <1>6, <1>8, <1>10, <1>11

(* What each operation leaves.                                              *)
LEMMA OptionalDefault ==
  ASSUME OptionalInv, NEW o \in Variables, Lazies!DefaultConstruct(o)
  PROVE  /\ OptionalMoved(o) /\ misread' = misread
         /\ ~opt[o].has_init /\ ~opt'[o].has_init
<1>1. ~opt[o].here /\ Lazies!Put(o, Lazies!Default) /\ misread' = misread
  BY DEF Lazies!DefaultConstruct
<1>2. Lazies!Default \in Slots /\ ~Lazies!Default.has_init
  BY SlotsMade
<1>3. ~opt[o].has_init
  BY <1>1 DEF OptionalInv, Slots
<1> QED BY <1>1, <1>2, <1>3, OptionalPut

(* A default constructor or one from a value.                               *)
LEMMA OptionalConstruct ==
  ASSUME OptionalInv, NEW o \in Variables, NEW v \in Values, Lazies!Construct(o, v)
  PROVE  OptionalMoved(o) /\ misread' = misread
BY SlotsMade, OptionalPut DEF Lazies!Construct

(* A copy constructor, whose source may hold nothing.                       *)
LEMMA OptionalCopyConstruct ==
  ASSUME OptionalInv, NEW o \in Variables, NEW p \in Variables, Lazies!CopyConstruct(o, p)
  PROVE  /\ OptionalMoved(o) /\ misread' = misread
         /\ opt'[o].has_init => opt[p].has_init
<1>1. opt[p] \in Slots /\ misread \in BOOLEAN
  BY DEF OptionalInv
<1>2. CASE opt[p].has_init
  <2>1. opt[p].live = 1 /\ opt[p].value \in Values
    BY <1>1, <1>2 DEF Slots
  <2>2. Lazies!Reads(opt[p]) /\ Lazies!Put(o, Lazies!Create(Lazies!Default, opt[p].value))
    BY <1>2, <2>1 DEF Lazies!CopyConstruct, Lazies!IsInit, Lazies!Read
  <2>3. misread' = misread
    BY <1>1, <2>1, <2>2 DEF Lazies!Reads
  <2> QED BY <1>2, <2>1, <2>2, <2>3, SlotsMade, OptionalPut
<1>3. CASE ~opt[p].has_init
  <2>1. Lazies!Put(o, Lazies!Default) /\ misread' = misread
    BY <1>3 DEF Lazies!CopyConstruct, Lazies!IsInit
  <2>2. Lazies!Default \in Slots /\ ~Lazies!Default.has_init
    BY SlotsMade
  <2> QED BY <2>1, <2>2, OptionalPut
<1> QED BY <1>2, <1>3

(* The destructor ends the object that is there.                            *)
LEMMA OptionalDestruct ==
  ASSUME OptionalInv, NEW o \in Variables, Lazies!Destruct(o)
  PROVE  OptionalMoved(o) /\ ~opt'[o].has_init /\ misread' = misread
<1>1. opt[o] \in Slots
  BY DEF OptionalInv
<1>2. PICK s : s = Lazies!Destroy(opt[o])
  OBVIOUS
<1>3. s \in Slots /\ ~s.has_init
  BY <1>1, <1>2, SlotsMade
<1>4. PICK r : r = [s EXCEPT !.here = FALSE, !.value = Null]
  OBVIOUS
<1>5. r \in Slots
  BY <1>3, <1>4, SlotsMade
<1>6. ~r.has_init
  <2>1. PICK q : q = [s EXCEPT !.here = FALSE]
    OBVIOUS
  <2>2. r = [q EXCEPT !.value = Null] /\ ~q.has_init /\ s \in Slots
    BY <1>3, <1>4, <2>1 DEF Slots
  <2>3. q \in [here : BOOLEAN, has_init : BOOLEAN, live : 0..1, value : Values \cup {Null}]
    BY <1>3, <2>1 DEF Slots
  <2> QED BY <2>2, <2>3
<1>7. Lazies!Put(o, r) /\ misread' = misread
  BY <1>2, <1>4 DEF Lazies!Destruct
<1> QED BY <1>5, <1>6, <1>7, OptionalPut

(* An assignment, with a copy constructor that may throw.                   *)
LEMMA OptionalAssign ==
  ASSUME OptionalInv, NEW o \in Variables, NEW p \in Variables, Lazies!Assign(o, p)
  PROVE  /\ OptionalMoved(o) /\ misread' = misread
         /\ opt'[o].has_init => opt[p].has_init /\ opt'[o].value = opt[p].value
<1>1. o # p /\ opt[o] \in Slots /\ opt[o].here
  BY DEF OptionalInv, Lazies!Assign, Lazies!NotSelf
<1>2. CASE opt[p].has_init
  <2>1. Lazies!Copy(o, p)
    BY <1>2 DEF Lazies!Assign, Lazies!IsInit
  <2> QED BY <1>1, <1>2, <2>1, OptionalCopy
<1>3. CASE ~opt[p].has_init
  <2>1. Lazies!Put(o, Lazies!Destroy(opt[o])) /\ misread' = misread
    BY <1>3 DEF Lazies!Assign, Lazies!IsInit
  <2>2. Lazies!Destroy(opt[o]) \in Slots /\ ~Lazies!Destroy(opt[o]).has_init
    BY <1>1, SlotsMade
  <2> QED BY <2>1, <2>2, OptionalPut
<1> QED BY <1>2, <1>3

(* Emplace, whose constructor may throw when the old object has ended.      *)
LEMMA OptionalEmplace ==
  ASSUME OptionalInv, NEW o \in Variables, NEW v \in Values, Lazies!Emplace(o, v)
  PROVE  OptionalMoved(o) /\ misread' = misread
<1>1. PICK s \in Lazies!Creations(Lazies!Destroy(opt[o]), v) :
        Lazies!Put(o, s) /\ misread' = misread
  BY DEF Lazies!Emplace
<1>2. opt[o] \in Slots /\ opt[o].here
  BY DEF OptionalInv, Lazies!Emplace
<1>3. s \in Slots
  BY <1>1, <1>2, SlotsMade DEF Lazies!Creations
<1> QED BY <1>1, <1>3, OptionalPut

(* Emplace from the value of an optional: of this one, it reads a dead      *)
(* object.                                                                  *)
LEMMA OptionalEmplaceFrom ==
  ASSUME OptionalInv, NEW o \in Variables, NEW p \in Variables, Lazies!EmplaceFrom(o, p)
  PROVE  OptionalMoved(o) /\ misread' \in BOOLEAN /\ (o # p => misread' = misread)
BY OptionalCopy DEF Lazies!EmplaceFrom, Lazies!IsInit

(* Whatever is done to optionals, only one that is emplaced from its own    *)
(* value reads a dead object.                                               *)
LEMMA OptionalNext ==
  ASSUME OptionalInv, Lazies!Next
  PROVE  /\ OptionalInv'
         /\ misread' # misread => \E o \in Variables : Lazies!EmplaceFrom(o, o)
<1>1. misread \in BOOLEAN
  BY DEF OptionalInv
<1>2. ASSUME NEW o \in Variables, OptionalMoved(o), misread' \in BOOLEAN
      PROVE  OptionalInv'
  BY <1>2 DEF OptionalInv, OptionalMoved
<1>3. PICK o \in Variables :
        \/ Lazies!DefaultConstruct(o) \/ Lazies!Destruct(o)
        \/ \E v \in Values : Lazies!Construct(o, v) \/ Lazies!Emplace(o, v)
        \/ \E p \in Variables :
             Lazies!CopyConstruct(o, p) \/ Lazies!Assign(o, p) \/ Lazies!EmplaceFrom(o, p)
  BY DEF Lazies!Next
<1>4. CASE Lazies!DefaultConstruct(o)
  BY <1>1, <1>2, <1>4, OptionalDefault
<1>5. CASE Lazies!Destruct(o)
  BY <1>1, <1>2, <1>5, OptionalDestruct
<1>6. ASSUME NEW v \in Values, Lazies!Construct(o, v) \/ Lazies!Emplace(o, v)
      PROVE  OptionalInv' /\ misread' = misread
  BY <1>1, <1>2, <1>6, OptionalConstruct, OptionalEmplace
<1>7. ASSUME NEW p \in Variables, Lazies!CopyConstruct(o, p) \/ Lazies!Assign(o, p)
      PROVE  OptionalInv' /\ misread' = misread
  BY <1>1, <1>2, <1>7, OptionalCopyConstruct, OptionalAssign
<1>8. ASSUME NEW p \in Variables, Lazies!EmplaceFrom(o, p)
      PROVE  OptionalInv' /\ (misread' = misread \/ o = p)
  BY <1>2, <1>8, OptionalEmplaceFrom
<1>9. ASSUME NEW p \in Variables, Lazies!EmplaceFrom(o, p)
      PROVE  misread' # misread => \E q \in Variables : Lazies!EmplaceFrom(q, q)
  BY <1>8, <1>9
<1> QED BY <1>3, <1>4, <1>5, <1>6, <1>7, <1>8, <1>9

(* A lazy whose operation leaves the count of one call just when it leaves  *)
(* a value.                                                                 *)
LazyMoved(l) ==
  /\ OptionalMoved(l) /\ misread' = misread
  /\ func' \in [Variables -> {"none", "closure"}] /\ ended' \in [Variables -> BOOLEAN]
  /\ stray' \in BOOLEAN
  /\ loads' = [loads EXCEPT ![l] = IF opt'[l].has_init THEN 1 ELSE 0]

(* What keeps the invariant of lazies.                                      *)
LEMMA LazyStays ==
  ASSUME OptionalInv, LazyInv, part = "Lazy", part' = part, NEW l \in Variables, LazyMoved(l)
  PROVE  OptionalInv' /\ LazyInv'
<1>1. /\ misread \in BOOLEAN /\ opt \in [Variables -> Slots] /\ ~misread
      /\ loads \in [Variables -> 0..1]
      /\ \A m \in Variables : loads[m] = IF opt[m].has_init THEN 1 ELSE 0
  BY DEF OptionalInv, LazyInv
<1>2. PICK n \in 0..1 : n = IF opt'[l].has_init THEN 1 ELSE 0
  OBVIOUS
<1>3. loads' = [loads EXCEPT ![l] = n] /\ misread' = misread
  BY <1>2 DEF LazyMoved
<1>4. opt' = [opt EXCEPT ![l] = opt'[l]] /\ opt'[l] \in Slots
  BY DEF LazyMoved, OptionalMoved
<1>5. OptionalInv'
  BY <1>1, <1>3, <1>4 DEF OptionalInv
<1>6. loads' \in [Variables -> 0..1]
  BY <1>1, <1>3
<1>7. ASSUME NEW m \in Variables
      PROVE  loads'[m] = IF opt'[m].has_init THEN 1 ELSE 0
  BY <1>1, <1>2, <1>3, <1>4
<1> QED BY <1>1, <1>3, <1>5, <1>6, <1>7 DEF LazyInv, LazyMoved

(* Nothing but Value() and the copies brings a value, and with it the count *)
(* of its calls.                                                            *)
LEMMA LazyMoves ==
  ASSUME OptionalInv, LazyInv, part = "Lazy", Lazies!LazyNext
  PROVE  \E l \in Variables : LazyMoved(l)
<1>1. /\ misread \in BOOLEAN /\ opt \in [Variables -> Slots]
      /\ func \in [Variables -> {"none", "closure"}] /\ ended \in [Variables -> BOOLEAN]
      /\ loads \in [Variables -> 0..1] /\ stray \in BOOLEAN
      /\ \A l \in Variables : loads[l] = IF opt[l].has_init THEN 1 ELSE 0
  BY DEF OptionalInv, LazyInv
<1>2. PICK l \in Variables :
        \/ Lazies!LazyDefault(l) \/ Lazies!LazyBegin(l) \/ Lazies!LazyReturn(l)
        \/ Lazies!Value(l) \/ Lazies!LazyDestruct(l)
        \/ \E m \in Variables : Lazies!LazyCopy(l, m) \/ Lazies!LazyAssign(l, m)
  BY DEF Lazies!LazyNext
<1>3. ASSUME loads' = loads, opt'[l].has_init = opt[l].has_init
      PROVE  loads' = [loads EXCEPT ![l] = IF opt'[l].has_init THEN 1 ELSE 0]
  BY <1>1, <1>3
<1>4. ASSUME Lazies!LazyDefault(l) \/ Lazies!LazyBegin(l)
      PROVE  LazyMoved(l)
  <2>1. Lazies!DefaultConstruct(l) /\ loads' = loads /\ stray' = stray
    BY <1>4 DEF Lazies!LazyDefault, Lazies!LazyBegin
  <2>2. /\ OptionalMoved(l) /\ misread' = misread
        /\ ~opt[l].has_init /\ ~opt'[l].has_init
    BY <2>1, OptionalDefault
  <2>3. func' \in [Variables -> {"none", "closure"}] /\ ended' \in [Variables -> BOOLEAN]
    BY <1>1, <1>4 DEF Lazies!LazyDefault, Lazies!LazyBegin
  <2>4. opt'[l].has_init = opt[l].has_init
    <3>1. opt[l].has_init \in BOOLEAN /\ opt'[l].has_init \in BOOLEAN
      BY <1>1, <2>2 DEF Slots, OptionalMoved
    <3> QED BY <2>2, <3>1
  <2> QED BY <1>1, <1>3, <2>1, <2>2, <2>3, <2>4 DEF LazyMoved
<1>5. ASSUME Lazies!LazyReturn(l) PROVE LazyMoved(l)
  <2>1. opt' = opt /\ misread' = misread /\ func' = func /\ loads' = loads /\ stray' = stray
        /\ ended' = [ended EXCEPT ![l] = TRUE]
    BY <1>5 DEF Lazies!LazyReturn
  <2>2. OptionalMoved(l)
    BY <1>1, <2>1 DEF OptionalMoved
  <2> QED BY <1>1, <1>3, <2>1, <2>2 DEF LazyMoved
<1>6. ASSUME Lazies!Value(l) PROVE LazyMoved(l)
  <2>1. /\ opt[l].here /\ ~opt[l].has_init
        /\ misread' = misread /\ func' = func /\ ended' = ended
        /\ stray' \in BOOLEAN
    BY <1>1, <1>6 DEF Lazies!Value, Lazies!Made, Lazies!NeedsValue
  <2>2. PICK v, s :
            /\ v \in Values /\ s \in Lazies!Creations(Lazies!Destroy(opt[l]), v) \cup {opt[l]}
            /\ Lazies!Put(l, s)
            /\ loads' = [loads EXCEPT ![l] = IF s # opt[l] THEN @ + 1 ELSE @]
    BY <1>6 DEF Lazies!Value
  <2>3. Lazies!Destroy(opt[l]) = opt[l]
    BY <2>1 DEF Lazies!Destroy
  <2>4. opt[l] \in Slots
    BY <1>1
  <2>5. s \in Slots /\ (s.has_init <=> s # opt[l])
    <3>1. s \in { Lazies!Create(opt[l], v), opt[l] }
      <4>1. s \in Lazies!Creations(opt[l], v) \cup {opt[l]}
        BY <2>2, <2>3, Zenon
      <4> QED BY <4>1 DEF Lazies!Creations
    <3>2. v \in Values
      BY <2>2, Zenon
    <3>3. \A r \in Slots : ~r.has_init /\ r.here =>
            /\ Lazies!Create(r, v) \in Slots /\ Lazies!Create(r, v).has_init
            /\ Lazies!Create(r, v) # r
      BY <3>2, SlotsMade
    <3>4. /\ Lazies!Create(opt[l], v) \in Slots /\ Lazies!Create(opt[l], v).has_init
          /\ Lazies!Create(opt[l], v) # opt[l]
      BY <2>1, <2>4, <3>3, Zenon
    <3>5. CASE s = Lazies!Create(opt[l], v)
      BY <3>4, <3>5
    <3>6. CASE s = opt[l]
      BY <2>1, <2>4, <3>6
    <3> QED BY <3>1, <3>5, <3>6
  <2>6. OptionalMoved(l) /\ opt'[l] = s
    BY <2>2, <2>5, OptionalPut
  <2>7. loads[l] = 0
    BY <1>1, <2>1
  <2>8. loads' = [loads EXCEPT ![l] = IF s.has_init THEN 1 ELSE 0]
    <3>1. CASE s.has_init
      BY <1>1, <2>2, <2>5, <2>7, <3>1
    <3>2. CASE ~s.has_init
      BY <1>1, <2>2, <2>5, <2>7, <3>2
    <3> QED BY <3>1, <3>2
  <2> QED BY <1>1, <2>1, <2>6, <2>8 DEF LazyMoved
<1>7. ASSUME Lazies!LazyDestruct(l) PROVE LazyMoved(l)
  <2>1. /\ Lazies!Destruct(l) /\ ended' = ended /\ stray' = stray
        /\ func' = [func EXCEPT ![l] = "none"] /\ loads' = [loads EXCEPT ![l] = 0]
    BY <1>7 DEF Lazies!LazyDestruct
  <2>2. OptionalMoved(l) /\ ~opt'[l].has_init /\ misread' = misread
    BY <2>1, OptionalDestruct
  <2> QED BY <1>1, <2>1, <2>2 DEF LazyMoved
<1>8. ASSUME NEW m \in Variables, Lazies!LazyCopy(l, m) \/ Lazies!LazyAssign(l, m)
      PROVE  LazyMoved(l)
  <2>1. /\ Lazies!CopyConstruct(l, m) \/ Lazies!Assign(l, m)
        /\ ended' = ended /\ stray' = stray /\ func' = [func EXCEPT ![l] = func[m]]
        /\ loads' = [loads EXCEPT ![l] = IF opt'[l].has_init THEN loads[m] ELSE 0]
    BY <1>8 DEF Lazies!LazyCopy, Lazies!LazyAssign, Lazies!CopiedLoads
  <2>2. /\ OptionalMoved(l) /\ misread' = misread
        /\ opt'[l].has_init => opt[m].has_init
    BY <2>1, OptionalCopyConstruct, OptionalAssign
  <2>3. opt'[l].has_init => loads[m] = 1
    BY <1>1, <2>2
  <2>4. loads' = [loads EXCEPT ![l] = IF opt'[l].has_init THEN 1 ELSE 0]
    BY <2>1, <2>3
  <2> QED BY <1>1, <2>1, <2>2, <2>4 DEF LazyMoved
<1> QED BY <1>2, <1>4, <1>5, <1>6, <1>7, <1>8

(* The type invariant and the properties of the optionals and lazies.      *)
LEMMA LazyMeans ==
  ASSUME OptionalInv, LazyInv
  PROVE  /\ Lazies!LazyTypeOK /\ Lazies!FlagTellsLife
         /\ part = "Lazy" => Lazies!LoadedOnce /\ Lazies!NeverMisreads
<1>1. Lazies!TypeOK
  BY DEF OptionalInv, Slots, Lazies!TypeOK
<1>2. Lazies!FlagTellsLife
  BY DEF OptionalInv, Slots, Lazies!FlagTellsLife
<1> QED BY <1>1, <1>2 DEF LazyInv, Lazies!LazyTypeOK, Lazies!LoadedOnce, Lazies!NeverMisreads

(* At first there is no lazy and no optional.                               *)
LEMMA LazyBegins ==
  ASSUME Lazies!LazyInit
  PROVE  OptionalInv /\ LazyInv
<1>1. OptionalInv
  BY SlotsMade DEF Lazies!LazyInit, Lazies!Init, OptionalInv
<1>2. \A l \in Variables : ~opt[l].has_init
  BY SlotsMade DEF Lazies!LazyInit, Lazies!Init
<1>3. /\ func \in [Variables -> {"none", "closure"}] /\ ended \in [Variables -> BOOLEAN]
      /\ loads \in [Variables -> 0..1] /\ stray \in BOOLEAN
  <2>1. /\ func = [l \in Variables |-> "none"] /\ ended = [l \in Variables |-> TRUE]
        /\ loads = [l \in Variables |-> 0] /\ stray = FALSE
    BY DEF Lazies!LazyInit
  <2>2. func \in [Variables -> {"none", "closure"}]
    BY <2>1
  <2>3. ended \in [Variables -> BOOLEAN] /\ stray \in BOOLEAN
    BY <2>1
  <2>4. loads \in [Variables -> 0..1]
    BY <2>1
  <2> QED BY <2>2, <2>3, <2>4
<1>4. ~misread /\ \A l \in Variables : loads[l] = 0
  BY DEF Lazies!LazyInit, Lazies!Init
<1> QED BY <1>1, <1>2, <1>3, <1>4 DEF LazyInv

(* Assignments copy, as a property of every step from such a state.         *)
LEMMA LazyAssigns ==
  ASSUME OptionalInv, NEW o \in Variables, NEW p \in Variables, Lazies!Assign(o, p)
  PROVE  /\ Lazies!Val(o)' \in {Lazies!Val(p), Null}
         /\ opt[p].has_init \/ Lazies!Val(o)' = Null
         /\ \A q \in Variables \ {o} : opt'[q] = opt[q]
<1>1. /\ OptionalMoved(o) /\ opt \in [Variables -> Slots]
      /\ opt'[o].has_init => opt[p].has_init /\ opt'[o].value = opt[p].value
  BY OptionalAssign DEF OptionalInv
<1>2. Lazies!Val(o)' = IF opt'[o].has_init THEN opt'[o].value ELSE Null
  BY DEF Lazies!Val
<1> QED BY <1>1, <1>2 DEF Lazies!Val, OptionalMoved

-----------------------------------------------------------------------------
(* Any. *)

Holdings(S) ==
  [S -> [here : BOOLEAN, ptr : Addresses \cup {Null}, type : Types \cup {"void"}]]

Things == [type : Types, value : Values]

(* Each object has one owner, and each owner's type is that of its object. *)
HoldersInv ==
  /\ any \in Holdings(Variables)
  /\ hollow \subseteq Variables /\ crashed \in BOOLEAN
  /\ \A p \in DOMAIN heap : p \in Addresses /\ heap[p] \in Things
  /\ \A p \in DOMAIN heap : \E x \in Variables : any[x].ptr = p
  /\ \A x \in Variables : any[x].ptr # Null =>
       any[x].ptr \in DOMAIN heap /\ heap[any[x].ptr].type = any[x].type
  /\ \A x, y \in Variables : any[x].ptr = any[y].ptr /\ any[x].ptr # Null => x = y
  /\ \A x \in Variables : any[x].ptr = Null => any[x].type = "void" \/ x \in hollow
  /\ \A x \in Variables : ~any[x].here => any[x] = Holders!Gone

(* What new and delete do to the heap.                                      *)
LEMMA HeapChanged ==
  ASSUME NEW h, NEW q, NEW o
  PROVE  /\ DOMAIN Holders!Freed(h, q) = DOMAIN h \ {q}
         /\ \A p \in DOMAIN h \ {q} : Holders!Freed(h, q)[p] = h[p]
         /\ DOMAIN Holders!Made(h, q, o) = DOMAIN h \cup {q}
         /\ Holders!Made(h, q, o)[q] = o
         /\ \A p \in DOMAIN h \ {q} : Holders!Made(h, q, o)[p] = h[p]
BY DEF Holders!Freed, Holders!Restrict, Holders!Made

(* x gives up what it owned, and owns nothing afterwards, or a new object.  *)
LEMMA HolderChanged ==
  ASSUME HoldersInv, NEW x \in Variables,
         NEW r \in [here : BOOLEAN, ptr : Addresses \cup {Null}, type : Types \cup {"void"}],
         any' = [any EXCEPT ![x] = r],
         DOMAIN heap' = (DOMAIN heap \ {any[x].ptr}) \cup ({r.ptr} \ {Null}),
         \A p \in DOMAIN heap \ {any[x].ptr} : heap'[p] = heap[p],
         r.ptr # Null =>
           r.ptr \notin DOMAIN heap /\ heap'[r.ptr] \in Things /\ heap'[r.ptr].type = r.type,
         r.ptr = Null => r.type = "void" \/ x \in hollow',
         ~r.here => r = Holders!Gone,
         hollow' \subseteq Variables, hollow \ {x} \subseteq hollow', crashed' \in BOOLEAN
  PROVE  HoldersInv'
<1>1. /\ any \in Holdings(Variables)
      /\ \A p \in DOMAIN heap : p \in Addresses /\ heap[p] \in Things
      /\ \A p \in DOMAIN heap : \E y \in Variables : any[y].ptr = p
      /\ \A y \in Variables : any[y].ptr # Null =>
           any[y].ptr \in DOMAIN heap /\ heap[any[y].ptr].type = any[y].type
      /\ \A y, z \in Variables : any[y].ptr = any[z].ptr /\ any[y].ptr # Null => y = z
      /\ \A y \in Variables : any[y].ptr = Null => any[y].type = "void" \/ y \in hollow
      /\ \A y \in Variables : ~any[y].here => any[y] = Holders!Gone
  BY DEF HoldersInv
<1>2. any' \in Holdings(Variables) /\ any'[x] = r /\ \A y \in Variables \ {x} : any'[y] = any[y]
  BY <1>1 DEF Holdings
<1>3. Null \notin DOMAIN heap
  BY <1>1
<1>4. \A p \in DOMAIN heap' : p \in Addresses /\ heap'[p] \in Things
  <2>1. ASSUME NEW p \in DOMAIN heap' PROVE p \in Addresses /\ heap'[p] \in Things
    <3>1. CASE p \in DOMAIN heap \ {any[x].ptr}
      BY <1>1, <3>1
    <3>2. CASE p = r.ptr /\ p # Null
      BY <3>2
    <3> QED BY <2>1, <3>1, <3>2
  <2> QED BY <2>1
<1>5. \A p \in DOMAIN heap' : \E y \in Variables : any'[y].ptr = p
  <2>1. ASSUME NEW p \in DOMAIN heap' PROVE \E y \in Variables : any'[y].ptr = p
    <3>1. CASE p \in DOMAIN heap \ {any[x].ptr}
      <4>1. PICK y \in Variables : any[y].ptr = p
        BY <1>1, <3>1
      <4> QED BY <1>2, <3>1, <4>1
    <3>2. CASE p = r.ptr /\ p # Null
      BY <1>2, <3>2
    <3> QED BY <2>1, <3>1, <3>2
  <2> QED BY <2>1
<1>6. ASSUME NEW y \in Variables \ {x}, any[y].ptr # Null
      PROVE  /\ any[y].ptr \in DOMAIN heap \ {any[x].ptr} /\ any[y].ptr # r.ptr
             /\ heap[any[y].ptr].type = any[y].type
  BY <1>1, <1>6
<1>7. \A y \in Variables : any'[y].ptr # Null =>
        any'[y].ptr \in DOMAIN heap' /\ heap'[any'[y].ptr].type = any'[y].type
  <2>1. ASSUME NEW y \in Variables \ {x}, any[y].ptr # Null
        PROVE  any[y].ptr \in DOMAIN heap' /\ heap'[any[y].ptr].type = any[y].type
    BY <1>6, <2>1
  <2>2. r.ptr # Null => r.ptr \in DOMAIN heap' /\ heap'[r.ptr].type = r.type
    OBVIOUS
  <2> QED BY <1>2, <2>1, <2>2
<1>8. \A y, z \in Variables : any'[y].ptr = any'[z].ptr /\ any'[y].ptr # Null => y = z
  BY <1>1, <1>2, <1>6
<1>9. \A y \in Variables : any'[y].ptr = Null => any'[y].type = "void" \/ y \in hollow'
  BY <1>1, <1>2
<1>10. \A y \in Variables : ~any'[y].here => any'[y] = Holders!Gone
  BY <1>1, <1>2
<1>11. Holders!Gone' = Holders!Gone
  BY DEF Holders!Gone
<1> QED BY <1>2, <1>4, <1>5, <1>7, <1>8, <1>9, <1>10, <1>11 DEF HoldersInv

(* The variable y keeps a type without an object, x takes both.             *)
LEMMA HolderMoved ==
  ASSUME HoldersInv, NEW x \in Variables, NEW y \in Variables, Holders!MoveConstruct(x, y)
  PROVE  HoldersInv'
<1>1. /\ any \in Holdings(Variables) /\ hollow \subseteq Variables /\ crashed \in BOOLEAN
      /\ \A p \in DOMAIN heap : p \in Addresses /\ heap[p] \in Things
      /\ \A p \in DOMAIN heap : \E z \in Variables : any[z].ptr = p
      /\ \A z \in Variables : any[z].ptr # Null =>
           any[z].ptr \in DOMAIN heap /\ heap[any[z].ptr].type = any[z].type
      /\ \A z, w \in Variables : any[z].ptr = any[w].ptr /\ any[z].ptr # Null => z = w
      /\ \A z \in Variables : any[z].ptr = Null => any[z].type = "void" \/ z \in hollow
      /\ \A z \in Variables : ~any[z].here => any[z] = Holders!Gone
  BY DEF HoldersInv
<1>2. /\ ~any[x].here /\ any[y].here /\ x # y /\ any[x].ptr = Null
      /\ heap' = heap /\ crashed' = crashed
  BY <1>1 DEF Holders!MoveConstruct, Holders!Gone
<1>3. PICK r : r = [any[y] EXCEPT !.here = TRUE]
  OBVIOUS
<1>4. /\ r \in [here : BOOLEAN, ptr : Addresses \cup {Null}, type : Types \cup {"void"}]
      /\ r.ptr = any[y].ptr /\ r.type = any[y].type /\ r.here
  <2>1. any[y] \in [here : BOOLEAN, ptr : Addresses \cup {Null}, type : Types \cup {"void"}]
    BY <1>1 DEF Holdings
  <2> QED BY <1>3, <2>1
<1>5. PICK s : s = [any[y] EXCEPT !.ptr = Null]
  OBVIOUS
<1>6. /\ s \in [here : BOOLEAN, ptr : Addresses \cup {Null}, type : Types \cup {"void"}]
      /\ s.ptr = Null /\ s.type = any[y].type /\ s.here
  BY <1>1, <1>2, <1>5 DEF Holdings
<1>7. any' = [any EXCEPT ![x] = r, ![y] = s]
  BY <1>1, <1>2, <1>3, <1>5 DEF Holders!MoveConstruct, Holdings
<1>8. /\ any' \in Holdings(Variables) /\ any'[x] = r /\ any'[y] = s
      /\ \A z \in Variables \ {x, y} : any'[z] = any[z]
  BY <1>1, <1>2, <1>4, <1>6, <1>7 DEF Holdings
<1>9. /\ hollow' \subseteq Variables /\ hollow \ {x} \subseteq hollow'
      /\ y \in hollow => x \in hollow'
      /\ any[y].ptr # Null => y \in hollow'
  BY <1>1 DEF Holders!MoveConstruct
<1>10. \A p \in DOMAIN heap : \E z \in Variables : any'[z].ptr = p
  <2>1. ASSUME NEW p \in DOMAIN heap PROVE \E z \in Variables : any'[z].ptr = p
    <3>1. PICK z \in Variables : any[z].ptr = p /\ p # Null
      BY <1>1
    <3>2. CASE z = y
      BY <1>4, <1>8, <3>1, <3>2
    <3>3. CASE z # y
      BY <1>2, <1>8, <3>1, <3>3
    <3> QED BY <3>2, <3>3
  <2> QED BY <2>1
<1>11. \A z \in Variables : any'[z].ptr # Null =>
         any'[z].ptr \in DOMAIN heap /\ heap[any'[z].ptr].type = any'[z].type
  BY <1>1, <1>4, <1>6, <1>8
<1>12. \A z, w \in Variables : any'[z].ptr = any'[w].ptr /\ any'[z].ptr # Null => z = w
  BY <1>1, <1>4, <1>6, <1>8
<1>13. \A z \in Variables : any'[z].ptr = Null => any'[z].type = "void" \/ z \in hollow'
  BY <1>1, <1>4, <1>6, <1>8, <1>9
<1>14. \A z \in Variables : ~any'[z].here => any'[z] = Holders!Gone
  BY <1>1, <1>4, <1>6, <1>8
<1>15. Holders!Gone' = Holders!Gone
  BY DEF Holders!Gone
<1> QED BY <1>1, <1>2, <1>8, <1>9, <1>10, <1>11, <1>12, <1>13, <1>14, <1>15 DEF HoldersInv

(* A reference from AnyCast reaches the object, and no other.               *)
LEMMA HolderCast ==
  ASSUME HoldersInv, NEW x \in Variables, NEW t \in Types, NEW v \in Values,
         Holders!AnyCast(x, t, v)
  PROVE  HoldersInv'
<1>1. any' = any /\ hollow' = hollow /\ crashed' \in BOOLEAN
  BY DEF HoldersInv, Holders!AnyCast
<1>2. /\ \A p \in DOMAIN heap : p \in Addresses /\ heap[p] \in Things
      /\ \A z \in Variables : any[z].ptr # Null => any[z].ptr \in DOMAIN heap
  BY DEF HoldersInv
<1>3. /\ DOMAIN heap' = DOMAIN heap
      /\ \A p \in DOMAIN heap : heap'[p] \in Things /\ heap'[p].type = heap[p].type
  <2>1. CASE any[x].ptr = Null
    BY <1>2, <2>1 DEF Holders!AnyCast
  <2>2. CASE any[x].ptr # Null
    <3>1. PICK o : o = [heap[any[x].ptr] EXCEPT !.value = v]
      OBVIOUS
    <3>2. heap' = [heap EXCEPT ![any[x].ptr] = o]
      BY <2>2, <3>1 DEF Holders!AnyCast
    <3>3. o \in Things /\ o.type = heap[any[x].ptr].type
      BY <1>2, <2>2, <3>1 DEF Things
    <3> QED BY <1>2, <2>2, <3>2, <3>3
  <2> QED BY <2>1, <2>2
<1>4. Holders!Gone' = Holders!Gone
  BY DEF Holders!Gone
<1> QED BY <1>1, <1>2, <1>3, <1>4 DEF HoldersInv

(* A new object of type t at q.                                             *)
LEMMA HolderMade ==
  ASSUME HoldersInv, NEW x \in Variables, NEW t \in Types, NEW o \in Things, o.type = t,
         NEW q \in Addresses, q \notin DOMAIN heap,
         any' = [any EXCEPT ![x] = Holders!Holding(q, t)],
         DOMAIN heap' = (DOMAIN heap \ {any[x].ptr}) \cup {q},
         \A p \in DOMAIN heap \ {any[x].ptr} : heap'[p] = heap[p],
         heap'[q] = o,
         hollow' \subseteq Variables, hollow \ {x} \subseteq hollow', crashed' = crashed
  PROVE  HoldersInv'
<1>1. PICK r : r = Holders!Holding(q, t)
  OBVIOUS
<1>2. /\ r \in [here : BOOLEAN, ptr : Addresses \cup {Null}, type : Types \cup {"void"}]
      /\ r.ptr = q /\ r.type = t /\ r.here /\ q # Null
  BY <1>1 DEF Holders!Holding
<1>3. any' = [any EXCEPT ![x] = r] /\ crashed' \in BOOLEAN
  BY <1>1 DEF HoldersInv
<1>4. {r.ptr} \ {Null} = {q}
  BY <1>2
<1> QED BY <1>2, <1>3, <1>4, HolderChanged

(* No object any more.                                                      *)
LEMMA HolderEmptied ==
  ASSUME HoldersInv, NEW x \in Variables, NEW t \in Types \cup {"void"}, NEW h \in BOOLEAN,
         any' = [any EXCEPT ![x] = [here |-> h, ptr |-> Null, type |-> t]],
         h \/ t = "void",
         DOMAIN heap' = DOMAIN heap \ {any[x].ptr},
         \A p \in DOMAIN heap \ {any[x].ptr} : heap'[p] = heap[p],
         t = "void" \/ x \in hollow',
         hollow' \subseteq Variables, hollow \ {x} \subseteq hollow', crashed' = crashed
  PROVE  HoldersInv'
<1>1. PICK r : r = [here |-> h, ptr |-> Null, type |-> t]
  OBVIOUS
<1>2. /\ r \in [here : BOOLEAN, ptr : Addresses \cup {Null}, type : Types \cup {"void"}]
      /\ r.ptr = Null /\ r.type = t /\ r.here = h
  BY <1>1
<1>3. any' = [any EXCEPT ![x] = r] /\ crashed' \in BOOLEAN
  BY <1>1 DEF HoldersInv
<1>4. DOMAIN heap' = (DOMAIN heap \ {any[x].ptr}) \cup ({r.ptr} \ {Null})
  BY <1>2
<1>5. ~r.here => r = Holders!Gone
  BY <1>1 DEF Holders!Gone, Holders!Void
<1>6. r.ptr = Null /\ (r.type = "void" \/ x \in hollow')
  BY <1>2
<1> QED BY <1>2, <1>3, <1>4, <1>5, <1>6, HolderChanged

(* What a clone at q does to the heap.                                      *)
LEMMA HolderCloned ==
  ASSUME HoldersInv, NEW y \in Variables, NEW q \in Addresses, q \notin DOMAIN heap
  PROVE  LET h == Holders!Cloned(heap, y, q) IN
         /\ any[y].ptr = Null => Holders!Clone(y, q) = Null /\ h = heap
         /\ any[y].ptr # Null =>
              /\ Holders!Clone(y, q) = q /\ any[y].type \in Types
              /\ heap[any[y].ptr] \in Things /\ heap[any[y].ptr].type = any[y].type
              /\ DOMAIN h = DOMAIN heap \cup {q} /\ h[q] = heap[any[y].ptr]
              /\ \A a \in DOMAIN heap : h[a] = heap[a]
<1>1. q # Null
  OBVIOUS
<1>2. CASE any[y].ptr = Null
  BY <1>1, <1>2 DEF Holders!Clone, Holders!Cloned
<1>3. CASE any[y].ptr # Null
  <2>1. /\ Holders!Clone(y, q) = q
        /\ Holders!Cloned(heap, y, q) = Holders!Made(heap, q, heap[any[y].ptr])
    BY <1>3 DEF Holders!Clone, Holders!Cloned
  <2>2. heap[any[y].ptr] \in Things /\ heap[any[y].ptr].type = any[y].type
    BY <1>3 DEF HoldersInv
  <2>3. any[y].type \in Types
    BY <2>2 DEF Things
  <2>4. any[y].ptr \in DOMAIN heap
    BY <1>3 DEF HoldersInv
  <2>5. PICK h : h = Holders!Made(heap, q, heap[any[y].ptr])
    OBVIOUS
  <2>6. /\ DOMAIN h = DOMAIN heap \cup {q} /\ h[q] = heap[any[y].ptr]
        /\ \A a \in DOMAIN heap : h[a] = heap[a]
    BY <2>5 DEF Holders!Made
  <2> QED BY <1>3, <2>1, <2>2, <2>3, <2>5, <2>6
<1> QED BY <1>2, <1>3

(* Every operation on the Anys.                                             *)
LEMMA HoldersStep ==
  ASSUME HoldersInv, Holders!Next
  PROVE  HoldersInv'
<1>1. /\ any \in Holdings(Variables) /\ hollow \subseteq Variables /\ crashed \in BOOLEAN
      /\ Null \notin DOMAIN heap
      /\ \A x \in Variables : ~any[x].here => any[x] = Holders!Gone
      /\ \A x \in Variables : any[x].ptr = Null => any[x].type = "void" \/ x \in hollow
      /\ \A x \in Variables : any[x].ptr # Null => any[x].ptr \in DOMAIN heap
      /\ \A x, y \in Variables : any[x].ptr = any[y].ptr /\ any[x].ptr # Null => x = y
  BY DEF HoldersInv
<1>2. \A x \in Variables : ~any[x].here => any[x].ptr = Null
  BY <1>1 DEF Holders!Gone
<1>3. PICK x \in Variables :
        \/ Holders!DefaultConstruct(x) \/ Holders!Destruct(x)
        \/ \E y \in Variables :
             \/ Holders!MoveConstruct(x, y)
             \/ \E q \in Addresses : Holders!CopyConstruct(x, y, q) \/ Holders!Assign(x, y, q)
        \/ \E t \in Types, v \in Values :
             \/ Holders!AnyCast(x, t, v)
             \/ \E q \in Addresses : Holders!Construct(x, t, v, q) \/ Holders!AssignValue(x, t, v, q)
  BY DEF Holders!Next
<1>4. CASE Holders!DefaultConstruct(x)
  <2>1. /\ any[x].ptr = Null /\ heap' = heap /\ hollow' = hollow /\ crashed' = crashed
        /\ any' = [any EXCEPT ![x] = [here |-> TRUE, ptr |-> Null, type |-> "void"]]
    BY <1>2, <1>4 DEF Holders!DefaultConstruct, Holders!Holding, Holders!Void
  <2>2. DOMAIN heap' = DOMAIN heap \ {any[x].ptr}
    BY <1>1, <2>1
  <2> QED BY <1>1, <2>1, <2>2, HolderEmptied
<1>5. CASE Holders!Destruct(x)
  <2>1. /\ heap' = Holders!Freed(heap, any[x].ptr) /\ hollow' = hollow \ {x} /\ crashed' = crashed
        /\ any' = [any EXCEPT ![x] = [here |-> FALSE, ptr |-> Null, type |-> "void"]]
    BY <1>5 DEF Holders!Destruct, Holders!Gone, Holders!Void
  <2>2. /\ DOMAIN heap' = DOMAIN heap \ {any[x].ptr}
        /\ \A p \in DOMAIN heap \ {any[x].ptr} : heap'[p] = heap[p]
    BY <2>1 DEF Holders!Freed, Holders!Restrict
  <2> QED BY <1>1, <2>1, <2>2, HolderEmptied
<1>6. ASSUME NEW y \in Variables, Holders!MoveConstruct(x, y)
      PROVE  HoldersInv'
  BY <1>6, HolderMoved
<1>7. ASSUME NEW y \in Variables, NEW q \in Addresses, Holders!CopyConstruct(x, y, q)
      PROVE  HoldersInv'
  <2>1. /\ any[x].ptr = Null /\ q \notin DOMAIN heap /\ crashed' = crashed
        /\ any' = [any EXCEPT ![x] = Holders!Holding(Holders!Clone(y, q), any[y].type)]
        /\ heap' = Holders!Cloned(heap, y, q)
        /\ hollow' = IF y \in hollow THEN hollow \cup {x} ELSE hollow \ {x}
    BY <1>2, <1>7 DEF Holders!CopyConstruct, Holders!Allocated, Holders!Mark
  <2>2. CASE any[y].ptr = Null
    <3>1. /\ any' = [any EXCEPT ![x] = [here |-> TRUE, ptr |-> Null, type |-> any[y].type]]
          /\ heap' = heap
      BY <2>1, <2>2, HolderCloned DEF Holders!Holding
    <3>2. any[y].type \in Types \cup {"void"}
      BY <1>1 DEF Holdings
    <3>3. hollow' \subseteq Variables /\ hollow \ {x} \subseteq hollow'
          /\ (any[y].type = "void" \/ x \in hollow')
      BY <1>1, <2>1, <2>2
    <3>4. DOMAIN heap' = DOMAIN heap \ {any[x].ptr}
      BY <1>1, <2>1, <3>1
    <3> QED BY <2>1, <3>1, <3>2, <3>3, <3>4, HolderEmptied
  <2>3. CASE any[y].ptr # Null
    <3>1. /\ Holders!Clone(y, q) = q /\ any[y].type \in Types
          /\ heap[any[y].ptr] \in Things /\ heap[any[y].ptr].type = any[y].type
          /\ DOMAIN heap' = DOMAIN heap \cup {q} /\ heap'[q] = heap[any[y].ptr]
          /\ \A a \in DOMAIN heap : heap'[a] = heap[a]
      <4>1. /\ Holders!Clone(y, q) = q /\ any[y].type \in Types
            /\ heap[any[y].ptr] \in Things /\ heap[any[y].ptr].type = any[y].type
        BY <2>1, <2>3, HolderCloned
      <4>2. /\ DOMAIN heap' = DOMAIN heap \cup {q} /\ heap'[q] = heap[any[y].ptr]
            /\ \A a \in DOMAIN heap : heap'[a] = heap[a]
        BY <2>1, <2>3, HolderCloned
      <4> QED BY <4>1, <4>2
    <3>2. hollow' \subseteq Variables /\ hollow \ {x} \subseteq hollow'
      BY <1>1, <2>1
    <3>3. DOMAIN heap' = (DOMAIN heap \ {any[x].ptr}) \cup {q}
      BY <1>1, <2>1, <3>1
    <3>4. PICK o, t : o = heap[any[y].ptr] /\ t = any[y].type
      OBVIOUS
    <3>5. /\ o \in Things /\ t \in Types /\ o.type = t /\ heap'[q] = o
          /\ any' = [any EXCEPT ![x] = Holders!Holding(q, t)]
      BY <2>1, <3>1, <3>4
    <3> QED BY <2>1, <3>1, <3>2, <3>3, <3>5, HolderMade
  <2> QED BY <2>2, <2>3
<1>8. ASSUME NEW y \in Variables, NEW q \in Addresses, Holders!Assign(x, y, q)
      PROVE  HoldersInv'
  <2>1. /\ q \notin DOMAIN heap /\ x # y /\ crashed' = crashed
        /\ any' = [any EXCEPT ![x] = Holders!Holding(Holders!Clone(y, q), any[y].type)]
        /\ heap' = Holders!Freed(Holders!Cloned(heap, y, q), any[x].ptr)
        /\ hollow' = IF y \in hollow THEN hollow \cup {x} ELSE hollow \ {x}
    BY <1>8 DEF Holders!Assign, Holders!Allocated, Holders!Mark, Holders!NewType
  <2>2. PICK h : h = Holders!Cloned(heap, y, q)
    OBVIOUS
  <2>3. /\ DOMAIN heap' = DOMAIN h \ {any[x].ptr}
        /\ \A p \in DOMAIN h \ {any[x].ptr} : heap'[p] = h[p]
    BY <2>1, <2>2 DEF Holders!Freed, Holders!Restrict
  <2>4. q # any[x].ptr
    BY <1>1, <2>1
  <2>5. CASE any[y].ptr = Null
    <3>1. /\ any' = [any EXCEPT ![x] = [here |-> TRUE, ptr |-> Null, type |-> any[y].type]]
          /\ h = heap
      BY <2>1, <2>2, <2>5, HolderCloned DEF Holders!Holding
    <3>2. any[y].type \in Types \cup {"void"}
      BY <1>1 DEF Holdings
    <3>3. hollow' \subseteq Variables /\ hollow \ {x} \subseteq hollow'
          /\ (any[y].type = "void" \/ x \in hollow')
      BY <1>1, <2>1, <2>5
    <3> QED BY <2>1, <2>3, <3>1, <3>2, <3>3, HolderEmptied
  <2>6. CASE any[y].ptr # Null
    <3>1. /\ Holders!Clone(y, q) = q /\ any[y].type \in Types
          /\ heap[any[y].ptr] \in Things /\ heap[any[y].ptr].type = any[y].type
          /\ DOMAIN h = DOMAIN heap \cup {q} /\ h[q] = heap[any[y].ptr]
          /\ \A a \in DOMAIN heap : h[a] = heap[a]
      BY <2>1, <2>2, <2>6, HolderCloned
    <3>2. hollow' \subseteq Variables /\ hollow \ {x} \subseteq hollow'
      BY <1>1, <2>1
    <3>3. /\ DOMAIN heap' = (DOMAIN heap \ {any[x].ptr}) \cup {q}
          /\ heap'[q] = heap[any[y].ptr]
          /\ \A p \in DOMAIN heap \ {any[x].ptr} : heap'[p] = heap[p]
      BY <2>3, <2>4, <3>1
    <3>4. PICK o, t : o = heap[any[y].ptr] /\ t = any[y].type
      OBVIOUS
    <3>5. /\ o \in Things /\ t \in Types /\ o.type = t /\ heap'[q] = o
          /\ any' = [any EXCEPT ![x] = Holders!Holding(q, t)]
      BY <2>1, <3>1, <3>3, <3>4
    <3> QED BY <2>1, <3>2, <3>3, <3>5, HolderMade
  <2> QED BY <2>5, <2>6
<1>9. ASSUME NEW t \in Types, NEW v \in Values, Holders!AnyCast(x, t, v)
      PROVE  HoldersInv'
  BY <1>9, HolderCast
<1>10. ASSUME NEW t \in Types, NEW v \in Values
       PROVE  Holders!Object(t, v) \in Things /\ Holders!Object(t, v).type = t
  BY DEF Holders!Object, Things
<1>11. ASSUME NEW t \in Types, NEW v \in Values, NEW q \in Addresses,
              Holders!Construct(x, t, v, q)
       PROVE  HoldersInv'
  <2>1. /\ any[x].ptr = Null /\ q \notin DOMAIN heap
        /\ hollow' = hollow /\ crashed' = crashed
        /\ any' = [any EXCEPT ![x] = Holders!Holding(q, t)]
        /\ heap' = Holders!Made(heap, q, Holders!Object(t, v))
    BY <1>2, <1>11 DEF Holders!Construct, Holders!Allocated
  <2>2. /\ DOMAIN heap' = (DOMAIN heap \ {any[x].ptr}) \cup {q}
        /\ heap'[q] = Holders!Object(t, v)
        /\ \A p \in DOMAIN heap \ {any[x].ptr} : heap'[p] = heap[p]
    BY <1>1, <2>1 DEF Holders!Made
  <2>3. PICK o : o = Holders!Object(t, v)
    OBVIOUS
  <2>4. o \in Things /\ o.type = t
    BY <1>10, <2>3
  <2> QED BY <1>1, <2>1, <2>2, <2>3, <2>4, HolderMade
<1>12. ASSUME NEW t \in Types, NEW v \in Values, NEW q \in Addresses,
              Holders!AssignValue(x, t, v, q)
       PROVE  HoldersInv'
  <2>1. /\ q \notin DOMAIN heap
        /\ hollow' = hollow \ {x} /\ crashed' = crashed
        /\ any' = [any EXCEPT ![x] = Holders!Holding(q, t)]
        /\ heap' = Holders!Made(Holders!Freed(heap, any[x].ptr), q, Holders!Object(t, v))
    BY <1>12 DEF Holders!AssignValue, Holders!Allocated
  <2>2. /\ DOMAIN heap' = (DOMAIN heap \ {any[x].ptr}) \cup {q}
        /\ heap'[q] = Holders!Object(t, v)
        /\ \A p \in DOMAIN heap \ {any[x].ptr} : heap'[p] = heap[p]
    BY <1>1, <2>1 DEF Holders!Made, Holders!Freed, Holders!Restrict
  <2>3. PICK o : o = Holders!Object(t, v)
    OBVIOUS
  <2>4. o \in Things /\ o.type = t
    BY <1>10, <2>3
  <2> QED BY <1>1, <2>1, <2>2, <2>3, <2>4, HolderMade
<1> QED BY <1>3, <1>4, <1>5, <1>6, <1>7, <1>8, <1>9, <1>11, <1>12

(* No Any, no object.                                                       *)
LEMMA HoldersBegin ==
  ASSUME Holders!Init
  PROVE  HoldersInv
<1>1. /\ any = [x \in Variables |-> Holders!Gone] /\ DOMAIN heap = {}
      /\ hollow = {} /\ crashed = FALSE
  BY DEF Holders!Init
<1>2. Holders!Gone = [here |-> FALSE, ptr |-> Null, type |-> "void"]
  BY DEF Holders!Gone, Holders!Void
<1>3. any \in Holdings(Variables)
  BY <1>1, <1>2 DEF Holdings
<1> QED BY <1>1, <1>2, <1>3 DEF HoldersInv

(* The type invariant, and the properties of the Anys.                      *)
LEMMA HoldersMean ==
  ASSUME HoldersInv
  PROVE  Holders!TypeOK /\ Holders!OwnedOnce /\ Holders!TypeTellsObject
<1>1. Holders!TypeOK
  BY DEF HoldersInv, Holdings, Things, Holders!TypeOK, Holders!Allocated, Holders!Void
<1>2. Holders!OwnedOnce
  <2>1. \A p : p \in DOMAIN heap <=> p # Null /\ \E x \in Variables : any[x].ptr = p
    BY DEF HoldersInv
  <2>2. DOMAIN heap = { any[x].ptr : x \in Variables } \ {Null}
    BY <2>1
  <2>3. \A x, y \in Variables : any[x].ptr = any[y].ptr /\ any[x].ptr # Null => x = y
    BY DEF HoldersInv
  <2> QED BY <2>2, <2>3 DEF Holders!OwnedOnce, Holders!Allocated
<1>3. Holders!TypeTellsObject
  BY DEF HoldersInv, Holders!TypeTellsObject, Holders!Allocated, Holders!Void
<1> QED BY <1>1, <1>2, <1>3

-----------------------------------------------------------------------------
(* IocContainer. *)

(* What was answered for key k: nothing to call yet, the wrong signature,   *)
(* or what the one constructor of the key makes.                            *)
Answered(k, a) ==
  \/ a[1] = "null"
  \/ any[k].here /\ a[1] = "bad_cast" /\ a[2] # any[k].type
  \/ any[k].here /\ a[1] = heap[any[k].ptr].value /\ a = << a[1], any[k].type >>

IocInv ==
  /\ any \in Holdings(Keys)
  /\ hollow \subseteq Keys /\ crashed \in BOOLEAN
  /\ \A p \in DOMAIN heap : p \in Addresses /\ heap[p] \in Things
  /\ \A k \in Keys : any[k].here => any[k].ptr \in DOMAIN heap
  /\ DOMAIN answers = Keys
  /\ \A k \in Keys : \A a \in answers[k] : Answered(k, a)

(* An entry is never changed, and a key gets one only while it has none.    *)
LEMMA IocRegisters ==
  ASSUME IocInv, NEW k \in Keys, NEW sig \in Types, NEW f \in Values, Ioc!RegisterType(k, sig, f)
  PROVE  IocInv'
<1>1. PICK q \in Addresses : Ioc!Construct(k, sig, f, q)
  BY DEF Ioc!RegisterType, Ioc!Emplace
<1>2. PICK r, o : r = Ioc!Holding(q, sig) /\ o = Ioc!Object(sig, f)
  OBVIOUS
<1>3. /\ ~any[k].here /\ q \notin DOMAIN heap
      /\ any' = [any EXCEPT ![k] = r] /\ heap' = Ioc!Made(heap, q, o)
      /\ hollow' = hollow /\ crashed' = crashed /\ answers' = answers
  BY <1>1, <1>2 DEF Ioc!RegisterType, Ioc!Construct, Ioc!Allocated
<1>4. /\ r \in [here : BOOLEAN, ptr : Addresses \cup {Null}, type : Types \cup {"void"}]
      /\ r.ptr = q /\ r.type = sig /\ r.here
  BY <1>2 DEF Ioc!Holding
<1>5. o \in Things
  BY <1>2 DEF Ioc!Object, Things
<1>6. /\ any \in Holdings(Keys) /\ DOMAIN answers = Keys
      /\ \A p \in DOMAIN heap : p \in Addresses /\ heap[p] \in Things
      /\ \A l \in Keys : any[l].here => any[l].ptr \in DOMAIN heap
  BY DEF IocInv
<1>7. /\ DOMAIN heap' = DOMAIN heap \cup {q} /\ heap'[q] = o
      /\ \A p \in DOMAIN heap : heap'[p] = heap[p]
  BY <1>3 DEF Ioc!Made
<1>8. /\ any' \in Holdings(Keys) /\ any'[k] = r
      /\ \A l \in Keys \ {k} : any'[l] = any[l]
  BY <1>3, <1>4, <1>6 DEF Holdings
<1>9. \A l \in Keys : any'[l].here => any'[l].ptr \in DOMAIN heap'
  BY <1>4, <1>6, <1>7, <1>8
<1>10. \A l \in Keys : \A a \in answers'[l] : Answered(l, a)'
  <2>1. ASSUME NEW l \in Keys, NEW a \in answers[l] PROVE Answered(l, a)'
    <3>1. Answered(l, a)
      BY DEF IocInv
    <3>2. CASE l = k
      BY <1>3, <3>1, <3>2 DEF Answered
    <3>3. CASE l # k
      <4>1. any'[l] = any[l] /\ (any[l].here => heap'[any[l].ptr] = heap[any[l].ptr])
        BY <1>6, <1>7, <1>8, <3>3
      <4> QED BY <3>1, <4>1 DEF Answered
    <3> QED BY <3>2, <3>3
  <2> QED BY <1>3, <2>1
<1>11. \A p \in DOMAIN heap' : p \in Addresses /\ heap'[p] \in Things
  BY <1>5, <1>6, <1>7
<1>12. hollow' \subseteq Keys /\ crashed' \in BOOLEAN /\ DOMAIN answers' = Keys
  BY <1>3, <1>6 DEF IocInv
<1> QED BY <1>8, <1>9, <1>10, <1>11, <1>12 DEF IocInv

(* Resolve answers by the entry as it is.                                   *)
LEMMA IocResolves ==
  ASSUME IocInv, NEW k \in Keys, NEW sig \in Types, Ioc!Resolve(k, sig)
  PROVE  IocInv'
<1>1. any' = any /\ heap' = heap /\ hollow' = hollow /\ crashed' = crashed
  BY DEF Ioc!Resolve, Ioc!vars
<1>2. PICK r : r = Ioc!Result(k, sig)
  OBVIOUS
<1>3. answers' = [answers EXCEPT ![k] = @ \cup {r}]
  BY <1>2 DEF Ioc!Resolve
<1>4. Answered(k, r)
  <2>1. CASE ~any[k].here
    BY <1>2, <2>1 DEF Ioc!Result, Answered
  <2>2. CASE any[k].here /\ any[k].type # sig
    BY <1>2, <2>2 DEF Ioc!Result, Ioc!SameSignature, Ioc!Is, Answered
  <2>3. CASE any[k].here /\ any[k].type = sig
    BY <1>2, <2>3 DEF Ioc!Result, Ioc!SameSignature, Ioc!Is, Answered
  <2> QED BY <2>1, <2>2, <2>3
<1>5. /\ DOMAIN answers = Keys
      /\ \A l \in Keys : \A a \in answers[l] : Answered(l, a)
  BY DEF IocInv
<1>6. \A l \in Keys : \A a \in answers'[l] : Answered(l, a)
  BY <1>3, <1>4, <1>5
<1>7. ASSUME NEW l \in Keys, NEW a, Answered(l, a) PROVE Answered(l, a)'
  BY <1>1, <1>7 DEF Answered
<1>8. \A l \in Keys : \A a \in answers'[l] : Answered(l, a)'
  BY <1>6, <1>7
<1> QED BY <1>1, <1>3, <1>5, <1>8 DEF IocInv

(* A container begins without entries and without answers.                  *)
LEMMA IocBegins ==
  ASSUME Ioc!IocInit
  PROVE  IocInv
<1>1. /\ any = [k \in Keys |-> Ioc!Gone] /\ DOMAIN heap = {}
      /\ hollow = {} /\ crashed = FALSE /\ answers = [k \in Keys |-> {}]
  BY DEF Ioc!IocInit, Ioc!Init
<1>2. Ioc!Gone = [here |-> FALSE, ptr |-> Null, type |-> "void"]
  BY DEF Ioc!Gone, Ioc!Void
<1>3. any \in Holdings(Keys)
  BY <1>1, <1>2 DEF Holdings
<1> QED BY <1>1, <1>2, <1>3 DEF IocInv

(* A key makes objects with one constructor, and for one signature.         *)
LEMMA IocMeans ==
  ASSUME IocInv
  PROVE  Ioc!TypeOK /\ Ioc!OneConstructor
<1>1. Ioc!TypeOK
  BY DEF IocInv, Holdings, Things, Ioc!TypeOK, Ioc!Allocated, Ioc!Void
<1>2. ASSUME NEW k \in Keys, NEW a \in answers[k], a[1] \in Values
      PROVE  a = << heap[any[k].ptr].value, any[k].type >>
  <2>1. Answered(k, a) /\ a[1] # "null" /\ a[1] # "bad_cast"
    BY <1>2 DEF IocInv
  <2> QED BY <2>1 DEF Answered
<1>3. ASSUME NEW k \in Keys, NEW a \in answers[k], a[1] = "bad_cast"
      PROVE  a[2] # any[k].type
  <2>1. Answered(k, a) /\ a[1] # "null"
    BY <1>3 DEF IocInv
  <2>2. any[k].here /\ a[1] = heap[any[k].ptr].value => a[1] \in Values
    BY DEF IocInv, Things
  <2> QED BY <1>3, <2>1, <2>2 DEF Answered
<1>4. ASSUME NEW k \in Keys
      PROVE  /\ \A a, b \in Ioc!MadeBy(k) : a = b
             /\ \A a \in answers[k], b \in Ioc!MadeBy(k) : a[1] = "bad_cast" => a[2] # b[2]
  <2>1. \A a \in Ioc!MadeBy(k) : a = << heap[any[k].ptr].value, any[k].type >>
    BY <1>2 DEF Ioc!MadeBy
  <2>2. \A b \in Ioc!MadeBy(k) : b[2] = any[k].type
    BY <2>1
  <2> QED BY <1>3, <2>1, <2>2
<1>5. Ioc!OneConstructor
  BY <1>4 DEF Ioc!OneConstructor
<1> QED BY <1>1, <1>5

-----------------------------------------------------------------------------
(* Variant. *)

Kinds == {"int", "string"}

(* Both headers act once on a type of the list, and never on void.          *)
Acted(t) == IF t = "void" THEN 0 ELSE 1

(* variant.hpp acts on the first of the types that match.                   *)
LEMMA OldActs ==
  Old!Held = Kinds /\ \A t \in Kinds \cup {"void"} : Old!Acts(t) = Acted(t)
<1>1. Len(RepeatedTypes) = 3 /\ RepeatedTypes[1] = "int"
      /\ RepeatedTypes[2] = "string" /\ RepeatedTypes[3] = "int"
  BY DEF RepeatedTypes
<1>2. 1..3 = {1, 2, 3}
  OBVIOUS
<1>3. Old!Held = Kinds
  BY <1>1, <1>2 DEF Old!Held, Kinds
<1>4. Old!Matches("int") = {1, 3} /\ Old!Matches("string") = {2} /\ Old!Matches("void") = {}
  BY <1>1, <1>2 DEF Old!Matches
<1>5. Old!FirstMatch("int") = {1} /\ Old!FirstMatch("string") = {2} /\ Old!FirstMatch("void") = {}
  BY <1>4 DEF Old!FirstMatch
<1>6. Old!Acts("int") = 1 /\ Old!Acts("string") = 1 /\ Old!Acts("void") = 0
  <2>1. Cardinality({1}) = 1 /\ Cardinality({2}) = 1 /\ Cardinality({}) = 0
    BY FS_Singleton, FS_EmptySet
  <2>2. \A S : Old!Cardinality(S) = Cardinality(S)
    BY DEF Old!Cardinality, Cardinality
  <2>3. \A t : Old!Acts(t) = Old!Cardinality(Old!FirstMatch(t))
    BY DEF Old!Acts
  <2> QED BY <1>5, <2>1, <2>2, <2>3
<1> QED BY <1>3, <1>6 DEF Kinds, Acted

(* variant_new.hpp acts on every type that matches; only one does.          *)
LEMMA NewActs ==
  New!Held = Kinds /\ \A t \in Kinds \cup {"void"} : New!Acts(t) = Acted(t)
<1>1. Len(DistinctTypes) = 2 /\ DistinctTypes[1] = "int" /\ DistinctTypes[2] = "string"
  BY DEF DistinctTypes
<1>2. 1..2 = {1, 2}
  OBVIOUS
<1>3. New!Held = Kinds
  BY <1>1, <1>2 DEF New!Held, Kinds
<1>4. New!Matches("int") = {1} /\ New!Matches("string") = {2} /\ New!Matches("void") = {}
  BY <1>1, <1>2 DEF New!Matches
<1>5. New!Acts("int") = 1 /\ New!Acts("string") = 1 /\ New!Acts("void") = 0
  <2>1. Cardinality({1}) = 1 /\ Cardinality({2}) = 1 /\ Cardinality({}) = 0
    BY FS_Singleton, FS_EmptySet
  <2>2. \A S : New!Cardinality(S) = Cardinality(S)
    BY DEF New!Cardinality, Cardinality
  <2>3. \A t : New!Acts(t) = New!Cardinality(New!Matches(t))
    BY DEF New!Acts, New!AllMatches
  <2> QED BY <1>4, <2>1, <2>2, <2>3
<1> QED BY <1>3, <1>5 DEF Kinds, Acted

Shells == [here : BOOLEAN, type : Kinds \cup {"void"}, there : Kinds \cup {"void"}]

Shell(h, t, o) == [here |-> h, type |-> t, there |-> o]

(* An object without a type, left behind by the assignment of an empty      *)
(* variant: it is lost later, by another assignment or by the destructor.   *)
Stray(s) == s.there # "void" /\ s.type = "void"

Strays == { x \in Variables : Stray(var[x]) }

(* Each object that is lost, or will be, is one assignment's.               *)
VariantInv ==
  /\ var \in [Variables -> Shells]
  /\ lost \in Nat /\ assigns \in 0..3 /\ torn \in BOOLEAN /\ confused \in BOOLEAN
  /\ \A x \in Variables : ~var[x].here => var[x] = Shell(FALSE, "void", "void")
  /\ ~torn => \A x \in Variables : var[x].type # "void" => var[x].there = var[x].type
  /\ IsFiniteSet(Strays) /\ lost + Cardinality(Strays) <= assigns

One(b) == IF b THEN 1 ELSE 0

(* What an operation does to variant x: the shell s is there afterwards.    *)
VariantPut(x, s) ==
  /\ var' = [var EXCEPT ![x] = s]
  /\ s.here \/ s = Shell(FALSE, "void", "void")
  /\ lost' \in lost..(lost + 1) /\ assigns' \in assigns..3
  /\ (lost' - lost) + One(Stray(s)) <= (assigns' - assigns) + One(Stray(var[x]))
  /\ torn' \in BOOLEAN /\ (torn => torn') /\ confused' \in BOOLEAN
  /\ ~torn' => (s.type # "void" => s.there = s.type)

(* A variant gets a shell whose tag and object agree, or was torn.          *)
LEMMA VariantPuts ==
  ASSUME VariantInv, NEW x \in Variables, NEW s \in Shells, VariantPut(x, s)
  PROVE  VariantInv'
<1>1. /\ var \in [Variables -> Shells]
      /\ lost \in Nat /\ assigns \in 0..3 /\ torn \in BOOLEAN
      /\ \A y \in Variables : ~var[y].here => var[y] = Shell(FALSE, "void", "void")
      /\ ~torn => \A y \in Variables : var[y].type # "void" => var[y].there = var[y].type
      /\ IsFiniteSet(Strays) /\ lost + Cardinality(Strays) <= assigns
  BY DEF VariantInv
<1>2. /\ var' = [var EXCEPT ![x] = s] /\ (s.here \/ s = Shell(FALSE, "void", "void"))
      /\ lost' \in lost..(lost + 1) /\ assigns' \in assigns..3
      /\ (lost' - lost) + One(Stray(s)) <= (assigns' - assigns) + One(Stray(var[x]))
      /\ torn' \in BOOLEAN /\ (torn => torn') /\ confused' \in BOOLEAN
      /\ ~torn' => (s.type # "void" => s.there = s.type)
  BY DEF VariantPut
<1>3. /\ var' \in [Variables -> Shells] /\ var'[x] = s
      /\ \A y \in Variables \ {x} : var'[y] = var[y]
  BY <1>1, <1>2
<1>4. lost' \in Nat /\ assigns' \in 0..3
  BY <1>1, <1>2
<1>5. \A y \in Variables : ~var'[y].here => var'[y] = Shell(FALSE, "void", "void")
  BY <1>1, <1>2, <1>3
<1>6. ~torn' => \A y \in Variables : var'[y].type # "void" => var'[y].there = var'[y].type
  BY <1>1, <1>2, <1>3
<1>7. IsFiniteSet(Strays') /\ lost' + Cardinality(Strays') <= assigns'
  <2>1. PICK B, A : B = Strays /\ A = Strays'
    OBVIOUS
  <2>2. /\ IsFiniteSet(B) /\ Cardinality(B) \in Nat
        /\ x \in B <=> Stray(var[x])
        /\ A = IF Stray(s) THEN B \cup {x} ELSE B \ {x}
    <3>1. IsFiniteSet(B) /\ Cardinality(B) \in Nat
      BY <1>1, <2>1, FS_CardinalityType
    <3>2. B = { y \in Variables : Stray(var[y]) } /\ A = { y \in Variables : Stray(var'[y]) }
      BY <2>1 DEF Strays, Stray
    <3>3. A = IF Stray(s) THEN B \cup {x} ELSE B \ {x}
      BY <1>3, <3>2
    <3> QED BY <3>1, <3>2, <3>3
  <2>3. PICK m \in Nat : m = Cardinality(B)
    BY <2>2
  <2>4. /\ IsFiniteSet(A)
        /\ Cardinality(A) = m + One(Stray(s)) - One(Stray(var[x]))
    <3>1. CASE Stray(s) /\ x \in B
      <4>1. A = B
        BY <2>2, <3>1
      <4> QED BY <2>2, <2>3, <3>1, <4>1 DEF One
    <3>2. CASE Stray(s) /\ x \notin B
      <4>1. A = B \cup {x}
        BY <2>2, <3>2
      <4>2. IsFiniteSet(A) /\ Cardinality(A) = m + 1
        BY <2>2, <2>3, <3>2, <4>1, FS_AddElement
      <4> QED BY <2>2, <3>2, <4>2 DEF One
    <3>3. CASE ~Stray(s) /\ x \in B
      <4>1. A = B \ {x}
        BY <2>2, <3>3
      <4>2. IsFiniteSet(A) /\ Cardinality(A) = m - 1
        BY <2>2, <2>3, <3>3, <4>1, FS_RemoveElement
      <4> QED BY <2>2, <3>3, <4>2 DEF One
    <3>4. CASE ~Stray(s) /\ x \notin B
      <4>1. A = B
        BY <2>2, <3>4
      <4> QED BY <2>2, <2>3, <3>4, <4>1 DEF One
    <3> QED BY <2>2, <3>1, <3>2, <3>3, <3>4
  <2>5. lost + m <= assigns
    BY <1>1, <2>1, <2>3
  <2>6. PICK c, d \in 0..1 : c = One(Stray(s)) /\ d = One(Stray(var[x]))
    BY DEF One
  <2>7. (lost' - lost) + c <= (assigns' - assigns) + d /\ Cardinality(A) = m + c - d
    BY <1>2, <2>4, <2>6
  <2>8. PICK l, k \in Nat : l = lost' /\ k = assigns'
    BY <1>4
  <2>9. l + (m + c - d) <= k
    BY <1>1, <2>5, <2>6, <2>7, <2>8
  <2> QED BY <2>1, <2>4, <2>7, <2>8, <2>9
<1>8. Shell(FALSE, "void", "void")' = Shell(FALSE, "void", "void")
  BY DEF Shell
<1> QED BY <1>2, <1>3, <1>4, <1>5, <1>6, <1>7, <1>8 DEF VariantInv

(* What an operation needs of variant y: an object of the type it names.    *)
Meets(y) == var[y].type # "void" => var[y].there = var[y].type

(* Variant x is constructed over the object that it copies.                 *)
Over(x, y) == x = y /\ var[y].type # "void"

(* The operations on variant x, as both headers do them: a construction of  *)
(* nothing or of an object, a copy, both ends of an assignment, Get and the *)
(* destructor.                                                              *)
VariantBuilt(x) ==
  /\ ~var[x].here
  /\ \E t \in Kinds \cup {"void"} : var' = [var EXCEPT ![x] = Shell(TRUE, t, t)]
  /\ lost' = lost /\ assigns' = assigns /\ torn' = torn /\ confused' = confused

VariantCopied(x, y) ==
  /\ ~var[x].here /\ var[y].here /\ confused' = ~Meets(y)
  /\ var' = [var EXCEPT ![x] = Shell(TRUE, var[y].type, var[y].type)]
  /\ lost' = lost /\ assigns' = assigns /\ torn' = torn

VariantAssigned(x, y) ==
  /\ var[x].here /\ var[y].here /\ assigns < 3 /\ assigns' = assigns + 1
  /\ confused' = (~Meets(y) \/ Over(x, y)) /\ torn' = torn
  /\ lost' = lost + IF var[y].type = "void" THEN 0 ELSE One(var[x].there # "void")
  /\ var' = [var EXCEPT ![x] = Shell(TRUE, var[y].type,
               IF var[y].type = "void" THEN var[x].there ELSE var[y].type)]

VariantThrown(x, y) ==
  /\ var[x].here /\ var[y].here /\ assigns < 3 /\ assigns' = assigns + 1
  /\ var[y].type # "void" /\ torn' = TRUE
  /\ confused' = (~Meets(y) \/ Over(x, y)) /\ lost' = lost + One(var[x].there # "void")
  /\ var' = [var EXCEPT ![x] = Shell(TRUE, var[x].type, "void")]

VariantGot(x) ==
  /\ var[x].here /\ var[x].type # "void" /\ confused' = ~Meets(x)
  /\ var' = var /\ lost' = lost /\ assigns' = assigns /\ torn' = torn

VariantEnded(x) ==
  /\ var[x].here /\ confused' = ~Meets(x) /\ lost' = lost + One(Stray(var[x]))
  /\ assigns' = assigns /\ torn' = torn
  /\ var' = [var EXCEPT ![x] = Shell(FALSE, "void", "void")]

VariantMoves(x) ==
  \/ VariantBuilt(x) \/ VariantGot(x) \/ VariantEnded(x)
  \/ \E y \in Variables : VariantCopied(x, y) \/ VariantAssigned(x, y) \/ VariantThrown(x, y)

(* A shell with another type, or another object.                            *)
LEMMA ShellChanged ==
  ASSUME NEW v \in Shells
  PROVE  /\ \A o : [v EXCEPT !.there = o] = Shell(v.here, v.type, o)
         /\ \A t, o : [[v EXCEPT !.type = t] EXCEPT !.there = o] = Shell(v.here, t, o)
<1> DEFINE K == Kinds \cup {"void"}
<1>1. v \in [here : BOOLEAN, type : K, there : K]
  BY DEF Shells
<1> HIDE DEF K
<1>2. v = [here |-> v.here, type |-> v.type, there |-> v.there]
  BY <1>1
<1>3. PICK a, b, c : a = v.here /\ b = v.type /\ c = v.there
  OBVIOUS
<1>4. v = [here |-> a, type |-> b, there |-> c]
  BY <1>2, <1>3
<1>5. \A o : [v EXCEPT !.there = o] = [here |-> a, type |-> b, there |-> o]
  BY <1>4
<1>6. \A t : [v EXCEPT !.type = t] = [here |-> a, type |-> t, there |-> c]
  BY <1>4
<1>7. ASSUME NEW t, NEW o
      PROVE  [[v EXCEPT !.type = t] EXCEPT !.there = o] = [here |-> a, type |-> t, there |-> o]
  <2>1. PICK r : r = [v EXCEPT !.type = t]
    OBVIOUS
  <2>2. r = [here |-> a, type |-> t, there |-> c]
    BY <1>6, <2>1
  <2>3. [r EXCEPT !.there = o] = [here |-> a, type |-> t, there |-> o]
    BY <2>2
  <2> QED BY <2>1, <2>3
<1> QED BY <1>3, <1>5, <1>7 DEF Shell

(* The operations of variant.hpp do that.                                     *)
LEMMA OldMoves ==
  ASSUME VariantInv, Old!Next
  PROVE  ~confused /\ \E x \in Variables : VariantMoves(x)
<1>1. PICK x \in Variables :
        \/ Old!DefaultConstruct(x) \/ Old!Destruct(x)
        \/ \E t \in Old!Held : Old!Construct(x, t) \/ Old!Get(x, t)
        \/ \E y \in Variables :
             Old!ConstructFrom(x, y) \/ Old!Assign(x, y) \/ Old!AssignThrows(x, y)
  BY DEF Old!Next
<1>2. ~confused
  BY DEF Old!Next
<1>3. /\ var \in [Variables -> Shells]
      /\ \A y \in Variables : ~var[y].here => var[y] = Shell(FALSE, "void", "void")
  BY DEF VariantInv
<1>4. /\ Old!Held = Kinds /\ Old!Gone = Shell(FALSE, "void", "void")
      /\ \A t, o : Old!Holding(t, o) = Shell(TRUE, t, o)
      /\ Old!Void = "void"
  BY OldActs DEF Old!Gone, Old!Holding, Old!Void, Shell
<1>5. ASSUME NEW y \in Variables
      PROVE  /\ var[y].type \in Kinds \cup {"void"}
             /\ Old!Acts(var[y].type) = Acted(var[y].type)
             /\ Old!Acts(var[y].type) = 0 <=> var[y].type = "void"
             /\ Old!Acts(var[y].type) > 0 <=> var[y].type # "void"
             /\ Old!Meets(var[y], var[y].type) = Meets(y)
  <2>1. var[y].type \in Kinds \cup {"void"}
    BY <1>3 DEF Shells
  <2>2. Old!Acts(var[y].type) = Acted(var[y].type)
    BY <2>1, OldActs
  <2>3. Acted(var[y].type) = 0 <=> var[y].type = "void"
    BY DEF Acted
  <2>4. Acted(var[y].type) > 0 <=> var[y].type # "void"
    BY DEF Acted
  <2>5. Old!Meets(var[y], var[y].type) = Meets(y)
    BY <2>2, <2>4 DEF Old!Meets, Meets
  <2> QED BY <2>1, <2>2, <2>3, <2>4, <2>5
<1>6. ASSUME NEW y \in Variables, NEW s
      PROVE  Old!Overwritten(s, var[y].type) =
               IF var[y].type = "void" THEN 0 ELSE One(s.there # "void")
  <2>1. CASE var[y].type = "void"
    BY <1>5, <2>1 DEF Old!Overwritten
  <2>2. CASE var[y].type # "void"
    <3>1. Old!Acts(var[y].type) = 1
      BY <1>5, <2>2 DEF Acted
    <3>2. Old!Overwritten(s, var[y].type) = Old!OneIf(s.there # "void") + 1 - 1
      BY <1>4, <3>1 DEF Old!Overwritten
    <3> QED BY <2>2, <3>2 DEF Old!OneIf, One
  <2> QED BY <2>1, <2>2
<1>7. CASE Old!DefaultConstruct(x)
  <2>1. /\ ~var[x].here /\ var' = [var EXCEPT ![x] = Shell(TRUE, "void", "void")]
        /\ lost' = lost /\ assigns' = assigns /\ torn' = torn /\ confused' = confused
    BY <1>4, <1>7 DEF Old!DefaultConstruct
  <2>10. VariantBuilt(x)
    BY <2>1 DEF VariantBuilt
  <2> QED BY <1>2, <2>10 DEF VariantMoves
<1>8. CASE \E t \in Old!Held : Old!Construct(x, t)
  <2>1. PICK t \in Kinds : Old!Construct(x, t)
    BY <1>4, <1>8
  <2>2. /\ ~var[x].here /\ var' = [var EXCEPT ![x] = Shell(TRUE, t, t)]
        /\ lost' = lost /\ assigns' = assigns /\ torn' = torn /\ confused' = confused
    BY <1>4, <2>1 DEF Old!Construct
  <2>10. VariantBuilt(x)
    BY <2>2 DEF VariantBuilt
  <2> QED BY <1>2, <2>10 DEF VariantMoves
<1>9. CASE \E t \in Old!Held : Old!Get(x, t)
  <2>1. PICK t \in Kinds : Old!Get(x, t)
    BY <1>4, <1>9
  <2>2. /\ var[x].here /\ var[x].type = t /\ confused' = (var[x].there # t)
        /\ var' = var /\ lost' = lost /\ assigns' = assigns /\ torn' = torn
    BY <2>1 DEF Old!Get, Old!Is
  <2>3. t # "void"
    BY DEF Kinds
  <2>4. confused' = ~Meets(x)
    BY <2>2, <2>3 DEF Meets
  <2>10. VariantGot(x)
    BY <2>2, <2>3, <2>4 DEF VariantGot
  <2> QED BY <1>2, <2>10 DEF VariantMoves
<1>10. ASSUME NEW y \in Variables, Old!ConstructFrom(x, y)
       PROVE  VariantMoves(x)
  <2>1. Old!Overwritten(Old!Gone, var[y].type) = 0
    <3>1. Old!Gone.there = "void"
      BY <1>4 DEF Shell
    <3> QED BY <1>6, <3>1 DEF One
  <2>2. (IF Old!Acts(var[y].type) = 0 THEN Old!Void ELSE var[y].type) = var[y].type
    BY <1>4, <1>5
  <2>3. lost' = lost
    BY <1>10, <2>1 DEF Old!ConstructFrom, VariantInv
  <2> QED BY <1>4, <1>5, <1>10, <2>2, <2>3 DEF Old!ConstructFrom, VariantCopied, VariantMoves
<1>11. ASSUME NEW y \in Variables, Old!Assign(x, y)
       PROVE  VariantMoves(x)
  <2>1. /\ var[x].here /\ var[y].here /\ assigns < 3 /\ assigns' = assigns + 1
        /\ confused' = (~Meets(y) \/ Over(x, y)) /\ torn' = torn
        /\ lost' = lost + IF var[y].type = "void" THEN 0 ELSE One(var[x].there # "void")
    <3>1. Old!OverItself(x, y) = Over(x, y)
      BY <1>5 DEF Old!OverItself, Over
    <3> QED BY <1>5, <1>6, <1>11, <3>1 DEF Old!Assign
  <2>2. PICK o : o = IF var[y].type = "void" THEN var[x].there ELSE var[y].type
    OBVIOUS
  <2>3. var' = [var EXCEPT ![x].type = var[y].type, ![x].there = o]
    BY <1>5, <1>11, <2>2 DEF Old!Assign, Old!TypeTaken
  <2>4. PICK s : s = Shell(TRUE, var[y].type, o)
    OBVIOUS
  <2>5. var' = [var EXCEPT ![x] = s]
    <3>1. var[x] \in Shells /\ var[x].here = TRUE
      BY <1>3, <2>1 DEF Shells
    <3>2. PICK v, t : v = var[x] /\ t = var[y].type
      OBVIOUS
    <3>3. [[v EXCEPT !.type = t] EXCEPT !.there = o] = Shell(v.here, t, o)
      <4>1. v \in Shells
        BY <3>1, <3>2
      <4>2. \A a, b : [[v EXCEPT !.type = a] EXCEPT !.there = b] = Shell(v.here, a, b)
        BY <4>1, ShellChanged, Zenon
      <4> QED BY <4>2, Zenon
    <3>5. Shell(v.here, t, o) = s
      BY <2>4, <3>1, <3>2
    <3>4. var' = [var EXCEPT ![x] = [[v EXCEPT !.type = t] EXCEPT !.there = o]]
      BY <1>3, <2>3, <3>2
    <3> QED BY <3>3, <3>4, <3>5
  <2> QED BY <2>1, <2>2, <2>4, <2>5 DEF VariantAssigned, VariantMoves
<1>12. ASSUME NEW y \in Variables, Old!AssignThrows(x, y)
       PROVE  VariantMoves(x)
  <2>1. /\ var[x].here /\ var[y].here /\ assigns < 3 /\ assigns' = assigns + 1
        /\ var[y].type # "void" /\ torn' = TRUE
        /\ confused' = (~Meets(y) \/ Over(x, y)) /\ lost' = lost + One(var[x].there # "void")
    <3>1. Old!OverItself(x, y) = Over(x, y)
      BY <1>5 DEF Old!OverItself, Over
    <3> QED BY <1>4, <1>5, <1>12, <3>1 DEF Old!AssignThrows, Old!OneIf, One
  <2>2. var' = [var EXCEPT ![x].there = "void"]
    BY <1>4, <1>12 DEF Old!AssignThrows
  <2>3. PICK s : s = Shell(TRUE, var[x].type, "void")
    OBVIOUS
  <2>4. var' = [var EXCEPT ![x] = s]
    <3>1. var[x] \in Shells /\ var[x].here = TRUE
      BY <1>3, <2>1 DEF Shells
    <3>2. PICK v : v = var[x]
      OBVIOUS
    <3>3. [v EXCEPT !.there = "void"] = s
      BY <2>3, <3>1, <3>2, ShellChanged
    <3> QED BY <2>2, <3>2, <3>3
  <2> QED BY <2>1, <2>3, <2>4 DEF VariantThrown, VariantMoves
<1>13. CASE Old!Destruct(x)
  <2>1. Old!Destroys(x) = Acted(var[x].type)
    BY <1>5 DEF Old!Destroys
  <2>2. ~(Old!Destroys(x) > 1) /\ (Old!Destroys(x) = 0 <=> var[x].type = "void")
    BY <2>1 DEF Acted
  <2>3. /\ var[x].here /\ confused' = ~Meets(x)
        /\ assigns' = assigns /\ torn' = torn
        /\ var' = [var EXCEPT ![x] = Shell(FALSE, "void", "void")]
    BY <1>4, <1>5, <1>13, <2>2 DEF Old!Destruct, Old!After
  <2>4. lost' = lost + One(Stray(var[x]))
    BY <1>4, <1>13, <2>2 DEF Old!Destruct, Old!OneIf, One, Stray
  <2>10. VariantEnded(x)
    BY <2>3, <2>4 DEF VariantEnded
  <2> QED BY <1>2, <2>10 DEF VariantMoves
<1> QED BY <1>1, <1>2, <1>7, <1>8, <1>9, <1>10, <1>11, <1>12, <1>13

(* The operations of variant_new.hpp do that.                                     *)
LEMMA NewMoves ==
  ASSUME VariantInv, New!Next
  PROVE  ~confused /\ \E x \in Variables : VariantMoves(x)
<1>1. PICK x \in Variables :
        \/ New!DefaultConstruct(x) \/ New!Destruct(x)
        \/ \E t \in New!Held : New!Construct(x, t) \/ New!Get(x, t)
        \/ \E y \in Variables :
             New!ConstructFrom(x, y) \/ New!Assign(x, y) \/ New!AssignThrows(x, y)
  BY DEF New!Next
<1>2. ~confused
  BY DEF New!Next
<1>3. /\ var \in [Variables -> Shells]
      /\ \A y \in Variables : ~var[y].here => var[y] = Shell(FALSE, "void", "void")
  BY DEF VariantInv
<1>4. /\ New!Held = Kinds /\ New!Gone = Shell(FALSE, "void", "void")
      /\ \A t, o : New!Holding(t, o) = Shell(TRUE, t, o)
      /\ New!Void = "void"
  BY NewActs DEF New!Gone, New!Holding, New!Void, Shell
<1>5. ASSUME NEW y \in Variables
      PROVE  /\ var[y].type \in Kinds \cup {"void"}
             /\ New!Acts(var[y].type) = Acted(var[y].type)
             /\ New!Acts(var[y].type) = 0 <=> var[y].type = "void"
             /\ New!Acts(var[y].type) > 0 <=> var[y].type # "void"
             /\ New!Meets(var[y], var[y].type) = Meets(y)
  <2>1. var[y].type \in Kinds \cup {"void"}
    BY <1>3 DEF Shells
  <2>2. New!Acts(var[y].type) = Acted(var[y].type)
    BY <2>1, NewActs
  <2>3. Acted(var[y].type) = 0 <=> var[y].type = "void"
    BY DEF Acted
  <2>4. Acted(var[y].type) > 0 <=> var[y].type # "void"
    BY DEF Acted
  <2>5. New!Meets(var[y], var[y].type) = Meets(y)
    BY <2>2, <2>4 DEF New!Meets, Meets
  <2> QED BY <2>1, <2>2, <2>3, <2>4, <2>5
<1>6. ASSUME NEW y \in Variables, NEW s
      PROVE  New!Overwritten(s, var[y].type) =
               IF var[y].type = "void" THEN 0 ELSE One(s.there # "void")
  <2>1. CASE var[y].type = "void"
    BY <1>5, <2>1 DEF New!Overwritten
  <2>2. CASE var[y].type # "void"
    <3>1. New!Acts(var[y].type) = 1
      BY <1>5, <2>2 DEF Acted
    <3>2. New!Overwritten(s, var[y].type) = New!OneIf(s.there # "void") + 1 - 1
      BY <1>4, <3>1 DEF New!Overwritten
    <3> QED BY <2>2, <3>2 DEF New!OneIf, One
  <2> QED BY <2>1, <2>2
<1>7. CASE New!DefaultConstruct(x)
  <2>1. /\ ~var[x].here /\ var' = [var EXCEPT ![x] = Shell(TRUE, "void", "void")]
        /\ lost' = lost /\ assigns' = assigns /\ torn' = torn /\ confused' = confused
    BY <1>4, <1>7 DEF New!DefaultConstruct
  <2>10. VariantBuilt(x)
    BY <2>1 DEF VariantBuilt
  <2> QED BY <1>2, <2>10 DEF VariantMoves
<1>8. CASE \E t \in New!Held : New!Construct(x, t)
  <2>1. PICK t \in Kinds : New!Construct(x, t)
    BY <1>4, <1>8
  <2>2. /\ ~var[x].here /\ var' = [var EXCEPT ![x] = Shell(TRUE, t, t)]
        /\ lost' = lost /\ assigns' = assigns /\ torn' = torn /\ confused' = confused
    BY <1>4, <2>1 DEF New!Construct
  <2>10. VariantBuilt(x)
    BY <2>2 DEF VariantBuilt
  <2> QED BY <1>2, <2>10 DEF VariantMoves
<1>9. CASE \E t \in New!Held : New!Get(x, t)
  <2>1. PICK t \in Kinds : New!Get(x, t)
    BY <1>4, <1>9
  <2>2. /\ var[x].here /\ var[x].type = t /\ confused' = (var[x].there # t)
        /\ var' = var /\ lost' = lost /\ assigns' = assigns /\ torn' = torn
    BY <2>1 DEF New!Get, New!Is
  <2>3. t # "void"
    BY DEF Kinds
  <2>4. confused' = ~Meets(x)
    BY <2>2, <2>3 DEF Meets
  <2>10. VariantGot(x)
    BY <2>2, <2>3, <2>4 DEF VariantGot
  <2> QED BY <1>2, <2>10 DEF VariantMoves
<1>10. ASSUME NEW y \in Variables, New!ConstructFrom(x, y)
       PROVE  VariantMoves(x)
  <2>1. New!Overwritten(New!Gone, var[y].type) = 0
    <3>1. New!Gone.there = "void"
      BY <1>4 DEF Shell
    <3> QED BY <1>6, <3>1 DEF One
  <2>2. (IF New!Acts(var[y].type) = 0 THEN New!Void ELSE var[y].type) = var[y].type
    BY <1>4, <1>5
  <2>3. lost' = lost
    BY <1>10, <2>1 DEF New!ConstructFrom, VariantInv
  <2> QED BY <1>4, <1>5, <1>10, <2>2, <2>3 DEF New!ConstructFrom, VariantCopied, VariantMoves
<1>11. ASSUME NEW y \in Variables, New!Assign(x, y)
       PROVE  VariantMoves(x)
  <2>1. /\ var[x].here /\ var[y].here /\ assigns < 3 /\ assigns' = assigns + 1
        /\ confused' = (~Meets(y) \/ Over(x, y)) /\ torn' = torn
        /\ lost' = lost + IF var[y].type = "void" THEN 0 ELSE One(var[x].there # "void")
    <3>1. New!OverItself(x, y) = Over(x, y)
      BY <1>5 DEF New!OverItself, Over
    <3> QED BY <1>5, <1>6, <1>11, <3>1 DEF New!Assign
  <2>2. PICK o : o = IF var[y].type = "void" THEN var[x].there ELSE var[y].type
    OBVIOUS
  <2>3. var' = [var EXCEPT ![x].type = var[y].type, ![x].there = o]
    BY <1>5, <1>11, <2>2 DEF New!Assign, New!TypeTaken
  <2>4. PICK s : s = Shell(TRUE, var[y].type, o)
    OBVIOUS
  <2>5. var' = [var EXCEPT ![x] = s]
    <3>1. var[x] \in Shells /\ var[x].here = TRUE
      BY <1>3, <2>1 DEF Shells
    <3>2. PICK v, t : v = var[x] /\ t = var[y].type
      OBVIOUS
    <3>3. [[v EXCEPT !.type = t] EXCEPT !.there = o] = Shell(v.here, t, o)
      <4>1. v \in Shells
        BY <3>1, <3>2
      <4>2. \A a, b : [[v EXCEPT !.type = a] EXCEPT !.there = b] = Shell(v.here, a, b)
        BY <4>1, ShellChanged, Zenon
      <4> QED BY <4>2, Zenon
    <3>5. Shell(v.here, t, o) = s
      BY <2>4, <3>1, <3>2
    <3>4. var' = [var EXCEPT ![x] = [[v EXCEPT !.type = t] EXCEPT !.there = o]]
      BY <1>3, <2>3, <3>2
    <3> QED BY <3>3, <3>4, <3>5
  <2> QED BY <2>1, <2>2, <2>4, <2>5 DEF VariantAssigned, VariantMoves
<1>12. ASSUME NEW y \in Variables, New!AssignThrows(x, y)
       PROVE  VariantMoves(x)
  <2>1. /\ var[x].here /\ var[y].here /\ assigns < 3 /\ assigns' = assigns + 1
        /\ var[y].type # "void" /\ torn' = TRUE
        /\ confused' = (~Meets(y) \/ Over(x, y)) /\ lost' = lost + One(var[x].there # "void")
    <3>1. New!OverItself(x, y) = Over(x, y)
      BY <1>5 DEF New!OverItself, Over
    <3> QED BY <1>4, <1>5, <1>12, <3>1 DEF New!AssignThrows, New!OneIf, One
  <2>2. var' = [var EXCEPT ![x].there = "void"]
    BY <1>4, <1>12 DEF New!AssignThrows
  <2>3. PICK s : s = Shell(TRUE, var[x].type, "void")
    OBVIOUS
  <2>4. var' = [var EXCEPT ![x] = s]
    <3>1. var[x] \in Shells /\ var[x].here = TRUE
      BY <1>3, <2>1 DEF Shells
    <3>2. PICK v : v = var[x]
      OBVIOUS
    <3>3. [v EXCEPT !.there = "void"] = s
      BY <2>3, <3>1, <3>2, ShellChanged
    <3> QED BY <2>2, <3>2, <3>3
  <2> QED BY <2>1, <2>3, <2>4 DEF VariantThrown, VariantMoves
<1>13. CASE New!Destruct(x)
  <2>1. New!Destroys(x) = Acted(var[x].type)
    BY <1>5 DEF New!Destroys
  <2>2. ~(New!Destroys(x) > 1) /\ (New!Destroys(x) = 0 <=> var[x].type = "void")
    BY <2>1 DEF Acted
  <2>3. /\ var[x].here /\ confused' = ~Meets(x)
        /\ assigns' = assigns /\ torn' = torn
        /\ var' = [var EXCEPT ![x] = Shell(FALSE, "void", "void")]
    BY <1>4, <1>5, <1>13, <2>2 DEF New!Destruct, New!After
  <2>4. lost' = lost + One(Stray(var[x]))
    BY <1>4, <1>13, <2>2 DEF New!Destruct, New!OneIf, One, Stray
  <2>10. VariantEnded(x)
    BY <2>3, <2>4 DEF VariantEnded
  <2> QED BY <1>2, <2>10 DEF VariantMoves
<1> QED BY <1>1, <1>2, <1>7, <1>8, <1>9, <1>10, <1>11, <1>12, <1>13

(* Only the ends of an assignment can lose an object, one each.             *)
LEMMA VariantSteps ==
  ASSUME VariantInv, ~confused, NEW x \in Variables, VariantMoves(x)
  PROVE  VariantInv'
<1>1. /\ var \in [Variables -> Shells]
      /\ lost \in Nat /\ assigns \in 0..3 /\ torn \in BOOLEAN
      /\ \A y \in Variables : ~var[y].here => var[y] = Shell(FALSE, "void", "void")
      /\ ~torn => \A y \in Variables : var[y].type # "void" => var[y].there = var[y].type
  BY DEF VariantInv
<1>3. \A y \in Variables : /\ var[y].type \in Kinds \cup {"void"}
                           /\ var[y].there \in Kinds \cup {"void"}
  BY <1>1 DEF Shells
<1>4. \A b \in BOOLEAN : \A t, o \in Kinds \cup {"void"} :
        /\ Shell(b, t, o) \in Shells /\ Shell(b, t, o).here = b
        /\ Shell(b, t, o).type = t /\ Shell(b, t, o).there = o
  BY DEF Shell, Shells
<1>5. "void" \notin Kinds
  BY DEF Kinds
<1>6. ~var[x].here => ~Stray(var[x])
  <2>1. ~var[x].here => var[x].there = "void"
    <3>1. Shell(FALSE, "void", "void").there = "void"
      BY DEF Shell
    <3> QED BY <1>1, <3>1
  <2> QED BY <2>1 DEF Stray
<1>7. ASSUME NEW t \in Kinds \cup {"void"} PROVE ~Stray(Shell(TRUE, t, t))
  <2>1. Shell(TRUE, t, t).type = t /\ Shell(TRUE, t, t).there = t
    BY DEF Shell
  <2> QED BY <2>1 DEF Stray
<1>8. lost \in lost..(lost + 1) /\ assigns \in assigns..3 /\ lost + 1 \in lost..(lost + 1)
      /\ lost - lost = 0 /\ (lost + 1) - lost = 1
      /\ assigns - assigns = 0 /\ (assigns + 1) - assigns = 1
      /\ (assigns < 3 => assigns + 1 \in assigns..3)
  BY <1>1
<1>9. One(TRUE) = 1 /\ One(FALSE) = 0
  BY DEF One
<1>10. CASE VariantBuilt(x)
  <2>1. PICK t \in Kinds \cup {"void"} : var' = [var EXCEPT ![x] = Shell(TRUE, t, t)]
    BY <1>10 DEF VariantBuilt
  <2>2. PICK s : s = Shell(TRUE, t, t)
    OBVIOUS
  <2>3. s \in Shells /\ s.here /\ s.type = t /\ s.there = t /\ ~Stray(s)
    BY <1>4, <1>7, <2>2
  <2>4. ~var[x].here /\ lost' = lost /\ assigns' = assigns /\ torn' = torn /\ confused' = FALSE
    BY <1>10 DEF VariantBuilt, VariantInv
  <2>5. (lost' - lost) + One(Stray(s)) <= (assigns' - assigns) + One(Stray(var[x]))
    BY <1>1, <1>6, <2>3, <2>4 DEF One
  <2>6. VariantPut(x, s)
    BY <1>1, <1>8, <2>1, <2>2, <2>3, <2>4, <2>5 DEF VariantPut
  <2> QED BY <2>3, <2>6, VariantPuts
<1>11. ASSUME NEW y \in Variables, VariantCopied(x, y)
       PROVE  VariantInv'
  <2>1. PICK t \in Kinds \cup {"void"} : t = var[y].type
    BY <1>3
  <2>2. PICK s : s = Shell(TRUE, t, t)
    OBVIOUS
  <2>3. s \in Shells /\ s.here /\ s.type = t /\ s.there = t /\ ~Stray(s)
    BY <1>4, <1>7, <2>2
  <2>4. /\ ~var[x].here /\ lost' = lost /\ assigns' = assigns /\ torn' = torn
        /\ confused' = ~Meets(y) /\ var' = [var EXCEPT ![x] = s]
    BY <1>11, <2>1, <2>2 DEF VariantCopied
  <2>5. (lost' - lost) + One(Stray(s)) <= (assigns' - assigns) + One(Stray(var[x]))
    BY <1>1, <1>6, <2>3, <2>4 DEF One
  <2>6. confused' \in BOOLEAN
    BY <2>4
  <2>7. VariantPut(x, s)
    BY <1>1, <1>8, <2>3, <2>4, <2>5, <2>6 DEF VariantPut
  <2> QED BY <2>3, <2>7, VariantPuts
<1>12. ASSUME NEW y \in Variables, VariantAssigned(x, y)
       PROVE  VariantInv'
  <2>1. PICK t, o \in Kinds \cup {"void"} :
          t = var[y].type /\ o = IF t = "void" THEN var[x].there ELSE t
    BY <1>3
  <2>2. PICK s : s = Shell(TRUE, t, o)
    OBVIOUS
  <2>3. s \in Shells /\ s.here /\ s.type = t /\ s.there = o
    <3>1. /\ Shell(TRUE, t, o) \in Shells /\ Shell(TRUE, t, o).here = TRUE
          /\ Shell(TRUE, t, o).type = t /\ Shell(TRUE, t, o).there = o
      BY DEF Shell, Shells
    <3> QED BY <2>2, <3>1
  <2>4. /\ assigns < 3 /\ assigns' = assigns + 1 /\ torn' = torn
        /\ confused' = (~Meets(y) \/ Over(x, y)) /\ var' = [var EXCEPT ![x] = s]
        /\ lost' = lost + IF t = "void" THEN 0 ELSE One(var[x].there # "void")
    BY <1>12, <2>1, <2>2 DEF VariantAssigned
  <2>5. /\ lost' \in lost..(lost + 1)
        /\ (lost' - lost) + One(Stray(s)) <= (assigns' - assigns) + One(Stray(var[x]))
    <3>1. CASE t = "void"
      <4>1. lost' = lost
        BY <1>1, <2>4, <3>1
      <4> QED BY <1>1, <2>4, <4>1 DEF One
    <3>2. CASE t # "void"
      <4>1. ~Stray(s)
        BY <2>3, <3>2 DEF Stray
      <4>2. lost' = lost \/ lost' = lost + 1
        BY <1>1, <2>4, <3>2 DEF One
      <4> QED BY <1>1, <2>4, <4>1, <4>2 DEF One
    <3> QED BY <3>1, <3>2
  <2>6. confused' \in BOOLEAN
    BY <2>4
  <2>7. s.type # "void" => s.there = s.type
    BY <2>1, <2>3
  <2>8. VariantPut(x, s)
    BY <1>1, <1>8, <2>3, <2>4, <2>5, <2>6, <2>7 DEF VariantPut
  <2> QED BY <2>3, <2>8, VariantPuts
<1>13. ASSUME NEW y \in Variables, VariantThrown(x, y)
       PROVE  VariantInv'
  <2>1. PICK t \in Kinds \cup {"void"} : t = var[x].type
    BY <1>3
  <2>2. PICK s : s = Shell(TRUE, t, "void")
    OBVIOUS
  <2>3. s \in Shells /\ s.here /\ s.type = t /\ s.there = "void"
    <3>1. "void" \in Kinds \cup {"void"}
      OBVIOUS
    <3> QED BY <1>4, <2>2, <3>1
  <2>4. /\ assigns < 3 /\ assigns' = assigns + 1 /\ torn' = TRUE
        /\ confused' = (~Meets(y) \/ Over(x, y)) /\ var' = [var EXCEPT ![x] = s]
        /\ lost' = lost + One(var[x].there # "void")
    BY <1>13, <2>1, <2>2 DEF VariantThrown
  <2>5. /\ lost' \in lost..(lost + 1)
        /\ (lost' - lost) + One(Stray(s)) <= (assigns' - assigns) + One(Stray(var[x]))
    <3>1. ~Stray(s)
      BY <2>3 DEF Stray
    <3>2. lost' = lost \/ lost' = lost + 1
      BY <1>1, <2>4 DEF One
    <3> QED BY <1>1, <2>4, <3>1, <3>2 DEF One
  <2>6. confused' \in BOOLEAN
    BY <2>4
  <2>7. VariantPut(x, s)
    BY <1>1, <1>8, <2>3, <2>4, <2>5, <2>6 DEF VariantPut
  <2> QED BY <2>3, <2>7, VariantPuts
<1>14. CASE VariantGot(x)
  <2>1. PICK s : s = var[x]
    OBVIOUS
  <2>2. /\ s \in Shells /\ s.here /\ var' = [var EXCEPT ![x] = s]
        /\ lost' = lost /\ assigns' = assigns /\ torn' = torn /\ confused' = ~Meets(x)
    BY <1>1, <1>14, <2>1 DEF VariantGot
  <2>3. (lost' - lost) + One(Stray(s)) <= (assigns' - assigns) + One(Stray(var[x]))
    BY <1>1, <2>1, <2>2 DEF One
  <2>4. confused' \in BOOLEAN
    BY <2>2
  <2>5. ~torn' => (s.type # "void" => s.there = s.type)
    BY <1>1, <2>1, <2>2
  <2>6. VariantPut(x, s)
    BY <1>1, <1>8, <2>2, <2>3, <2>4, <2>5 DEF VariantPut
  <2> QED BY <2>2, <2>6, VariantPuts
<1>15. CASE VariantEnded(x)
  <2>1. PICK s : s = Shell(FALSE, "void", "void")
    OBVIOUS
  <2>2. s \in Shells /\ s.type = "void" /\ s.there = "void" /\ ~Stray(s)
    BY <1>4, <2>1 DEF Stray
  <2>3. /\ var' = [var EXCEPT ![x] = s]
        /\ lost' = lost + One(Stray(var[x])) /\ assigns' = assigns /\ torn' = torn
        /\ confused' = ~Meets(x)
    BY <1>15, <2>1 DEF VariantEnded
  <2>4. /\ lost' \in lost..(lost + 1)
        /\ (lost' - lost) + One(Stray(s)) <= (assigns' - assigns) + One(Stray(var[x]))
    BY <1>1, <2>2, <2>3 DEF One
  <2>5. confused' \in BOOLEAN
    BY <2>3
  <2>6. VariantPut(x, s)
    BY <1>1, <1>8, <2>1, <2>2, <2>3, <2>4, <2>5 DEF VariantPut
  <2> QED BY <2>2, <2>6, VariantPuts
<1> QED BY <1>10, <1>11, <1>12, <1>13, <1>14, <1>15 DEF VariantMoves

(* Before a constructor throws, only the assignment of a variant to itself  *)
(* meets anything but an object of the type: in variant.hpp,                *)
LEMMA OldMisreads ==
  ASSUME VariantInv, Old!Next
  PROVE  Old!MisreadsItself
<1> SUFFICES ASSUME confused', ~torn
             PROVE  \E x \in Variables : Old!Assign(x, x) \/ Old!AssignThrows(x, x)
  BY DEF Old!MisreadsItself
<1>1. PICK x \in Variables :
        \/ Old!DefaultConstruct(x) \/ Old!Destruct(x)
        \/ \E t \in Old!Held : Old!Construct(x, t) \/ Old!Get(x, t)
        \/ \E y \in Variables :
             Old!ConstructFrom(x, y) \/ Old!Assign(x, y) \/ Old!AssignThrows(x, y)
  BY DEF Old!Next
<1>2. ~confused /\ Old!Held = Kinds
  BY OldActs DEF Old!Next
<1>3. ASSUME NEW y \in Variables
      PROVE  Old!Meets(var[y], var[y].type)
  <2>1. var[y].type \in Kinds \cup {"void"}
    BY DEF VariantInv, Shells
  <2>2. Old!Acts(var[y].type) = Acted(var[y].type)
    BY <2>1, OldActs
  <2>3. Old!Acts(var[y].type) > 0 => var[y].type # "void"
    BY <2>2 DEF Acted
  <2> QED BY <2>3 DEF VariantInv, Old!Meets
<1>4. CASE Old!DefaultConstruct(x) \/ \E t \in Old!Held : Old!Construct(x, t)
  BY <1>2, <1>4 DEF Old!DefaultConstruct, Old!Construct
<1>5. CASE \E t \in Old!Held : Old!Get(x, t)
  <2>1. PICK t \in Kinds : var[x].type = t /\ confused' = (var[x].there # t)
    BY <1>2, <1>5 DEF Old!Get, Old!Is
  <2> QED BY <2>1 DEF VariantInv, Kinds
<1>6. CASE Old!Destruct(x)
  <2>1. var[x].type \in Kinds \cup {"void"}
    BY DEF VariantInv, Shells
  <2>2. Old!Destroys(x) = Acted(var[x].type)
    BY <2>1, OldActs DEF Old!Destroys
  <2>3. ~(Old!Destroys(x) > 1)
    BY <2>2 DEF Acted
  <2>4. confused' = (~Old!Meets(var[x], var[x].type) \/ Old!Destroys(x) > 1)
    BY <1>6 DEF Old!Destruct
  <2> QED BY <1>3, <2>3, <2>4
<1>7. CASE \E y \in Variables : Old!ConstructFrom(x, y)
  BY <1>3, <1>7 DEF Old!ConstructFrom
<1>8. CASE \E y \in Variables : Old!Assign(x, y)
  BY <1>3, <1>8 DEF Old!Assign, Old!OverItself
<1>9. CASE \E y \in Variables : Old!AssignThrows(x, y)
  BY <1>3, <1>9 DEF Old!AssignThrows, Old!OverItself
<1> QED BY <1>1, <1>4, <1>5, <1>6, <1>7, <1>8, <1>9

(* and in variant_new.hpp.                                                  *)
LEMMA NewMisreads ==
  ASSUME VariantInv, New!Next
  PROVE  New!MisreadsItself
<1> SUFFICES ASSUME confused', ~torn
             PROVE  \E x \in Variables : New!Assign(x, x) \/ New!AssignThrows(x, x)
  BY DEF New!MisreadsItself
<1>1. PICK x \in Variables :
        \/ New!DefaultConstruct(x) \/ New!Destruct(x)
        \/ \E t \in New!Held : New!Construct(x, t) \/ New!Get(x, t)
        \/ \E y \in Variables :
             New!ConstructFrom(x, y) \/ New!Assign(x, y) \/ New!AssignThrows(x, y)
  BY DEF New!Next
<1>2. ~confused /\ New!Held = Kinds
  BY NewActs DEF New!Next
<1>3. ASSUME NEW y \in Variables
      PROVE  New!Meets(var[y], var[y].type)
  <2>1. var[y].type \in Kinds \cup {"void"}
    BY DEF VariantInv, Shells
  <2>2. New!Acts(var[y].type) = Acted(var[y].type)
    BY <2>1, NewActs
  <2>3. New!Acts(var[y].type) > 0 => var[y].type # "void"
    BY <2>2 DEF Acted
  <2> QED BY <2>3 DEF VariantInv, New!Meets
<1>4. CASE New!DefaultConstruct(x) \/ \E t \in New!Held : New!Construct(x, t)
  BY <1>2, <1>4 DEF New!DefaultConstruct, New!Construct
<1>5. CASE \E t \in New!Held : New!Get(x, t)
  <2>1. PICK t \in Kinds : var[x].type = t /\ confused' = (var[x].there # t)
    BY <1>2, <1>5 DEF New!Get, New!Is
  <2> QED BY <2>1 DEF VariantInv, Kinds
<1>6. CASE New!Destruct(x)
  <2>1. var[x].type \in Kinds \cup {"void"}
    BY DEF VariantInv, Shells
  <2>2. New!Destroys(x) = Acted(var[x].type)
    BY <2>1, NewActs DEF New!Destroys
  <2>3. ~(New!Destroys(x) > 1)
    BY <2>2 DEF Acted
  <2>4. confused' = (~New!Meets(var[x], var[x].type) \/ New!Destroys(x) > 1)
    BY <1>6 DEF New!Destruct
  <2> QED BY <1>3, <2>3, <2>4
<1>7. CASE \E y \in Variables : New!ConstructFrom(x, y)
  BY <1>3, <1>7 DEF New!ConstructFrom
<1>8. CASE \E y \in Variables : New!Assign(x, y)
  BY <1>3, <1>8 DEF New!Assign, New!OverItself
<1>9. CASE \E y \in Variables : New!AssignThrows(x, y)
  BY <1>3, <1>9 DEF New!AssignThrows, New!OverItself
<1> QED BY <1>1, <1>4, <1>5, <1>6, <1>7, <1>8, <1>9

(* No variant has been made.                                                *)
LEMMA VariantBegins ==
  ASSUME Old!Init
  PROVE  VariantInv
<1>1. Old!Gone = Shell(FALSE, "void", "void")
  BY DEF Old!Gone, Old!Void, Shell
<1>2. /\ var = [x \in Variables |-> Shell(FALSE, "void", "void")]
      /\ lost = 0 /\ assigns = 0 /\ torn = FALSE /\ confused = FALSE
  BY <1>1 DEF Old!Init
<1>3. Shell(FALSE, "void", "void") \in Shells /\ ~Stray(Shell(FALSE, "void", "void"))
      /\ Shell(FALSE, "void", "void").type = "void"
  BY DEF Shell, Shells, Stray
<1>4. Strays = {}
  BY <1>2, <1>3 DEF Strays
<1>5. IsFiniteSet(Strays) /\ Cardinality(Strays) = 0
  BY <1>4, FS_EmptySet
<1>6. lost + Cardinality(Strays) <= assigns
  BY <1>2, <1>5
<1>7. var \in [Variables -> Shells] /\ \A x \in Variables :
        var[x] = Shell(FALSE, "void", "void") /\ var[x].type = "void"
  BY <1>2, <1>3
<1>8. lost \in Nat /\ assigns \in 0..3 /\ torn \in BOOLEAN /\ confused \in BOOLEAN /\ ~confused
  <2>1. lost = 0 /\ assigns = 0
    BY <1>2
  <2>2. torn = FALSE /\ confused = FALSE
    BY <1>2
  <2>3. lost \in Nat /\ assigns \in 0..3
    BY <2>1
  <2> QED BY <2>2, <2>3
<1> QED BY <1>5, <1>6, <1>7, <1>8 DEF VariantInv

(* The type invariant and the properties, for the types of either header.   *)
LEMMA VariantMeans ==
  ASSUME VariantInv
  PROVE  /\ Old!TypeOK /\ Old!TypeTellsTruth /\ Old!LostByAssignment
         /\ New!TypeOK /\ New!TypeTellsTruth /\ New!LostByAssignment
<1>1. /\ Old!Gone = Shell(FALSE, "void", "void") /\ Old!Void = "void"
      /\ New!Gone = Shell(FALSE, "void", "void") /\ New!Void = "void"
  BY DEF Old!Gone, Old!Void, New!Gone, New!Void, Shell
<1>2. Old!TypeOK
  BY <1>1, OldActs DEF VariantInv, Shells, Old!TypeOK
<1>3. New!TypeOK
  BY <1>1, NewActs DEF VariantInv, Shells, New!TypeOK
<1>4. Old!TypeTellsTruth /\ New!TypeTellsTruth
  BY <1>1 DEF VariantInv, Old!TypeTellsTruth, New!TypeTellsTruth
<1>5. lost <= assigns
  <2>1. lost \in Nat /\ assigns \in Nat /\ IsFiniteSet(Strays)
        /\ lost + Cardinality(Strays) <= assigns
    BY DEF VariantInv
  <2>2. Cardinality(Strays) \in Nat
    BY <2>1, FS_CardinalityType
  <2> QED BY <2>1, <2>2
<1> QED BY <1>2, <1>3, <1>4, <1>5 DEF Old!LostByAssignment, New!LostByAssignment

-----------------------------------------------------------------------------
(* ObjectPool. *)

PoolEntries == [obj : Objects, key : Keys, back : BOOLEAN]

(* The entries of one key, and of all keys.                                 *)
Shelf(k) == { stored[k][i] : i \in 1..Len(stored[k]) }

Shelved == UNION { Shelf(k) : k \in Keys }

PoolTypes ==
  /\ open \in BOOLEAN /\ stored \in [Keys -> Seq(PoolEntries)] /\ held \subseteq PoolEntries
  /\ deleted \subseteq Objects /\ gets \in [Objects -> 0..2]

(* Each entry is under its key, once.                                       *)
PoolOrder ==
  /\ \A k \in Keys : \A e \in Shelf(k) : e.key = k
  /\ \A k \in Keys : \A i, j \in 1..Len(stored[k]) :
       stored[k][i].obj = stored[k][j].obj => i = j

(* An object has one entry, which tells by its deleter how often it was     *)
(* handed out: of those stored, the ones that have come back were once; of  *)
(* those with a client, the ones that will come back too, the others twice. *)
PoolHomes(S, H, d, g) ==
  /\ \A e, f \in S \cup H : e.obj = f.obj => e = f
  /\ S \cap H = {}
  /\ \A e \in S \cup H : e.obj \notin d
  /\ \A e \in S : g[e.obj] = IF e.back THEN 0 ELSE 1
  /\ \A e \in H : g[e.obj] = IF e.back THEN 1 ELSE 2
  /\ \A o \in Objects : g[o] # 0 => o \in d \cup { e.obj : e \in S \cup H }

PoolInv ==
  /\ PoolTypes /\ PoolOrder /\ PoolHomes(Shelved, held, deleted, gets)
  /\ ~open => held = {} /\ Shelved = {}

(* The pool's own words for that.                                           *)
LEMMA PoolShelves ==
  ASSUME PoolTypes
  PROVE  /\ Pool!Stored = Shelved
         /\ Pool!Made = { e.obj : e \in Shelved \cup held } \cup deleted
         /\ Shelved \subseteq PoolEntries
<1>1. ASSUME NEW k \in Keys PROVE Pool!ToSet(stored[k]) = Shelf(k)
  <2>1. stored[k] \in Seq(PoolEntries)
    BY DEF PoolTypes
  <2>2. DOMAIN stored[k] = 1..Len(stored[k])
    BY <2>1
  <2> QED BY <2>2 DEF Pool!ToSet, Shelf
<1>2. Pool!Stored = Shelved
  BY <1>1 DEF Pool!Stored, Shelved
<1>3. Shelved \subseteq PoolEntries
  <2>1. ASSUME NEW k \in Keys, NEW e \in Shelf(k) PROVE e \in PoolEntries
    <3>1. stored[k] \in Seq(PoolEntries)
      BY DEF PoolTypes
    <3> QED BY <2>1, <3>1 DEF Shelf
  <2> QED BY <2>1 DEF Shelved
<1> QED BY <1>2, <1>3 DEF Pool!Made

(* A set of new entries, one after another.                                 *)
LEMMA EntriesInARow ==
  ASSUME NEW S, IsFiniteSet(S)
  PROVE  /\ Pool!SetToSeq(S) \in Seq(S)
         /\ \A i, j \in 1..Len(Pool!SetToSeq(S)) :
              Pool!SetToSeq(S)[i] = Pool!SetToSeq(S)[j] => i = j
<1>1. Cardinality(S) \in Nat /\ ExistsBijection(1..Cardinality(S), S)
  BY FS_CardinalityType
<1>2. PICK n \in Nat : n = Cardinality(S)
  BY <1>1
<1>3. \E f \in [1..n -> S] : \A a, b \in DOMAIN f : f[a] = f[b] => a = b
  BY <1>1, <1>2 DEF ExistsBijection, Bijection, Injection, IsInjective
<1>4. Pool!SetToSeq(S) = CHOOSE f \in [1..n -> S] : \A a, b \in DOMAIN f : f[a] = f[b] => a = b
  <2>1. Pool!Cardinality(S) = Cardinality(S)
    BY DEF Pool!Cardinality, Cardinality
  <2> QED BY <1>2, <2>1 DEF Pool!SetToSeq, Pool!IsInjective
<1>5. PICK s : s = Pool!SetToSeq(S)
  OBVIOUS
<1>6. s \in [1..n -> S] /\ \A a, b \in DOMAIN s : s[a] = s[b] => a = b
  BY <1>3, <1>4, <1>5
<1>7. s \in Seq(S) /\ Len(s) = n /\ DOMAIN s = 1..Len(s)
  BY <1>6
<1> QED BY <1>5, <1>6, <1>7

(* What is stored when one key's entries become c.                          *)
LEMMA PoolShelfChanged ==
  ASSUME PoolTypes, PoolOrder, NEW k \in Keys, NEW c \in Seq(PoolEntries),
         stored' = [stored EXCEPT ![k] = c],
         \A i \in 1..Len(c) : c[i].key = k,
         \A i, j \in 1..Len(c) : c[i].obj = c[j].obj => i = j
  PROVE  /\ stored' \in [Keys -> Seq(PoolEntries)] /\ PoolOrder'
         /\ Shelved' = (Shelved \ Shelf(k)) \cup { c[i] : i \in 1..Len(c) }
<1>1. stored \in [Keys -> Seq(PoolEntries)]
  BY DEF PoolTypes
<1>2. /\ stored' \in [Keys -> Seq(PoolEntries)] /\ stored'[k] = c
      /\ \A l \in Keys \ {k} : stored'[l] = stored[l]
  BY <1>1
<1>3. Shelf(k)' = { c[i] : i \in 1..Len(c) } /\ \A l \in Keys \ {k} : Shelf(l)' = Shelf(l)
  BY <1>2 DEF Shelf
<1>4. PoolOrder'
  <2>1. ASSUME NEW l \in Keys, NEW e \in Shelf(l)' PROVE e.key = l
    <3>1. CASE l = k
      BY <1>3, <2>1, <3>1
    <3>2. CASE l # k
      BY <1>3, <2>1, <3>2 DEF PoolOrder
    <3> QED BY <3>1, <3>2
  <2>2. ASSUME NEW l \in Keys
        PROVE  \A i, j \in 1..Len(stored'[l]) :
                 stored'[l][i].obj = stored'[l][j].obj => i = j
    <3>1. CASE l = k
      BY <1>2, <3>1
    <3>2. CASE l # k
      BY <1>2, <3>2 DEF PoolOrder
    <3> QED BY <3>1, <3>2
  <2> QED BY <2>1, <2>2 DEF PoolOrder
<1>5. Shelved' = UNION { Shelf(l)' : l \in Keys }
  BY DEF Shelved
<1>6. ASSUME NEW l \in Keys \ {k} PROVE Shelf(l) \cap Shelf(k) = {}
  BY DEF PoolOrder
<1>7. Shelved' = (Shelved \ Shelf(k)) \cup Shelf(k)'
  BY <1>3, <1>5, <1>6 DEF Shelved
<1> QED BY <1>2, <1>3, <1>4, <1>7

(* Init of the pool: new objects, which nobody was given.                   *)
LEMMA PoolInits ==
  ASSUME PoolInv, NEW k \in Keys, NEW new \in SUBSET Objects, Pool!InitPool(k, new)
  PROVE  PoolInv'
<1>1. PICK S : S = { Pool!Entry(o, k, TRUE) : o \in new }
  OBVIOUS
<1>2. IsFiniteSet(S)
  <2>1. IsFiniteSet(new)
    BY FS_Subset
  <2>2. PICK h : h = [o \in new |-> Pool!Entry(o, k, TRUE)]
    OBVIOUS
  <2>3. h \in Surjection(new, S)
    BY <1>1, <2>2 DEF Surjection
  <2> QED BY <2>1, <2>3, FS_Surjection DEF ExistsSurjection
<1>3. PICK g : g = Pool!SetToSeq(S)
  OBVIOUS
<1>4. g \in Seq(S) /\ \A i, j \in 1..Len(g) : g[i] = g[j] => i = j
  BY <1>2, <1>3, EntriesInARow
<1>5. /\ S \subseteq PoolEntries
      /\ \A e \in S : e.key = k /\ e.obj \in new /\ e.back
      /\ \A e, f \in S : e.obj = f.obj => e = f
  <2>1. \A o \in new : /\ Pool!Entry(o, k, TRUE) \in PoolEntries
                       /\ Pool!Entry(o, k, TRUE).key = k
                       /\ Pool!Entry(o, k, TRUE).obj = o
                       /\ Pool!Entry(o, k, TRUE).back
    BY DEF Pool!Entry, PoolEntries
  <2>2. \A e \in S : \E o \in new : e = Pool!Entry(o, k, TRUE)
    BY <1>1
  <2>3. ASSUME NEW e \in S
        PROVE  /\ e \in PoolEntries /\ e.key = k /\ e.back /\ e.obj \in new
               /\ e = [obj |-> e.obj, key |-> k, back |-> TRUE]
    <3>1. PICK o \in new : e = Pool!Entry(o, k, TRUE)
      BY <2>2
    <3>2. /\ e \in PoolEntries /\ e.key = k /\ e.obj = o /\ e.back
      BY <2>1, <3>1
    <3>3. e = [obj |-> o, key |-> k, back |-> TRUE]
      BY <3>1 DEF Pool!Entry
    <3> QED BY <3>2, <3>3
  <2>4. ASSUME NEW e \in S, NEW f \in S, e.obj = f.obj PROVE e = f
    BY <2>3, <2>4
  <2> QED BY <2>3, <2>4
<1>6. /\ open /\ stored' = [stored EXCEPT ![k] = @ \o g]
      /\ open' = open /\ held' = held /\ deleted' = deleted /\ gets' = gets
      /\ new \cap Pool!Made = {}
  BY <1>1, <1>3 DEF Pool!InitPool
<1>7. PICK b : b = stored[k]
  OBVIOUS
<1>8. /\ PoolTypes /\ PoolOrder /\ PoolHomes(Shelved, held, deleted, gets)
      /\ ~open => held = {} /\ Shelved = {}
      /\ stored \in [Keys -> Seq(PoolEntries)] /\ b \in Seq(PoolEntries)
  BY <1>7 DEF PoolInv, PoolTypes
<1>9. g \in Seq(PoolEntries) /\ Len(g) \in Nat /\ \A i \in 1..Len(g) : g[i] \in S
  BY <1>4, <1>5
<1>10. PICK c : c = b \o g
  OBVIOUS
<1>11. /\ c \in Seq(PoolEntries) /\ Len(c) = Len(b) + Len(g) /\ Len(b) \in Nat
       /\ \A i \in 1..Len(b) : c[i] = b[i]
       /\ \A i \in (Len(b) + 1)..Len(c) : i - Len(b) \in 1..Len(g) /\ c[i] = g[i - Len(b)]
  BY <1>8, <1>9, <1>10
<1>12. \A i \in 1..Len(b) : b[i] \in Shelf(k) /\ b[i].key = k /\ b[i] \in Shelved
  BY <1>7, <1>8 DEF PoolOrder, Shelf, Shelved
<1>13. \A e \in Shelved \cup held : e.obj \notin new
  BY <1>6, <1>8, PoolShelves
<1>14. \A i \in 1..Len(c) : c[i].key = k
  <2>1. ASSUME NEW i \in 1..Len(c) PROVE c[i].key = k
    <3>1. CASE i \in 1..Len(b)
      BY <1>11, <1>12, <3>1
    <3>2. CASE i \in (Len(b) + 1)..Len(c)
      BY <1>5, <1>9, <1>11, <3>2
    <3> QED BY <1>11, <3>1, <3>2
  <2> QED BY <2>1
<1>15. ASSUME NEW i \in 1..Len(c), NEW j \in 1..Len(c), c[i].obj = c[j].obj
       PROVE  i = j
  <2>1. CASE i \in 1..Len(b) /\ j \in 1..Len(b)
    BY <1>7, <1>8, <1>11, <1>15, <2>1 DEF PoolOrder
  <2>2. CASE i \in 1..Len(b) /\ j \in (Len(b) + 1)..Len(c)
    <3>1. c[i] \in Shelved
      BY <1>11, <1>12, <2>2
    <3>2. c[j].obj \in new
      BY <1>5, <1>9, <1>11, <2>2
    <3> QED BY <1>13, <1>15, <3>1, <3>2
  <2>3. CASE j \in 1..Len(b) /\ i \in (Len(b) + 1)..Len(c)
    <3>1. c[j] \in Shelved
      BY <1>11, <1>12, <2>3
    <3>2. c[i].obj \in new
      BY <1>5, <1>9, <1>11, <2>3
    <3> QED BY <1>13, <1>15, <3>1, <3>2
  <2>4. CASE i \in (Len(b) + 1)..Len(c) /\ j \in (Len(b) + 1)..Len(c)
    <3>1. g[i - Len(b)] = g[j - Len(b)]
      BY <1>5, <1>9, <1>11, <1>15, <2>4
    <3>2. i - Len(b) = j - Len(b)
      BY <1>4, <1>11, <2>4, <3>1
    <3> QED BY <1>11, <3>2
  <2> QED BY <1>11, <2>1, <2>2, <2>3, <2>4
<1>16. stored' = [stored EXCEPT ![k] = c]
  BY <1>6, <1>7, <1>10
<1>17. /\ stored' \in [Keys -> Seq(PoolEntries)] /\ PoolOrder'
       /\ Shelved' = (Shelved \ Shelf(k)) \cup { c[i] : i \in 1..Len(c) }
  BY <1>8, <1>11, <1>14, <1>15, <1>16, PoolShelfChanged
<1>18. PICK N : N = { g[i] : i \in 1..Len(g) }
  OBVIOUS
<1>19. N \subseteq S /\ { c[i] : i \in 1..Len(c) } = Shelf(k) \cup N
  <2>1. \A i \in 1..Len(g) : Len(b) + i \in (Len(b) + 1)..Len(c) /\ c[Len(b) + i] = g[i]
    <3>1. ASSUME NEW i \in 1..Len(g)
          PROVE  Len(b) + i \in (Len(b) + 1)..Len(c) /\ (Len(b) + i) - Len(b) = i
      BY <1>9, <1>11
    <3> QED BY <1>11, <3>1
  <2>2. \A i \in 1..Len(g) : \E j \in 1..Len(c) : c[j] = g[i]
    <3>1. \A i \in (Len(b) + 1)..Len(c) : i \in 1..Len(c)
      BY <1>11
    <3> QED BY <2>1, <3>1
  <2>3. \A i \in 1..Len(b) : i \in 1..Len(c) /\ c[i] = b[i]
    BY <1>9, <1>11
  <2>4. \A i \in 1..Len(c) : i \in 1..Len(b) \/ i \in (Len(b) + 1)..Len(c)
    BY <1>11
  <2>5. Shelf(k) = { b[i] : i \in 1..Len(b) }
    BY <1>7 DEF Shelf
  <2>6. \A e \in { c[i] : i \in 1..Len(c) } : e \in Shelf(k) \cup N
    BY <1>11, <1>18, <2>4, <2>5
  <2>7. \A e \in Shelf(k) \cup N : e \in { c[i] : i \in 1..Len(c) }
    BY <1>18, <2>2, <2>3, <2>5
  <2> QED BY <1>9, <1>18, <2>6, <2>7
<1>20. Shelved' = Shelved \cup N
  <2>1. Shelf(k) \subseteq Shelved
    BY DEF Shelved
  <2> QED BY <1>17, <1>19, <2>1
<1>21. \A o \in new : gets[o] = 0 /\ o \notin deleted
  <2>1. new \cap deleted = {}
    BY <1>6, <1>8, PoolShelves
  <2>2. \A o \in new : o \notin deleted \cup { e.obj : e \in Shelved \cup held }
    BY <1>13, <2>1
  <2> QED BY <1>8, <2>2 DEF PoolHomes
<1>22. PoolHomes(Shelved \cup N, held, deleted, gets)
  <2>1. \A e \in N : e.obj \in new /\ e.back
    BY <1>5, <1>19
  <2>2. \A e, f \in N : e.obj = f.obj => e = f
    BY <1>5, <1>19
  <2>3. \A e, f \in (Shelved \cup N) \cup held : e.obj = f.obj => e = f
    BY <1>8, <1>13, <2>1, <2>2 DEF PoolHomes
  <2>4. (Shelved \cup N) \cap held = {}
    BY <1>8, <1>13, <2>1 DEF PoolHomes
  <2> QED BY <1>8, <1>21, <2>1, <2>3, <2>4 DEF PoolHomes
<1>23. PoolTypes'
  BY <1>6, <1>8, <1>17 DEF PoolTypes
<1>24. PoolHomes(Shelved, held, deleted, gets)'
  BY <1>6, <1>20, <1>22 DEF PoolHomes
<1> QED BY <1>6, <1>17, <1>23, <1>24 DEF PoolInv

(* Get: the first entry goes to the client.                                 *)
LEMMA PoolGets ==
  ASSUME PoolInv, NEW k \in Keys, Pool!Get(k)
  PROVE  PoolInv'
<1>1. PICK b, h, c : b = stored[k] /\ h = Head(stored[k]) /\ c = Tail(stored[k])
  OBVIOUS
<1>2. /\ open /\ b # << >> /\ stored' = [stored EXCEPT ![k] = c] /\ held' = held \cup {h}
      /\ gets' = [gets EXCEPT ![h.obj] = @ + 1] /\ open' = open /\ deleted' = deleted
  BY <1>1 DEF Pool!Get, Pool!Rest
<1>3. /\ PoolTypes /\ PoolOrder /\ PoolHomes(Shelved, held, deleted, gets)
      /\ stored \in [Keys -> Seq(PoolEntries)] /\ b \in Seq(PoolEntries)
      /\ held \subseteq PoolEntries /\ gets \in [Objects -> 0..2]
  BY <1>1 DEF PoolInv, PoolTypes
<1>4. /\ Len(b) \in Nat \ {0} /\ h = b[1] /\ c \in Seq(PoolEntries) /\ Len(c) = Len(b) - 1
      /\ \A i \in 1..Len(c) : i + 1 \in 1..Len(b) /\ c[i] = b[i + 1]
  BY <1>1, <1>2, <1>3
<1>5. /\ \A i \in 1..Len(b) : b[i].key = k
      /\ \A i, j \in 1..Len(b) : b[i].obj = b[j].obj => i = j
  BY <1>1, <1>3 DEF PoolOrder, Shelf
<1>6. \A i \in 1..Len(c) : c[i].key = k
  BY <1>4, <1>5
<1>7. \A i, j \in 1..Len(c) : c[i].obj = c[j].obj => i = j
  <2>1. ASSUME NEW i \in 1..Len(c), NEW j \in 1..Len(c), c[i].obj = c[j].obj PROVE i = j
    <3>1. i + 1 = j + 1
      BY <1>4, <1>5, <2>1
    <3> QED BY <1>4, <3>1
  <2> QED BY <2>1
<1>8. /\ stored' \in [Keys -> Seq(PoolEntries)] /\ PoolOrder'
      /\ Shelved' = (Shelved \ Shelf(k)) \cup { c[i] : i \in 1..Len(c) }
  BY <1>2, <1>3, <1>4, <1>6, <1>7, PoolShelfChanged
<1>9. { c[i] : i \in 1..Len(c) } = Shelf(k) \ {h}
  <2>1. Shelf(k) = { b[i] : i \in 1..Len(b) }
    BY <1>1 DEF Shelf
  <2>2. ASSUME NEW i \in 1..Len(c) PROVE c[i] \in Shelf(k) \ {h}
    <3>1. i + 1 \in 1..Len(b) /\ c[i] = b[i + 1] /\ 1 \in 1..Len(b) /\ i + 1 # 1
      BY <1>4
    <3>2. b[i + 1] # b[1]
      BY <1>5, <3>1
    <3> QED BY <1>4, <2>1, <3>1, <3>2
  <2>3. ASSUME NEW e \in Shelf(k) \ {h} PROVE \E i \in 1..Len(c) : c[i] = e
    <3>1. PICK j \in 1..Len(b) : b[j] = e
      BY <2>1
    <3>2. j - 1 \in 1..Len(c) /\ (j - 1) + 1 = j
      BY <1>4, <2>3, <3>1
    <3> QED BY <1>4, <3>1, <3>2
  <2> QED BY <2>2, <2>3
<1>10. h \in Shelf(k) /\ h \in Shelved
  BY <1>1, <1>4 DEF Shelf, Shelved
<1>11. Shelved' = Shelved \ {h}
  <2>1. Shelf(k) \subseteq Shelved
    BY DEF Shelved
  <2> QED BY <1>8, <1>9, <1>10, <2>1
<1>12. h \in PoolEntries /\ h.obj \in Objects
  <2>1. 1 \in 1..Len(b) /\ b[1] \in PoolEntries
    BY <1>3, <1>4
  <2> QED BY <1>4, <2>1 DEF PoolEntries
<1>13. gets[h.obj] = IF h.back THEN 0 ELSE 1
  BY <1>3, <1>10 DEF PoolHomes
<1>14. /\ gets' \in [Objects -> 0..2]
       /\ gets'[h.obj] = IF h.back THEN 1 ELSE 2
       /\ \A o \in Objects \ {h.obj} : gets'[o] = gets[o]
  BY <1>2, <1>3, <1>12, <1>13
<1>15. \A e \in Shelved \cup held : e.obj \in Objects /\ (e # h => e.obj # h.obj)
  <2>1. \A e \in Shelved \cup held : e \in PoolEntries
    BY <1>3, PoolShelves
  <2> QED BY <1>3, <1>10, <2>1 DEF PoolHomes, PoolEntries
<1>16. PoolHomes(Shelved \ {h}, held \cup {h}, deleted, gets')
  <2>1. (Shelved \ {h}) \cup (held \cup {h}) = Shelved \cup held
    BY <1>10
  <2>2. h \notin held
    BY <1>3, <1>10 DEF PoolHomes
  <2>3. /\ \A e, f \in Shelved \cup held : e.obj = f.obj => e = f
        /\ Shelved \cap held = {}
        /\ \A e \in Shelved \cup held : e.obj \notin deleted
        /\ \A e \in Shelved : gets[e.obj] = IF e.back THEN 0 ELSE 1
        /\ \A e \in held : gets[e.obj] = IF e.back THEN 1 ELSE 2
        /\ \A o \in Objects : gets[o] # 0 => o \in deleted \cup { e.obj : e \in Shelved \cup held }
    BY <1>3 DEF PoolHomes
  <2>4. \A e \in Shelved \ {h} : gets'[e.obj] = IF e.back THEN 0 ELSE 1
    BY <1>14, <1>15, <2>3
  <2>5. \A e \in held \cup {h} : gets'[e.obj] = IF e.back THEN 1 ELSE 2
    BY <1>14, <1>15, <2>2, <2>3
  <2>6. ASSUME NEW o \in Objects, gets'[o] # 0
        PROVE  o \in deleted \cup { e.obj : e \in Shelved \cup held }
    BY <1>10, <1>14, <2>3, <2>6
  <2> QED BY <2>1, <2>2, <2>3, <2>4, <2>5, <2>6 DEF PoolHomes
<1>17. PoolTypes'
  BY <1>2, <1>3, <1>8, <1>12, <1>14 DEF PoolTypes
<1>18. PoolHomes(Shelved, held, deleted, gets)'
  BY <1>2, <1>11, <1>16 DEF PoolHomes
<1> QED BY <1>2, <1>8, <1>17, <1>18 DEF PoolInv

(* The deleter that puts an object back makes an entry that will not.       *)
LEMMA PoolPutsBack ==
  ASSUME PoolInv, NEW e \in held, Pool!PutBack(e)
  PROVE  PoolInv'
<1>1. /\ PoolTypes /\ PoolOrder /\ PoolHomes(Shelved, held, deleted, gets)
      /\ stored \in [Keys -> Seq(PoolEntries)]
      /\ held \subseteq PoolEntries /\ gets \in [Objects -> 0..2]
  BY DEF PoolInv, PoolTypes
<1>2. e \in PoolEntries /\ e.obj \in Objects /\ e.key \in Keys
  BY <1>1 DEF PoolEntries
<1>3. PICK r, k, b, c : /\ r = Pool!Returned(e) /\ k = e.key /\ b = stored[k]
                        /\ c = Append(b, r)
  OBVIOUS
<1>4. /\ e.back /\ open /\ held' = held \ {e} /\ stored' = [stored EXCEPT ![k] = c]
      /\ open' = open /\ deleted' = deleted /\ gets' = gets
  BY <1>3 DEF Pool!PutBack
<1>5. r \in PoolEntries /\ r.obj = e.obj /\ r.key = k /\ ~r.back /\ k \in Keys
  BY <1>2, <1>3 DEF Pool!Returned, Pool!Entry, PoolEntries
<1>6. b \in Seq(PoolEntries)
  BY <1>1, <1>3, <1>5
<1>7. /\ c \in Seq(PoolEntries) /\ Len(b) \in Nat /\ Len(c) = Len(b) + 1 /\ c[Len(b) + 1] = r
      /\ \A i \in 1..Len(b) : c[i] = b[i]
  BY <1>3, <1>5, <1>6
<1>8. \A i \in 1..Len(c) : i \in 1..Len(b) \/ i = Len(b) + 1
  BY <1>7
<1>9. /\ \A i \in 1..Len(b) : b[i].key = k /\ b[i] \in Shelved
      /\ \A i, j \in 1..Len(b) : b[i].obj = b[j].obj => i = j
  BY <1>1, <1>3, <1>5 DEF PoolOrder, Shelf, Shelved
<1>10. \A f \in Shelved : f.obj # e.obj
  BY <1>1 DEF PoolHomes
<1>11. \A i \in 1..Len(c) : c[i].key = k
  BY <1>5, <1>7, <1>8, <1>9
<1>12. \A i, j \in 1..Len(c) : c[i].obj = c[j].obj => i = j
  <2>1. ASSUME NEW i \in 1..Len(c), NEW j \in 1..Len(c), c[i].obj = c[j].obj PROVE i = j
    <3>1. CASE i \in 1..Len(b) /\ j \in 1..Len(b)
      BY <1>7, <1>9, <2>1, <3>1
    <3>2. CASE i \in 1..Len(b) /\ j = Len(b) + 1
      BY <1>5, <1>7, <1>9, <1>10, <2>1, <3>2
    <3>3. CASE j \in 1..Len(b) /\ i = Len(b) + 1
      BY <1>5, <1>7, <1>9, <1>10, <2>1, <3>3
    <3> QED BY <1>8, <3>1, <3>2, <3>3
  <2> QED BY <2>1
<1>13. /\ stored' \in [Keys -> Seq(PoolEntries)] /\ PoolOrder'
       /\ Shelved' = (Shelved \ Shelf(k)) \cup { c[i] : i \in 1..Len(c) }
  BY <1>1, <1>4, <1>5, <1>7, <1>11, <1>12, PoolShelfChanged
<1>14. { c[i] : i \in 1..Len(c) } = Shelf(k) \cup {r}
  <2>1. Shelf(k) = { b[i] : i \in 1..Len(b) }
    BY <1>3 DEF Shelf
  <2>2. \A i \in 1..Len(b) : i \in 1..Len(c)
    BY <1>7
  <2>3. Len(b) + 1 \in 1..Len(c)
    BY <1>7
  <2> QED BY <1>7, <1>8, <2>1, <2>2, <2>3
<1>15. Shelved' = Shelved \cup {r}
  <2>1. Shelf(k) \subseteq Shelved
    BY <1>5 DEF Shelved
  <2> QED BY <1>13, <1>14, <2>1
<1>16. PoolHomes(Shelved \cup {r}, held \ {e}, deleted, gets)
  <2>1. /\ \A d, f \in Shelved \cup held : d.obj = f.obj => d = f
        /\ Shelved \cap held = {}
        /\ \A f \in Shelved \cup held : f.obj \notin deleted
        /\ \A f \in Shelved : gets[f.obj] = IF f.back THEN 0 ELSE 1
        /\ \A f \in held : gets[f.obj] = IF f.back THEN 1 ELSE 2
        /\ \A o \in Objects : gets[o] # 0 => o \in deleted \cup { f.obj : f \in Shelved \cup held }
    BY <1>1 DEF PoolHomes
  <2>2. \A f \in Shelved \cup (held \ {e}) : f.obj # r.obj
    BY <1>5, <2>1
  <2>3. r.obj \notin deleted /\ gets[r.obj] = 1
    BY <1>4, <1>5, <2>1
  <2>4. \A d, f \in (Shelved \cup {r}) \cup (held \ {e}) : d.obj = f.obj => d = f
    BY <2>1, <2>2
  <2>5. (Shelved \cup {r}) \cap (held \ {e}) = {}
    BY <2>1, <2>2
  <2>6. \A f \in Shelved \cup {r} : gets[f.obj] = IF f.back THEN 0 ELSE 1
    BY <1>5, <2>1, <2>3
  <2>7. ASSUME NEW o \in Objects, gets[o] # 0
        PROVE  o \in deleted \cup { f.obj : f \in (Shelved \cup {r}) \cup (held \ {e}) }
    <3>1. CASE o = e.obj
      BY <1>5, <3>1
    <3>2. CASE o # e.obj
      BY <2>1, <2>7, <3>2
    <3> QED BY <3>1, <3>2
  <2> QED BY <2>1, <2>3, <2>4, <2>5, <2>6, <2>7 DEF PoolHomes
<1>17. PoolTypes'
  BY <1>1, <1>4, <1>13 DEF PoolTypes
<1>18. PoolHomes(Shelved, held, deleted, gets)'
  BY <1>4, <1>15, <1>16 DEF PoolHomes
<1> QED BY <1>4, <1>13, <1>17, <1>18 DEF PoolInv

(* The ordinary deleter.                                                    *)
LEMMA PoolDeletes ==
  ASSUME PoolInv, NEW e \in held, Pool!Delete(e)
  PROVE  PoolInv'
<1>1. /\ PoolTypes /\ PoolOrder /\ PoolHomes(Shelved, held, deleted, gets)
      /\ held \subseteq PoolEntries
      /\ ~open => held = {} /\ Shelved = {}
  BY DEF PoolInv, PoolTypes
<1>2. e \in PoolEntries /\ e.obj \in Objects
  BY <1>1 DEF PoolEntries
<1>3. /\ held' = held \ {e} /\ deleted' = deleted \cup {e.obj}
      /\ open' = open /\ stored' = stored /\ gets' = gets
  BY DEF Pool!Delete
<1>4. PoolTypes'
  BY <1>1, <1>2, <1>3 DEF PoolTypes
<1>5. PoolOrder' /\ Shelved' = Shelved
  BY <1>1, <1>3 DEF PoolOrder, Shelved, Shelf
<1>6. PoolHomes(Shelved, held \ {e}, deleted \cup {e.obj}, gets)
  BY <1>1 DEF PoolHomes
<1>7. PoolHomes(Shelved, held, deleted, gets)'
  BY <1>3, <1>5, <1>6 DEF PoolHomes
<1> QED BY <1>1, <1>3, <1>4, <1>5, <1>7 DEF PoolInv

(* The pool goes, and what is stored with it.                               *)
LEMMA PoolGoes ==
  ASSUME PoolInv, Pool!Destroy
  PROVE  PoolInv'
<1>1. /\ PoolTypes /\ PoolHomes(Shelved, held, deleted, gets)
      /\ Shelved \subseteq PoolEntries
  BY PoolShelves DEF PoolInv
<1>2. /\ held = {} /\ open' = FALSE /\ stored' = [k \in Keys |-> << >>]
      /\ deleted' = deleted \cup { e.obj : e \in Shelved } /\ held' = held /\ gets' = gets
  BY <1>1, PoolShelves DEF Pool!Destroy, Pool!HandlesGone, Pool!DeletedWithPool
<1>3. \A k \in Keys : stored'[k] = << >> /\ Len(stored'[k]) = 0
  BY <1>2
<1>4. PoolOrder' /\ Shelved' = {}
  <2>1. \A k \in Keys : Shelf(k)' = {}
    BY <1>3 DEF Shelf
  <2>2. Shelved' = {}
    BY <2>1 DEF Shelved
  <2>3. PoolOrder'
    BY <1>3, <2>1 DEF PoolOrder
  <2> QED BY <2>2, <2>3
<1>5. PoolTypes'
  <2>1. stored' \in [Keys -> Seq(PoolEntries)]
    <3>1. << >> \in Seq(PoolEntries)
      OBVIOUS
    <3> QED BY <1>2, <3>1
  <2>2. deleted' \subseteq Objects
    <3>1. \A e \in Shelved : e.obj \in Objects
      BY <1>1 DEF PoolEntries
    <3>2. deleted \subseteq Objects
      BY <1>1 DEF PoolTypes
    <3> QED BY <1>2, <3>1, <3>2
  <2>3. /\ open' \in BOOLEAN /\ held' \subseteq PoolEntries
        /\ gets' \in [Objects -> 0..2]
    BY <1>1, <1>2 DEF PoolTypes
  <2> QED BY <2>1, <2>2, <2>3 DEF PoolTypes
<1>6. PoolHomes({}, {}, deleted', gets)
  BY <1>1, <1>2 DEF PoolHomes
<1>7. PoolHomes(Shelved, held, deleted, gets)'
  BY <1>2, <1>4, <1>6 DEF PoolHomes
<1> QED BY <1>2, <1>4, <1>5, <1>7 DEF PoolInv

(* Every operation on the pool.                                             *)
LEMMA PoolSteps ==
  ASSUME PoolInv, Pool!Next
  PROVE  PoolInv'
BY PoolInits, PoolGets, PoolPutsBack, PoolDeletes, PoolGoes DEF Pool!Next

(* A pool begins empty.                                                     *)
LEMMA PoolBegins ==
  ASSUME Pool!Init
  PROVE  PoolInv
<1>1. /\ open = TRUE /\ stored = [k \in Keys |-> << >>] /\ held = {} /\ deleted = {}
      /\ gets = [o \in Objects |-> 0]
  BY DEF Pool!Init
<1>2. \A k \in Keys : stored[k] = << >> /\ Len(stored[k]) = 0
  BY <1>1
<1>3. \A k \in Keys : Shelf(k) = {}
  BY <1>2 DEF Shelf
<1>4. Shelved = {}
  BY <1>3 DEF Shelved
<1>5. PoolTypes
  BY <1>1 DEF PoolTypes
<1>6. PoolOrder
  BY <1>2, <1>3 DEF PoolOrder
<1>7. PoolHomes(Shelved, held, deleted, gets)
  BY <1>1, <1>4 DEF PoolHomes
<1> QED BY <1>1, <1>5, <1>6, <1>7 DEF PoolInv

(* The pool's type invariant and properties.                                *)
LEMMA PoolMeans ==
  ASSUME PoolInv
  PROVE  Pool!TypeOK /\ Pool!OneHome /\ Pool!RecycledOnce /\ Pool!NoHandleOutlivesPool
<1>1. /\ PoolTypes /\ PoolOrder /\ PoolHomes(Shelved, held, deleted, gets)
      /\ ~open => held = {} /\ Shelved = {}
      /\ Pool!Stored = Shelved /\ gets \in [Objects -> 0..2]
  BY PoolShelves DEF PoolInv, PoolTypes
<1>2. Pool!TypeOK
  BY <1>1 DEF PoolTypes, Pool!TypeOK, Pool!Entries, PoolEntries
<1>3. Pool!OneHome
  BY <1>1 DEF PoolOrder, PoolHomes, Pool!OneHome
<1>4. Pool!RecycledOnce
  <2>1. \A e \in Shelved : gets[e.obj] = IF e.back THEN 0 ELSE 1
    BY <1>1 DEF PoolHomes
  <2>2. \A o \in Objects : gets[o] \in 0..2
    BY <1>1
  <2>3. ASSUME NEW o \in Objects, gets[o] = 2, NEW e \in Shelved PROVE e.obj # o
    BY <2>1, <2>3
  <2> QED BY <1>1, <2>2, <2>3 DEF Pool!RecycledOnce
<1>5. Pool!NoHandleOutlivesPool
  BY <1>1 DEF Pool!NoHandleOutlivesPool
<1> QED BY <1>2, <1>3, <1>4, <1>5

(* The last thing to go takes every object with it that is left.            *)
LEMMA PoolDeletesAll ==
  ASSUME PoolInv, Pool!Next \/ UNCHANGED << stored, held, deleted, open >>,
         ~open', held' = {}
  PROVE  Pool!Made \subseteq deleted'
<1>1. /\ open \in BOOLEAN
      /\ ~open => held = {} /\ Shelved = {}
  BY DEF PoolInv, PoolTypes
<1>2. /\ Pool!Stored = Shelved
      /\ Pool!Made = { e.obj : e \in Shelved \cup held } \cup deleted
  BY PoolShelves DEF PoolInv
<1>3. CASE Pool!Destroy
  <2>1. held = {} /\ deleted' = deleted \cup { e.obj : e \in Shelved }
    BY <1>2, <1>3 DEF Pool!Destroy, Pool!HandlesGone, Pool!DeletedWithPool
  <2> QED BY <1>2, <2>1
<1>4. CASE ~Pool!Destroy
  <2>1. open' = open /\ deleted \subseteq deleted'
    BY <1>4 DEF Pool!Next, Pool!Get, Pool!InitPool, Pool!PutBack, Pool!Delete
  <2>2. ~open
    BY <2>1
  <2>3. held = {} /\ Shelved = {}
    BY <1>1, <2>2
  <2> QED BY <1>2, <2>1, <2>3
<1> QED BY <1>3, <1>4

-----------------------------------------------------------------------------
(* function_traits: what the traits of each overload come to. *)

(* The traits of an overload end in a function type.                        *)
Good(o) ==
  \/ Traits!Specialised(Traits!Deduced(o))
  \/ Traits!HasCallOperator(Traits!Deduced(o)) /\ Traits!Plain(given.quals)

(* How far an overload has come, and that it is on the way to the end that  *)
(* its deduced type has.                                                    *)
TraitsInv ==
  /\ given \in Traits!Arguments /\ lvalue \in BOOLEAN
  /\ at = [o \in Traits!Overloads |-> at[o]]
  /\ \A o \in Traits!Overloads :
       \/ at[o] = Traits!Deduced(o)
       \/ /\ at[o] = Traits!Type("member", given.quals)
          /\ Traits!HasCallOperator(Traits!Deduced(o)) /\ ~Traits!Specialised(Traits!Deduced(o))
       \/ at[o] = Traits!Function /\ Good(o)
       \/ at[o] = Traits!IllFormed /\ ~Good(o)

(* The arguments: the kind tells which qualifiers there can be.             *)
LEMMA GivenTypes ==
  ASSUME given \in Traits!Arguments
  PROVE  /\ given \in [kind : {"pointer", "member", "callable", "overloaded", "std::function"},
                       quals : SUBSET {"const", "volatile", "noexcept", "&"},
                       const : BOOLEAN, ref : BOOLEAN]
         /\ given.ref = FALSE
         /\ given.kind = "pointer" => given.quals \subseteq {"noexcept"}
         /\ given.kind = "std::function" => given.quals = {"const"}
<1>1. PICK K, Q : /\ K = {"pointer", "member", "callable", "overloaded", "std::function"}
                  /\ Q = SUBSET {"const", "volatile", "noexcept", "&"}
  OBVIOUS
<1>2. ASSUME NEW k \in K, NEW q \in Q, NEW c \in BOOLEAN,
             given = [Traits!Type(k, q) EXCEPT !.const = c]
      PROVE  /\ given \in [kind : K, quals : Q, const : BOOLEAN, ref : BOOLEAN]
             /\ given.kind = k /\ given.quals = q /\ given.ref = FALSE
  BY <1>2 DEF Traits!Type
<1>3. CASE given \in Traits!Qualified /\ (given.kind = "pointer" => given.quals \subseteq {"noexcept"})
  <2>1. PICK k \in {"pointer", "member", "callable", "overloaded"}, q \in Q, c \in BOOLEAN :
             given = [Traits!Type(k, q) EXCEPT !.const = c]
    BY <1>1, <1>3 DEF Traits!Qualified
  <2>2. k \in K /\ k # "std::function"
    BY <1>1
  <2>3. /\ given \in [kind : K, quals : Q, const : BOOLEAN, ref : BOOLEAN]
        /\ given.kind = k /\ given.ref = FALSE
    BY <1>2, <2>1, <2>2
  <2> QED BY <1>1, <1>3, <2>2, <2>3
<1>4. CASE given \in { [Traits!Type("std::function", {"const"}) EXCEPT !.const = c] : c \in BOOLEAN }
  <2>1. PICK c \in BOOLEAN : given = [Traits!Type("std::function", {"const"}) EXCEPT !.const = c]
    BY <1>4
  <2>2. "std::function" \in K /\ {"const"} \in Q
    BY <1>1
  <2>3. /\ given \in [kind : K, quals : Q, const : BOOLEAN, ref : BOOLEAN]
        /\ given.kind = "std::function" /\ given.quals = {"const"} /\ given.ref = FALSE
    BY <1>2, <2>1, <2>2
  <2> QED BY <1>1, <2>3
<1> QED BY <1>3, <1>4 DEF Traits!Arguments

(* What is deduced of it, field by field.                                   *)
LEMMA DeducedTypes ==
  ASSUME given \in Traits!Arguments, lvalue \in BOOLEAN, NEW o \in Traits!Overloads
  PROVE  /\ Traits!Deduced(o).kind = given.kind
         /\ Traits!Deduced(o).quals = given.quals
         /\ Traits!Deduced(o).const <=> o = "&&" /\ given.const
         /\ Traits!Deduced(o).ref <=> o = "&&" /\ lvalue
<1>1. PICK K, Q : given \in [kind : K, quals : Q, const : BOOLEAN, ref : BOOLEAN]
  BY GivenTypes
<1>2. given.ref = FALSE
  BY GivenTypes
<1>3. PICK d : d = Traits!Deduced(o)
  OBVIOUS
<1>4. CASE o = "const &"
  <2>1. d = [given EXCEPT !.const = FALSE]
    BY <1>3, <1>4 DEF Traits!Deduced
  <2>2. d.kind = given.kind /\ d.quals = given.quals /\ d.const = FALSE /\ d.ref = FALSE
    BY <1>1, <1>2, <2>1
  <2> QED BY <1>3, <1>4, <2>2
<1>5. CASE o = "&&"
  <2>1. d = [given EXCEPT !.ref = lvalue]
    BY <1>3, <1>5 DEF Traits!Deduced
  <2>2. d.kind = given.kind /\ d.quals = given.quals /\ d.const = given.const /\ d.ref = lvalue
    BY <1>1, <2>1
  <2> QED BY <1>3, <1>5, <2>2
<1> QED BY <1>4, <1>5 DEF Traits!Overloads

(* What the traits of an argument end in.                                   *)
LEMMA GoodMeans ==
  ASSUME given \in Traits!Arguments, lvalue \in BOOLEAN, NEW o \in Traits!Overloads
  PROVE  Good(o) <=>
           /\ o = "&&" => ~lvalue
           /\ \/ given.kind = "std::function"
              \/ given.kind = "callable" /\ Traits!Plain(given.quals)
              \/ /\ o = "&&" => ~given.const
                 /\ \/ given.kind = "pointer" /\ given.quals = {}
                    \/ given.kind = "member" /\ given.quals \subseteq Traits!Qualifiers
<1>1. PICK k, q, c, d : k = given.kind /\ q = given.quals /\ c = given.const /\ d = Traits!Deduced(o)
  OBVIOUS
<1>2. /\ k \in {"pointer", "member", "callable", "overloaded", "std::function"}
      /\ (k = "std::function" => q = {"const"})
  BY <1>1, GivenTypes
<1>3. Traits!Plain(q) <=> q \cap {"noexcept", "&"} = {}
  BY DEF Traits!Plain
<1>4. k = "std::function" => Traits!Plain(q)
  BY <1>2, <1>3
<1>5. /\ d.kind = k /\ d.quals = q
      /\ d.const <=> o = "&&" /\ c
      /\ d.ref <=> o = "&&" /\ lvalue
  BY <1>1, DeducedTypes
<1>6. Traits!Specialised(d) <=>
        /\ ~d.const /\ ~d.ref
        /\ k = "std::function" \/ (k = "pointer" /\ q = {}) \/ (k = "member" /\ q \subseteq Traits!Qualifiers)
  BY <1>5 DEF Traits!Specialised
<1>7. Traits!HasCallOperator(d) <=> k \in {"callable", "std::function"} /\ ~d.ref
  BY <1>5 DEF Traits!HasCallOperator
<1>8. Good(o) <=> Traits!Specialised(d) \/ (Traits!HasCallOperator(d) /\ Traits!Plain(q))
  BY <1>1 DEF Good
<1> QED BY <1>1, <1>2, <1>4, <1>5, <1>6, <1>7, <1>8

(* The qualifiers of a function that are no plain ones.                     *)
LEMMA PlainQualifiers ==
  ASSUME NEW q \in SUBSET {"const", "volatile", "noexcept", "&"}
  PROVE  Traits!Plain(q) <=> q \subseteq Traits!Qualifiers
BY DEF Traits!Plain, Traits!Qualifiers

(* The bases of a class with a call operator.                               *)
LEMMA MemberBase ==
  ASSUME NEW q \in SUBSET {"const", "volatile", "noexcept", "&"}
  PROVE  Traits!Base(Traits!Type("member", q))
           = IF Traits!Plain(q) THEN Traits!Function ELSE Traits!IllFormed
<1>1. PICK t : t = [kind |-> "member", quals |-> q, const |-> FALSE, ref |-> FALSE]
  OBVIOUS
<1>2. Traits!Type("member", q) = t
  BY <1>1 DEF Traits!Type
<1>3. Traits!Specialised(t) <=> q \subseteq Traits!Qualifiers
  BY <1>1 DEF Traits!Specialised
<1>4. ~Traits!HasCallOperator(t)
  BY <1>1 DEF Traits!HasCallOperator
<1> QED BY <1>2, <1>3, <1>4, PlainQualifiers DEF Traits!Base

(* Both overloads begin with the type that is deduced.                      *)
LEMMA TraitsBegin ==
  ASSUME Traits!Init
  PROVE  TraitsInv
BY DEF Traits!Init, TraitsInv

(* The next base of an overload.                                            *)
LEMMA TraitsStep ==
  ASSUME TraitsInv, Traits!Next
  PROVE  TraitsInv'
<1>1. PICK x \in Traits!Overloads : Traits!Instantiate(x)
  BY DEF Traits!Next
<1>2. /\ at[x] # Traits!Function /\ at[x] # Traits!IllFormed
      /\ at' = [at EXCEPT ![x] = Traits!Base(at[x])] /\ given' = given /\ lvalue' = lvalue
  BY <1>1 DEF Traits!Instantiate, Traits!Rejected
<1>3. PICK d, q : d = Traits!Deduced(x) /\ q = given.quals
  OBVIOUS
<1>4. at' = [o \in Traits!Overloads |-> at'[o]]
  BY <1>2 DEF TraitsInv
<1>5. /\ at'[x] = Traits!Base(at[x])
      /\ \A o \in Traits!Overloads \ {x} : at'[o] = at[o]
  BY <1>1, <1>2 DEF TraitsInv
<1>6. q \in SUBSET {"const", "volatile", "noexcept", "&"} /\ d.quals = q
  <2>1. q \in SUBSET {"const", "volatile", "noexcept", "&"}
    BY <1>3, GivenTypes DEF TraitsInv
  <2>2. Traits!Deduced(x).quals = given.quals
    BY <1>1, DeducedTypes DEF TraitsInv
  <2> QED BY <1>3, <2>1, <2>2
<1>7. Good(x) <=> Traits!Specialised(d) \/ (Traits!HasCallOperator(d) /\ Traits!Plain(q))
  BY <1>3 DEF Good
<1>8. Traits!Base(d) = IF Traits!Specialised(d) THEN Traits!Function
                       ELSE IF Traits!HasCallOperator(d) THEN Traits!Type("member", q) ELSE Traits!IllFormed
  BY <1>6 DEF Traits!Base
<1>9. \/ /\ at'[x] = Traits!Type("member", q)
         /\ Traits!HasCallOperator(d) /\ ~Traits!Specialised(d)
      \/ at'[x] = Traits!Function /\ Good(x)
      \/ at'[x] = Traits!IllFormed /\ ~Good(x)
  <2>1. CASE at[x] = d
    BY <1>5, <1>7, <1>8, <2>1
  <2>2. CASE /\ at[x] = Traits!Type("member", q)
             /\ Traits!HasCallOperator(d) /\ ~Traits!Specialised(d)
    BY <1>5, <1>6, <1>7, <2>2, MemberBase
  <2> QED BY <1>1, <1>2, <1>3, <2>1, <2>2 DEF TraitsInv
<1>10. \A o \in Traits!Overloads :
         Traits!Deduced(o)' = Traits!Deduced(o) /\ (Good(o)' <=> Good(o))
  BY <1>2 DEF Good, Traits!Deduced
<1>11. ASSUME NEW o \in Traits!Overloads
       PROVE \/ at'[o] = Traits!Deduced(o)
             \/ /\ at'[o] = Traits!Type("member", given.quals)
                /\ Traits!HasCallOperator(Traits!Deduced(o)) /\ ~Traits!Specialised(Traits!Deduced(o))
             \/ at'[o] = Traits!Function /\ Good(o)
             \/ at'[o] = Traits!IllFormed /\ ~Good(o)
  <2>1. CASE o = x
    BY <1>3, <1>9, <2>1
  <2>2. CASE o # x
    BY <1>5, <2>2 DEF TraitsInv
  <2> QED BY <2>1, <2>2
<1>12. given' \in Traits!Arguments /\ lvalue' \in BOOLEAN
  BY <1>2 DEF TraitsInv
<1> QED BY <1>2, <1>4, <1>10, <1>11, <1>12 DEF TraitsInv

(* The type invariant, and who converts.                                    *)
LEMMA TraitsMean ==
  ASSUME TraitsInv
  PROVE  Traits!TypeOK /\ Traits!RvaluesConvert
<1>1. /\ given \in Traits!Arguments /\ lvalue \in BOOLEAN
  BY DEF TraitsInv
<1>2. PICK k, q : k = given.kind /\ q = given.quals
  OBVIOUS
<1>3. ASSUME NEW o \in Traits!Overloads
      PROVE  /\ Traits!Deduced(o).kind = k /\ Traits!Deduced(o).kind # "function"
             /\ Traits!Deduced(o).kind # "ill-formed"
  <2>1. k \in {"pointer", "member", "callable", "overloaded", "std::function"}
    BY <1>1, <1>2, GivenTypes
  <2>2. Traits!Deduced(o).kind = k
    BY <1>1, <1>2, DeducedTypes
  <2> QED BY <2>1, <2>2
<1>4. /\ Traits!Function.kind = "function" /\ Traits!IllFormed.kind = "ill-formed"
      /\ Traits!Type("member", given.quals).kind = "member"
  BY DEF Traits!Function, Traits!IllFormed, Traits!Type
<1>5. Traits!TypeOK
  <2>1. ASSUME NEW o \in Traits!Overloads, Traits!HasCallOperator(Traits!Deduced(o))
        PROVE  given.kind \in {"callable", "std::function"}
    BY <1>2, <1>3, <2>1 DEF Traits!HasCallOperator
  <2>2. ASSUME NEW o \in Traits!Overloads
        PROVE \/ at[o] \in {Traits!Function, Traits!IllFormed, Traits!Deduced(o)}
              \/ at[o].kind = "member" /\ given.kind \in {"callable", "std::function"}
    BY <1>4, <2>1 DEF TraitsInv
  <2> QED BY <1>1, <2>2 DEF Traits!TypeOK
<1>6. \A o \in Traits!Overloads :
        /\ at[o] = Traits!Function => Good(o)
        /\ at[o] = Traits!IllFormed => ~Good(o)
  BY <1>3, <1>4 DEF TraitsInv
<1>7. Traits!Overloads = {"const &", "&&"}
  BY DEF Traits!Overloads
<1>8. ASSUME Traits!Done
      PROVE  Traits!Accepted <=> Good("const &") /\ Good("&&")
  BY <1>6, <1>7, <1>8 DEF Traits!Done, Traits!Rejected, Traits!Accepted
<1>9. /\ k = "pointer" => (q = {} <=> Traits!Plain(q))
      /\ k = "std::function" => Traits!Plain(q)
  <2>1. k = "pointer" => q \subseteq {"noexcept"}
    BY <1>1, <1>2, GivenTypes
  <2>2. k = "std::function" => q = {"const"}
    BY <1>1, <1>2, GivenTypes
  <2>3. Traits!Plain(q) <=> q \cap {"noexcept", "&"} = {}
    BY DEF Traits!Plain
  <2>4. ASSUME q \subseteq {"noexcept"} PROVE q = {} <=> q \cap {"noexcept", "&"} = {}
    BY <2>4
  <2> QED BY <2>1, <2>2, <2>3, <2>4
<1>10. ASSUME k # "member"
       PROVE  Good("const &") /\ Good("&&") <=>
         /\ ~lvalue /\ Traits!Plain(q)
         /\ (k \in {"std::function", "callable"} \/ (k = "pointer" /\ ~given.const))
  <2>1. "const &" \in Traits!Overloads /\ "&&" \in Traits!Overloads
    BY <1>7
  <2>2. Good("const &") <=>
          \/ k = "std::function"
          \/ k = "callable" /\ Traits!Plain(q)
          \/ k = "pointer" /\ q = {}
    BY <1>1, <1>2, <1>10, <2>1, GoodMeans
  <2>3. Good("&&") <=>
          /\ ~lvalue
          /\ \/ k = "std::function"
             \/ k = "callable" /\ Traits!Plain(q)
             \/ k = "pointer" /\ q = {} /\ ~given.const
    BY <1>1, <1>2, <1>10, <2>1, GoodMeans
  <2> QED BY <1>9, <2>2, <2>3
<1>11. Traits!RvaluesConvert
  BY <1>2, <1>8, <1>10 DEF Traits!RvaluesConvert, Traits!Converts
<1> QED BY <1>5, <1>11

-----------------------------------------------------------------------------
(* TypeLists: what the recursive templates come to.  Each is a recursive    *)
(* function, which is whatever satisfies its equation: it is told by a      *)
(* function that does and by an induction over its argument.                *)

(* Downwards from n + 1 to 1.                                               *)
LEMMA DownToOne ==
  ASSUME NEW n \in Nat, NEW S, n + 1 \in S, \A i \in 1..n : i + 1 \in S => i \in S
  PROVE  1 \in S
<1> DEFINE Bad == { i \in Nat : i <= n /\ n + 1 - i \notin S }
<1> SUFFICES ASSUME 1 \notin S PROVE FALSE
  OBVIOUS
<1>1. n \in Bad
  OBVIOUS
<1>2. PICK m \in Bad : \A j \in Bad : m <= j
  <2>1. Bad \subseteq Nat /\ Bad # {}
    BY <1>1
  <2> HIDE DEF Bad
  <2> QED BY <2>1, LeastExists
<1>3. m # 0
  OBVIOUS
<1>4. m - 1 \in Nat /\ m - 1 \notin Bad
  BY <1>2, <1>3
<1>5. n + 1 - (m - 1) \in S
  BY <1>2, <1>4
<1>6. n + 1 - m \in 1..n /\ (n + 1 - m) + 1 = n + 1 - (m - 1)
  BY <1>2, <1>3
<1> QED BY <1>2, <1>5, <1>6

(* Upwards from a to b.                                                     *)
LEMMA UpFrom ==
  ASSUME NEW a \in Nat, NEW b \in Nat, NEW S, a \in S,
         \A i \in a..b : i \in S /\ i # b => i + 1 \in S
  PROVE  \A i \in a..b : i \in S
<1> DEFINE Bad == { i \in a..b : i \notin S }
<1> SUFFICES ASSUME Bad # {} PROVE FALSE
  OBVIOUS
<1>2. PICK m \in Bad : \A j \in Bad : m <= j
  <2>1. Bad \subseteq Nat
    OBVIOUS
  <2> HIDE DEF Bad
  <2> QED BY <2>1, LeastExists
<1>3. m # a
  OBVIOUS
<1>4. m - 1 \in a..b /\ m - 1 # b /\ m - 1 \notin Bad /\ (m - 1) + 1 = m
  BY <1>2, <1>3
<1> QED BY <1>2, <1>4

(* The position of the first t from the i-th element of l on, or 0.         *)
Firsts(t, l, first) ==
  /\ first \in [1..(Len(l) + 1) -> 0..Len(l)] /\ first[Len(l) + 1] = 0
  /\ \A i \in 1..Len(l) : first[i] = IF l[i] = t THEN i ELSE first[i + 1]

(* It can be told.                                                          *)
LEMMA FirstsExist ==
  ASSUME NEW T, NEW l \in Seq(T), NEW t
  PROVE  \E first : Firsts(t, l, first)
<1>1. PICK n \in Nat : n = Len(l)
  OBVIOUS
<1> DEFINE F(i) == { j \in i..n : l[j] = t }
           first == [i \in 1..(n + 1) |->
             IF F(i) = {} THEN 0 ELSE CHOOSE j \in F(i) : \A k \in F(i) : j <= k]
<1>2. ASSUME NEW i \in 1..(n + 1), F(i) # {}
      PROVE  first[i] \in F(i) /\ \A k \in F(i) : first[i] <= k
  <2>1. F(i) \subseteq Nat
    OBVIOUS
  <2>2. \E j \in F(i) : \A k \in F(i) : j <= k
    <3> HIDE DEF F
    <3> QED BY <1>2, <2>1, LeastExists
  <2>3. first[i] = CHOOSE j \in F(i) : \A k \in F(i) : j <= k
    <3> HIDE DEF F
    <3> QED BY <1>2
  <2> HIDE DEF F, first
  <2> QED BY <2>2, <2>3
<1>3. ASSUME NEW i \in 1..(n + 1), F(i) = {} PROVE first[i] = 0
  <2> HIDE DEF F
  <2> QED BY <1>3
<1>4. ASSUME NEW i \in 1..(n + 1) PROVE first[i] \in 0..n
  <2>1. F(i) \subseteq 0..n
    BY <1>1
  <2> HIDE DEF F, first
  <2> QED BY <1>1, <1>2, <1>3, <2>1
<1>5. first[n + 1] = 0
  <2>1. F(n + 1) = {} /\ n + 1 \in 1..(n + 1)
    BY <1>1
  <2> HIDE DEF F, first
  <2> QED BY <1>3, <2>1
<1>6. ASSUME NEW i \in 1..n PROVE first[i] = IF l[i] = t THEN i ELSE first[i + 1]
  <2>1. i \in 1..(n + 1) /\ i + 1 \in 1..(n + 1)
    BY <1>1
  <2>2. CASE l[i] = t
    <3>1. i \in F(i) /\ \A k \in F(i) : k \in Nat /\ i <= k
      BY <1>1, <2>2
    <3> HIDE DEF F, first
    <3> QED BY <1>2, <2>1, <2>2, <3>1
  <2>3. CASE l[i] # t
    <3>1. F(i) = F(i + 1) /\ \A k \in F(i) : k \in Nat
      <4>1. i \notin F(i)
        BY <2>3
      <4> QED BY <1>1, <4>1
    <3> HIDE DEF F, first
    <3>2. CASE F(i) = {}
      BY <1>3, <2>1, <2>3, <3>1, <3>2
    <3>3. CASE F(i) # {}
      BY <1>2, <2>1, <2>3, <3>1, <3>3
    <3> QED BY <3>2, <3>3
  <2> QED BY <2>2, <2>3
<1>7. first \in [1..(n + 1) -> 0..n]
  <2> HIDE DEF F
  <2>1. first = [i \in 1..(n + 1) |-> first[i]]
    OBVIOUS
  <2> HIDE DEF first
  <2> QED BY <1>4, <2>1
<1> HIDE DEF first
<1> QED BY <1>1, <1>5, <1>6, <1>7 DEF Firsts

(* And it is the position of the first t of all.                            *)
LEMMA FirstsMean ==
  ASSUME NEW T, NEW l \in Seq(T), NEW t, NEW first, Firsts(t, l, first)
  PROVE  /\ first[1] = 0 <=> \A j \in 1..Len(l) : l[j] # t
         /\ first[1] # 0 => /\ first[1] \in 1..Len(l) /\ l[first[1]] = t
                            /\ \A j \in 1..(first[1] - 1) : l[j] # t
<1>1. PICK n \in Nat : n = Len(l)
  OBVIOUS
<1>2. /\ first \in [1..(n + 1) -> 0..n] /\ first[n + 1] = 0
      /\ \A i \in 1..n : first[i] = IF l[i] = t THEN i ELSE first[i + 1]
  BY <1>1 DEF Firsts
<1> DEFINE P(i) == /\ first[i] = 0 <=> \A j \in i..n : l[j] # t
                   /\ first[i] # 0 => /\ first[i] \in i..n /\ l[first[i]] = t
                                      /\ \A j \in i..(first[i] - 1) : l[j] # t
           S == { i \in 1..(n + 1) : P(i) }
<1>3. n + 1 \in S
  BY <1>2
<1>4. ASSUME NEW i \in 1..n, i + 1 \in S PROVE i \in S
  <2>1. P(i + 1) /\ first[i] = IF l[i] = t THEN i ELSE first[i + 1]
    BY <1>2, <1>4
  <2>2. CASE l[i] = t
    BY <2>1, <2>2
  <2>3. CASE l[i] # t
    <3>1. first[i] = first[i + 1] /\ first[i] \in 0..n
      BY <1>2, <2>1, <2>3
    <3>2. \A j \in i..n : j = i \/ j \in (i + 1)..n
      OBVIOUS
    <3>3. \A j \in i..(first[i] - 1) : j = i \/ j \in (i + 1)..(first[i] - 1)
      BY <3>1
    <3>4. first[i] # 0 => first[i] \in i..n
      BY <2>1, <3>1
    <3>5. first[i] = 0 <=> \A j \in i..n : l[j] # t
      BY <2>1, <2>3, <3>1, <3>2
    <3>6. first[i] # 0 => l[first[i]] = t /\ \A j \in i..(first[i] - 1) : l[j] # t
      BY <2>1, <2>3, <3>1, <3>3
    <3> QED BY <3>4, <3>5, <3>6
  <2> QED BY <2>2, <2>3
<1>5. 1 \in S
  <2> HIDE DEF S
  <2> QED BY <1>3, <1>4, DownToOne
<1> QED BY <1>1, <1>5

(* GetLeftSize counts the types behind the first that matches.              *)
LEMMA LeftSizes ==
  ASSUME NEW T, NEW l \in Seq(T), NEW t, NEW first, Firsts(t, l, first)
  PROVE  Lists!GetLeftSize(t, l) = IF first[1] = 0 THEN -1 ELSE Len(l) - first[1]
<1>1. PICK n \in Nat : n = Len(l)
  OBVIOUS
<1>2. /\ first \in [1..(n + 1) -> 0..n] /\ first[n + 1] = 0
      /\ \A i \in 1..n : first[i] = IF l[i] = t THEN i ELSE first[i + 1]
  BY <1>1 DEF Firsts
<1> DEFINE E(f) == [i \in 1..(n + 1) |->
                      IF i > n THEN -1 ELSE IF t = l[i] THEN n - i ELSE f[i + 1]]
           g == [i \in 1..(n + 1) |-> IF first[i] = 0 THEN -1 ELSE n - first[i]]
<1>3. PICK f : f = CHOOSE h : h = E(h)
  OBVIOUS
<1>4. Lists!GetLeftSize(t, l) = f[1]
  BY <1>1, <1>3 DEF Lists!GetLeftSize
<1>5. g = E(g)
  <2>1. ASSUME NEW i \in 1..(n + 1)
        PROVE  g[i] = IF i > n THEN -1 ELSE IF t = l[i] THEN n - i ELSE g[i + 1]
    <3>1. CASE i = n + 1
      BY <1>2, <3>1
    <3>2. CASE i \in 1..n
      BY <1>2, <3>2
    <3> QED BY <3>1, <3>2
  <2> QED BY <2>1
<1>6. f = E(f)
  <2> HIDE DEF E, g
  <2> QED BY <1>3, <1>5
<1>7. f[1] = g[1]
  <2> DEFINE S == { i \in 1..(n + 1) : f[i] = g[i] }
  <2>1. n + 1 \in S
    BY <1>2, <1>6
  <2>2. ASSUME NEW i \in 1..n, i + 1 \in S PROVE i \in S
    <3>1. i \in 1..(n + 1) /\ i + 1 \in 1..(n + 1) /\ ~(i > n) /\ f[i + 1] = g[i + 1]
      BY <2>2
    <3>2. f[i] = IF t = l[i] THEN n - i ELSE f[i + 1]
      <4>1. f[i] = E(f)[i]
        BY <1>6
      <4> QED BY <3>1, <4>1
    <3>3. g[i] = IF t = l[i] THEN n - i ELSE g[i + 1]
      <4>1. g[i] = E(g)[i]
        BY <1>5
      <4> QED BY <3>1, <4>1
    <3> QED BY <3>1, <3>2, <3>3
  <2>3. 1 \in S
    <3> HIDE DEF S
    <3> QED BY <2>1, <2>2, DownToOne
  <2> QED BY <2>3
<1> QED BY <1>1, <1>4, <1>7

(* IndexOf counts the types in front of it, and all but one if none does.   *)
LEMMA IndexesCounted ==
  ASSUME NEW T, NEW l \in Seq(T), NEW t, NEW first, Firsts(t, l, first)
  PROVE  Lists!IndexOf(t, l) = IF first[1] = 0 THEN Len(l) - 1 ELSE first[1] - 1
<1>1. PICK n \in Nat : n = Len(l)
  OBVIOUS
<1>2. /\ first \in [1..(n + 1) -> 0..n] /\ first[n + 1] = 0
      /\ \A i \in 1..n : first[i] = IF l[i] = t THEN i ELSE first[i + 1]
  BY <1>1 DEF Firsts
<1> DEFINE E(f) == [i \in 1..(n + 1) |->
                      IF i > n THEN -1 ELSE IF t = l[i] THEN 0 ELSE Lists!CountUp(f[i + 1])]
           g == [i \in 1..(n + 1) |-> IF first[i] = 0 THEN n - i ELSE first[i] - i]
<1>3. PICK f : f = CHOOSE h : h = E(h)
  OBVIOUS
<1>4. Lists!IndexOf(t, l) = f[1]
  BY <1>1, <1>3 DEF Lists!IndexOf
<1>5. g = E(g)
  <2>1. ASSUME NEW i \in 1..(n + 1)
        PROVE  g[i] = IF i > n THEN -1 ELSE IF t = l[i] THEN 0 ELSE Lists!CountUp(g[i + 1])
    <3>1. CASE i = n + 1
      BY <1>2, <3>1
    <3>2. CASE i \in 1..n
      BY <1>2, <3>2 DEF Lists!CountUp
    <3> QED BY <3>1, <3>2
  <2> QED BY <2>1
<1>6. f = E(f)
  <2> HIDE DEF E, g
  <2> QED BY <1>3, <1>5
<1>7. f[1] = g[1]
  <2> DEFINE S == { i \in 1..(n + 1) : f[i] = g[i] }
  <2>1. n + 1 \in S
    BY <1>2, <1>6
  <2>2. ASSUME NEW i \in 1..n, i + 1 \in S PROVE i \in S
    <3>1. i \in 1..(n + 1) /\ i + 1 \in 1..(n + 1) /\ ~(i > n) /\ f[i + 1] = g[i + 1]
      BY <2>2
    <3>2. f[i] = IF t = l[i] THEN 0 ELSE Lists!CountUp(f[i + 1])
      <4>1. f[i] = E(f)[i]
        BY <1>6
      <4> QED BY <3>1, <4>1
    <3>3. g[i] = IF t = l[i] THEN 0 ELSE Lists!CountUp(g[i + 1])
      <4>1. g[i] = E(g)[i]
        BY <1>5
      <4> QED BY <3>1, <4>1
    <3> QED BY <3>1, <3>2, <3>3
  <2>3. 1 \in S
    <3> HIDE DEF S
    <3> QED BY <2>1, <2>2, DownToOne
  <2> QED BY <2>3
<1> QED BY <1>1, <1>4, <1>7

(* Contains tells whether one matches.                                      *)
LEMMA ContainsTells ==
  ASSUME NEW T, NEW l \in Seq(T), NEW t, NEW first, Firsts(t, l, first)
  PROVE  Lists!Contains(t, l) <=> first[1] # 0
<1>1. PICK n \in Nat : n = Len(l)
  OBVIOUS
<1>2. /\ first \in [1..(n + 1) -> 0..n] /\ first[n + 1] = 0
      /\ \A i \in 1..n : first[i] = IF l[i] = t THEN i ELSE first[i + 1]
  BY <1>1 DEF Firsts
<1> DEFINE E(f) == [i \in 1..(n + 1) |-> i <= n /\ (t = l[i] \/ f[i + 1])]
           g == [i \in 1..(n + 1) |-> first[i] # 0]
<1>3. PICK f : f = CHOOSE h : h = E(h)
  OBVIOUS
<1>4. Lists!Contains(t, l) = f[1]
  BY <1>1, <1>3 DEF Lists!Contains
<1>5. g = E(g)
  <2>1. ASSUME NEW i \in 1..(n + 1)
        PROVE  (first[i] # 0) <=> i <= n /\ (t = l[i] \/ first[i + 1] # 0)
    <3>1. CASE i = n + 1
      BY <1>2, <3>1
    <3>2. CASE i \in 1..n
      BY <1>2, <3>2
    <3> QED BY <3>1, <3>2
  <2>2. ASSUME NEW i \in 1..(n + 1)
        PROVE  g[i] = (i <= n /\ (t = l[i] \/ g[i + 1]))
    <3>1. CASE i = n + 1
      BY <2>1, <3>1
    <3>2. CASE i \in 1..n
      <4>1. i + 1 \in 1..(n + 1)
        BY <3>2
      <4> QED BY <2>1, <3>2, <4>1
    <3> QED BY <3>1, <3>2
  <2> QED BY <2>2
<1>6. f = E(f)
  <2> HIDE DEF E, g
  <2> QED BY <1>3, <1>5
<1>7. f[1] <=> first[1] # 0
  <2> DEFINE S == { i \in 1..(n + 1) : f[i] <=> first[i] # 0 }
  <2>1. n + 1 \in S
    <3>1. f[n + 1] = E(f)[n + 1] /\ n + 1 \in 1..(n + 1)
      BY <1>6
    <3>2. ~f[n + 1]
      <4>1. ~E(f)[n + 1]
        <5>1. PICK m : m = n + 1
          OBVIOUS
        <5>2. m \in 1..(n + 1) /\ ~(m <= n)
          BY <5>1
        <5>3. E(f)[m] = (m <= n /\ (t = l[m] \/ f[m + 1]))
          BY <5>2, Zenon
        <5>4. ~E(f)[m]
          <6> HIDE DEF E
          <6> QED BY <5>2, <5>3, Zenon
        <5> HIDE DEF E
        <5> QED BY <5>1, <5>4
      <4> HIDE DEF E
      <4> QED BY <3>1, <4>1
    <3> QED BY <1>2, <3>2
  <2>2. ASSUME NEW i \in 1..n, i + 1 \in S PROVE i \in S
    <3>1. i \in 1..(n + 1) /\ i <= n /\ (f[i + 1] <=> first[i + 1] # 0)
      BY <2>2
    <3>2. f[i] <=> t = l[i] \/ f[i + 1]
      <4>1. f[i] = E(f)[i]
        BY <1>6
      <4> QED BY <3>1, <4>1
    <3> QED BY <1>2, <3>1, <3>2
  <2>3. 1 \in S
    <3> HIDE DEF S
    <3> QED BY <2>1, <2>2, DownToOne
  <2> QED BY <2>3
<1> QED BY <1>4, <1>7

(* Visit calls the handler that matches first.                              *)
LEMMA VisitsTold ==
  ASSUME NEW T, NEW l \in Seq(T), NEW t, NEW first, Firsts(t, l, first)
  PROVE  Lists!Visit(t, l) = IF first[1] = 0 THEN {} ELSE {Len(l) - first[1]}
<1>1. PICK n \in Nat : n = Len(l)
  OBVIOUS
<1>2. /\ first \in [1..(n + 1) -> 0..n] /\ first[n + 1] = 0
      /\ \A i \in 1..n : first[i] = IF l[i] = t THEN i ELSE first[i + 1]
  BY <1>1 DEF Firsts
<1> DEFINE E(f) == [i \in 1..(n + 1) |->
                      IF i > n THEN {} ELSE IF Lists!Matches(t, l[i]) THEN {n - i} ELSE f[i + 1]]
           g == [i \in 1..(n + 1) |-> IF first[i] = 0 THEN {} ELSE {n - first[i]}]
<1>3. PICK f : f = CHOOSE h : h = E(h)
  OBVIOUS
<1>4. Lists!Visit(t, l) = f[1]
  BY <1>1, <1>3 DEF Lists!Visit
<1>5. g = E(g)
  <2>1. ASSUME NEW i \in 1..(n + 1)
        PROVE  g[i] = IF i > n THEN {} ELSE IF Lists!Matches(t, l[i]) THEN {n - i} ELSE g[i + 1]
    <3>1. CASE i = n + 1
      BY <1>2, <3>1
    <3>2. CASE i \in 1..n
      <4>1. i \in 1..(n + 1) /\ i + 1 \in 1..(n + 1) /\ ~(i > n)
        BY <3>2
      <4>2. /\ g[i] = IF first[i] = 0 THEN {} ELSE {n - first[i]}
            /\ g[i + 1] = IF first[i + 1] = 0 THEN {} ELSE {n - first[i + 1]}
        BY <4>1
      <4>3. CASE t = l[i]
        <5>1. first[i] = i /\ i # 0
          BY <1>2, <3>2, <4>3
        <5> HIDE DEF g
        <5> QED BY <4>1, <4>2, <4>3, <5>1 DEF Lists!Matches
      <4>4. CASE t # l[i]
        <5>1. first[i] = first[i + 1]
          BY <1>2, <3>2, <4>4
        <5> HIDE DEF g
        <5> QED BY <4>1, <4>2, <4>4, <5>1 DEF Lists!Matches
      <4> QED BY <4>3, <4>4
    <3> QED BY <3>1, <3>2
  <2> QED BY <2>1
<1>6. f = E(f)
  <2> HIDE DEF E, g
  <2> QED BY <1>3, <1>5
<1>7. f[1] = g[1]
  <2> DEFINE S == { i \in 1..(n + 1) : f[i] = g[i] }
  <2>1. n + 1 \in S
    BY <1>2, <1>6
  <2>2. ASSUME NEW i \in 1..n, i + 1 \in S PROVE i \in S
    <3>1. i \in 1..(n + 1) /\ i + 1 \in 1..(n + 1) /\ ~(i > n) /\ f[i + 1] = g[i + 1]
      BY <2>2
    <3>2. f[i] = IF Lists!Matches(t, l[i]) THEN {n - i} ELSE f[i + 1]
      <4>1. f[i] = E(f)[i]
        BY <1>6
      <4> QED BY <3>1, <4>1
    <3>3. g[i] = IF Lists!Matches(t, l[i]) THEN {n - i} ELSE g[i + 1]
      <4>1. g[i] = E(g)[i]
        BY <1>5
      <4> QED BY <3>1, <4>1
    <3> QED BY <3>1, <3>2, <3>3
  <2>3. 1 \in S
    <3> HIDE DEF S
    <3> QED BY <2>1, <2>2, DownToOne
  <2> QED BY <2>3
<1> QED BY <1>1, <1>4, <1>7

(* IndexType takes types away from the left until the one of the index is   *)
(* the first.                                                               *)
LEMMA IndexTypes ==
  ASSUME NEW T, NEW l \in Seq(T), NEW i \in 0..(Len(l) - 1)
  PROVE  Lists!IndexType(i, l) = l[i + 1]
<1>1. PICK n \in Nat : n = Len(l)
  OBVIOUS
<1>2. i \in Nat /\ i < n
  BY <1>1
<1> DEFINE E(f) == [j \in 0..i |-> IF j = 0 THEN l ELSE Tail(f[j - 1])]
           g == [j \in 0..i |-> SubSeq(l, j + 1, n)]
<1>3. PICK f : f = CHOOSE h : h = E(h)
  OBVIOUS
<1>4. Lists!IndexType(i, l) = Head(f[i])
  BY <1>3 DEF Lists!IndexType
<1>5. ASSUME NEW j \in 0..i
      PROVE  /\ SubSeq(l, j + 1, n) \in Seq(T) /\ Len(SubSeq(l, j + 1, n)) = n - j
             /\ \A k \in 1..(n - j) : SubSeq(l, j + 1, n)[k] = l[k + j]
  BY <1>1, <1>2
<1>6. SubSeq(l, 1, n) = l
  <2>1. SubSeq(l, 1, n) \in Seq(T) /\ Len(SubSeq(l, 1, n)) = Len(l)
    BY <1>1, <1>5
  <2>2. \A k \in 1..Len(l) : SubSeq(l, 1, n)[k] = l[k]
    BY <1>1
  <2> QED BY <2>1, <2>2, SeqEqual
<1>7. ASSUME NEW j \in 1..i PROVE Tail(g[j - 1]) = g[j]
  <2>1. PICK r, s : r = Tail(g[j - 1]) /\ s = g[j]
    OBVIOUS
  <2>2. j - 1 \in 0..i /\ j \in 0..i /\ n - j \in Nat /\ (j - 1) + 1 = j /\ n - (j - 1) = (n - j) + 1
    BY <1>2
  <2>3. s \in Seq(T) /\ Len(s) = n - j /\ \A k \in 1..(n - j) : s[k] = l[k + j]
    BY <1>5, <2>1, <2>2
  <2>4. PICK q : q = g[j - 1]
    OBVIOUS
  <2>5. q \in Seq(T) /\ Len(q) = (n - j) + 1 /\ \A k \in 1..((n - j) + 1) : q[k] = l[k + (j - 1)]
    <3>1. q = SubSeq(l, (j - 1) + 1, n)
      BY <2>2, <2>4
    <3> QED BY <1>5, <2>2, <3>1
  <2>6. r \in Seq(T) /\ Len(r) = n - j /\ \A k \in 1..(n - j) : r[k] = q[k + 1]
    <3>1. r = Tail(q) /\ q # << >>
      <4>1. r = Tail(q)
        <5> HIDE DEF g
        <5> QED BY <2>1, <2>4
      <4>2. Len(q) # 0
        BY <2>2, <2>5
      <4> QED BY <2>5, <4>1, <4>2
    <3>2. Len(q) \in Nat \ {0} /\ q \in Seq(T)
      BY <2>2, <2>5
    <3>3. /\ Tail(q) \in Seq(T) /\ Len(Tail(q)) = Len(q) - 1
          /\ \A k \in 1..(Len(q) - 1) : Tail(q)[k] = q[k + 1]
      BY <3>1, <3>2
    <3>4. Len(q) - 1 = n - j
      BY <2>2, <2>5
    <3> QED BY <3>1, <3>3, <3>4
  <2>7. \A k \in 1..(n - j) : r[k] = s[k]
    <3>1. ASSUME NEW k \in 1..(n - j) PROVE r[k] = s[k]
      <4>1. k + 1 \in 1..((n - j) + 1) /\ (k + 1) + (j - 1) = k + j
        BY <2>2
      <4> QED BY <2>3, <2>5, <2>6, <4>1
    <3> QED BY <3>1
  <2>8. r = s
    <3>1. Len(r) = Len(s) /\ \A k \in 1..Len(r) : r[k] = s[k]
      BY <2>3, <2>6, <2>7
    <3> QED BY <2>3, <2>6, <3>1, SeqEqual
  <2> HIDE DEF g
  <2> QED BY <2>1, <2>8
<1>8. g = E(g)
  <2>1. ASSUME NEW j \in 0..i PROVE g[j] = IF j = 0 THEN l ELSE Tail(g[j - 1])
    <3>1. CASE j = 0
      BY <1>6, <3>1
    <3>2. CASE j # 0
      <4>1. j \in 1..i
        BY <3>2
      <4> HIDE DEF g
      <4> QED BY <1>7, <3>2, <4>1
    <3> QED BY <3>1, <3>2
  <2>2. E(g) = [j \in 0..i |-> IF j = 0 THEN l ELSE Tail(g[j - 1])]
    OBVIOUS
  <2>3. g = [j \in 0..i |-> g[j]]
    OBVIOUS
  <2> HIDE DEF E, g
  <2> QED BY <2>1, <2>2, <2>3
<1>9. f = E(f)
  <2> HIDE DEF E, g
  <2> QED BY <1>3, <1>8
<1>10. \A j \in 0..i : f[j] = g[j]
  <2> DEFINE S == { j \in 0..i : f[j] = g[j] }
  <2>1. 0 \in S
    <3>1. f[0] = E(f)[0] /\ g[0] = E(g)[0] /\ 0 \in 0..i
      <4> HIDE DEF E, g
      <4> QED BY <1>8, <1>9
    <3>2. E(f)[0] = l /\ E(g)[0] = l
      BY <1>2
    <3> HIDE DEF E, g
    <3> QED BY <3>1, <3>2
  <2>2. ASSUME NEW j \in 0..i, j \in S /\ j # i PROVE j + 1 \in S
    <3>1. j + 1 \in 0..i /\ (j + 1) - 1 = j /\ j + 1 # 0 /\ f[j] = g[j]
      BY <2>2
    <3>2. E(f)[j + 1] = Tail(f[j]) /\ E(g)[j + 1] = Tail(g[j])
      BY <3>1
    <3>3. f[j + 1] = E(f)[j + 1] /\ g[j + 1] = E(g)[j + 1]
      BY <1>8, <1>9
    <3> HIDE DEF E, g
    <3> QED BY <3>1, <3>2, <3>3
  <2>3. \A j \in 0..i : j \in S
    <3> HIDE DEF S
    <3> QED BY <1>2, <2>1, <2>2, UpFrom
  <2> QED BY <2>3
<1>11. Head(f[i]) = l[i + 1]
  <2>1. f[i] = SubSeq(l, i + 1, n)
    BY <1>2, <1>10
  <2>2. i \in 0..i /\ 1 \in 1..(n - i) /\ 1 + i = i + 1
    BY <1>2
  <2>3. f[i] \in Seq(T) /\ Len(f[i]) = n - i /\ f[i][1] = l[i + 1]
    <3>1. /\ SubSeq(l, i + 1, n) \in Seq(T) /\ Len(SubSeq(l, i + 1, n)) = n - i
          /\ \A k \in 1..(n - i) : SubSeq(l, i + 1, n)[k] = l[k + i]
      BY <1>5, <2>2
    <3> HIDE DEF g
    <3> QED BY <2>1, <2>2, <3>1
  <2> QED BY <2>2, <2>3
<1> QED BY <1>4, <1>11

(* A greatest element of the first i of l.                                  *)
Greatest(l, i, m) ==
  /\ \E j \in 1..i : l[j] = m
  /\ \A j \in 1..i : l[j] <= m

(* IntegerMax is the greatest of all.                                       *)
LEMMA GreatestOfAll ==
  ASSUME NEW l \in Seq(Nat), l # << >>
  PROVE  Greatest(l, Len(l), Lists!IntegerMax(l))
<1>1. PICK n \in Nat : n = Len(l)
  OBVIOUS
<1>2. n # 0 /\ \A i \in 1..n : l[i] \in Nat
  BY <1>1
<1> DEFINE E(f) == [i \in 1..n |-> IF i = 1 THEN l[1] ELSE Lists!Winner(f[i - 1], l[i])]
           g == [i \in 1..n |-> CHOOSE m \in Nat : Greatest(l, i, m)]
<1>3. PICK f : f = CHOOSE h : h = E(h)
  OBVIOUS
<1>4. Lists!IntegerMax(l) = f[n]
  BY <1>1, <1>3 DEF Lists!IntegerMax
<1>5. Greatest(l, 1, l[1])
  BY <1>2 DEF Greatest
<1>6. ASSUME NEW i \in 1..n, i # n, NEW m \in Nat, Greatest(l, i, m)
      PROVE  Greatest(l, i + 1, Lists!Winner(m, l[i + 1])) /\ Lists!Winner(m, l[i + 1]) \in Nat
  <2>1. /\ l[i + 1] \in Nat /\ \A j \in 1..(i + 1) : j \in 1..i \/ j = i + 1
        /\ \A j \in 1..i : j \in 1..(i + 1) /\ l[j] \in Nat
    BY <1>2, <1>6
  <2>2. i + 1 \in 1..(i + 1)
    BY <1>6
  <2>3. CASE m >= l[i + 1]
    <3>1. Lists!Winner(m, l[i + 1]) = m
      BY <2>3 DEF Lists!Winner
    <3> QED BY <1>6, <2>1, <2>3, <3>1 DEF Greatest
  <2>4. CASE ~(m >= l[i + 1])
    <3>1. Lists!Winner(m, l[i + 1]) = l[i + 1]
      BY <2>4 DEF Lists!Winner
    <3> QED BY <1>6, <2>1, <2>2, <2>4, <3>1 DEF Greatest
  <2> QED BY <2>3, <2>4
<1>7. \A i \in 1..n : g[i] \in Nat /\ Greatest(l, i, g[i])
  <2> DEFINE S == { i \in 1..n : \E m \in Nat : Greatest(l, i, m) }
  <2>1. 1 \in S
    BY <1>2, <1>5
  <2>2. ASSUME NEW i \in 1..n, i \in S /\ i # n PROVE i + 1 \in S
    <3>1. i + 1 \in 1..n
      BY <2>2
    <3> QED BY <1>6, <2>2, <3>1
  <2>3. \A i \in 1..n : i \in S
    <3> HIDE DEF S
    <3> QED BY <1>2, <2>1, <2>2, UpFrom
  <2>4. ASSUME NEW i \in 1..n PROVE g[i] \in Nat /\ Greatest(l, i, g[i])
    <3>1. \E m \in Nat : Greatest(l, i, m)
      BY <2>3
    <3>2. g[i] = CHOOSE m \in Nat : Greatest(l, i, m)
      OBVIOUS
    <3> HIDE DEF g, S
    <3> QED BY <3>1, <3>2
  <2> QED BY <2>4
<1>8. ASSUME NEW i \in 1..n, NEW a \in Nat, NEW b \in Nat, Greatest(l, i, a), Greatest(l, i, b)
      PROVE  a = b
  <2>1. a <= b /\ b <= a
    BY <1>2, <1>8 DEF Greatest
  <2> QED BY <2>1
<1>9. g = E(g)
  <2>1. ASSUME NEW i \in 1..n PROVE g[i] = IF i = 1 THEN l[1] ELSE Lists!Winner(g[i - 1], l[i])
    <3> HIDE DEF g
    <3>1. CASE i = 1
      BY <1>2, <1>5, <1>7, <1>8, <3>1
    <3>2. CASE i # 1
      <4>1. i - 1 \in 1..n /\ i - 1 # n /\ (i - 1) + 1 = i
        BY <3>2
      <4>2. Greatest(l, i, Lists!Winner(g[i - 1], l[i])) /\ Lists!Winner(g[i - 1], l[i]) \in Nat
        BY <1>6, <1>7, <4>1
      <4> QED BY <1>7, <1>8, <3>2, <4>2
    <3> QED BY <3>1, <3>2
  <2>2. E(g) = [i \in 1..n |-> IF i = 1 THEN l[1] ELSE Lists!Winner(g[i - 1], l[i])]
    OBVIOUS
  <2>3. g = [i \in 1..n |-> g[i]]
    OBVIOUS
  <2> HIDE DEF E, g
  <2> QED BY <2>1, <2>2, <2>3
<1>10. f = E(f)
  <2> HIDE DEF E, g
  <2> QED BY <1>3, <1>9
<1>11. \A i \in 1..n : f[i] = g[i]
  <2> DEFINE S == { i \in 1..n : f[i] = g[i] }
  <2>1. 1 \in S
    <3>1. f[1] = E(f)[1] /\ g[1] = E(g)[1] /\ 1 \in 1..n
      <4> HIDE DEF E, g
      <4> QED BY <1>2, <1>9, <1>10
    <3>2. E(f)[1] = l[1] /\ E(g)[1] = l[1]
      BY <1>2
    <3> HIDE DEF E, g
    <3> QED BY <3>1, <3>2
  <2>2. ASSUME NEW i \in 1..n, i \in S /\ i # n PROVE i + 1 \in S
    <3>1. i + 1 \in 1..n /\ (i + 1) - 1 = i /\ i + 1 # 1 /\ f[i] = g[i]
      BY <2>2
    <3>2. E(f)[i + 1] = Lists!Winner(f[i], l[i + 1]) /\ E(g)[i + 1] = Lists!Winner(g[i], l[i + 1])
      BY <3>1
    <3>3. f[i + 1] = E(f)[i + 1] /\ g[i + 1] = E(g)[i + 1]
      <4> HIDE DEF E, g
      <4> QED BY <1>9, <1>10
    <3> HIDE DEF E, g
    <3> QED BY <3>1, <3>2, <3>3
  <2>3. \A i \in 1..n : i \in S
    <3> HIDE DEF S
    <3> QED BY <1>2, <2>1, <2>2, UpFrom
  <2> QED BY <2>3
<1>12. n \in 1..n
  BY <1>2
<1> HIDE DEF g
<1> QED BY <1>1, <1>4, <1>7, <1>11, <1>12

(* A list of types is a list of sizes.                                      *)
ListInv == list \in Seq({2, 3, 4})

(* The storage of a variant.                                                *)
LEMMA StorageFitsAll ==
  ASSUME ListInv
  PROVE  Lists!StorageFits
<1> SUFFICES ASSUME list # << >> PROVE
      /\ \A i \in 1..Len(list) : /\ list[i] <= Lists!Storage(list).size
                                 /\ Lists!Storage(list).align % Lists!AlignmentOf(list[i]) = 0
      /\ Lists!Listed(Lists!Storage(list).size)
  BY DEF Lists!StorageFits
<1>1. PICK n \in Nat : n = Len(list)
  BY DEF ListInv
<1>2. PICK a : a = [i \in 1..n |-> Lists!AlignmentOf(list[i])]
  OBVIOUS
<1>3. /\ n # 0 /\ \A i \in 1..n : list[i] \in {2, 3, 4}
      /\ list \in Seq(Nat)
  <2>1. {2, 3, 4} \subseteq Nat
    OBVIOUS
  <2>2. \A i \in 1..n : list[i] \in {2, 3, 4}
    BY <1>1 DEF ListInv
  <2>3. n # 0
    BY <1>1 DEF ListInv
  <2>4. list \in Seq(Nat)
    BY <2>1 DEF ListInv
  <2> QED BY <2>2, <2>3, <2>4
<1>4. \A s \in {2, 3, 4} : Lists!AlignmentOf(s) \in {1, 2, 4}
  BY DEF Lists!AlignmentOf
<1>5. /\ a \in Seq(Nat) /\ Len(a) = n /\ a # << >>
      /\ \A i \in 1..n : a[i] = Lists!AlignmentOf(list[i]) /\ a[i] \in {1, 2, 4}
  <2>1. \A i \in 1..n : a[i] = Lists!AlignmentOf(list[i]) /\ a[i] \in {1, 2, 4}
    BY <1>2, <1>3, <1>4
  <2>2. a \in [1..n -> Nat]
    <3>1. \A i \in 1..n : Lists!AlignmentOf(list[i]) \in Nat
      BY <1>3, <1>4
    <3> QED BY <1>2, <3>1
  <2>3. a \in Seq(Nat) /\ Len(a) = n
    BY <2>2
  <2> QED BY <1>3, <2>1, <2>3
<1>6. PICK s, m : s = Lists!IntegerMax(list) /\ m = Lists!IntegerMax(a)
  OBVIOUS
<1>7. Lists!Storage(list) = [size |-> s, align |-> m]
  BY <1>1, <1>2, <1>6 DEF Lists!Storage, Lists!MaxAlign
<1>8. Lists!Storage(list).size = s /\ Lists!Storage(list).align = m
  BY <1>7
<1>9. /\ \E j \in 1..n : list[j] = s
      /\ \A j \in 1..n : list[j] <= s
  BY <1>1, <1>3, <1>6, GreatestOfAll DEF Greatest
<1>10. /\ \E j \in 1..n : a[j] = m
       /\ \A j \in 1..n : a[j] <= m
  BY <1>5, <1>6, GreatestOfAll DEF Greatest
<1>11. \A x, y \in {1, 2, 4} : x <= y => y % x = 0
  OBVIOUS
<1>12. ASSUME NEW i \in 1..n PROVE m % Lists!AlignmentOf(list[i]) = 0
  <2>1. m \in {1, 2, 4} /\ a[i] \in {1, 2, 4} /\ a[i] <= m /\ a[i] = Lists!AlignmentOf(list[i])
    BY <1>5, <1>10
  <2> QED BY <1>11, <2>1
<1> QED BY <1>1, <1>8, <1>9, <1>12 DEF Lists!Listed

(* What is answered of one type.                                            *)
LEMMA AnswersOf ==
  ASSUME ListInv, NEW t \in {2, 3, 4}
  PROVE  /\ Lists!Contains(t, list) <=> Lists!Listed(t)
         /\ Lists!Listed(t) =>
              /\ Lists!IsFirst(Lists!Index(t, list) + 1, t)
              /\ Lists!IndexOf(t, list) = Lists!Index(t, list)
              /\ Lists!IndexType(Lists!Index(t, list), list) = t
              /\ Lists!At(Lists!IndexOf(t, list), list) = t
         /\ ~Lists!Listed(t) =>
              Lists!Index(t, list) = Len(list) /\ Lists!IndexOf(t, list) = Len(list) - 1
         /\ Lists!Visit(t, list)
              = { Len(list) - i : i \in { j \in 1..Len(list) : Lists!IsFirst(j, t) } }
<1>1. PICK n \in Nat : n = Len(list)
  BY DEF ListInv
<1>2. PICK first : Firsts(t, list, first)
  BY FirstsExist DEF ListInv
<1>3. PICK p \in 0..n : p = first[1]
  BY <1>1, <1>2 DEF Firsts
<1>4. /\ p = 0 <=> \A j \in 1..n : list[j] # t
      /\ p # 0 => p \in 1..n /\ list[p] = t /\ \A j \in 1..(p - 1) : list[j] # t
  BY <1>1, <1>2, <1>3, FirstsMean DEF ListInv
<1>5. Lists!Listed(t) <=> p # 0
  BY <1>1, <1>4 DEF Lists!Listed
<1>6. Lists!Contains(t, list) <=> p # 0
  BY <1>2, <1>3, ContainsTells DEF ListInv
<1>7. Lists!GetLeftSize(t, list) = IF p = 0 THEN -1 ELSE n - p
  BY <1>1, <1>2, <1>3, LeftSizes DEF ListInv
<1>8. Lists!Index(t, list) = IF p = 0 THEN n ELSE p - 1
  BY <1>1, <1>7 DEF Lists!Index
<1>9. Lists!IndexOf(t, list) = IF p = 0 THEN n - 1 ELSE p - 1
  BY <1>1, <1>2, <1>3, IndexesCounted DEF ListInv
<1>10. Lists!Visit(t, list) = IF p = 0 THEN {} ELSE {n - p}
  BY <1>1, <1>2, <1>3, VisitsTold DEF ListInv
<1>11. ASSUME p # 0 PROVE Lists!IndexType(p - 1, list) = t
  <2>1. p - 1 \in 0..(Len(list) - 1) /\ (p - 1) + 1 = p
    BY <1>1, <1>11
  <2>2. Lists!IndexType(p - 1, list) = list[(p - 1) + 1]
    BY <2>1, IndexTypes DEF ListInv
  <2> QED BY <1>4, <1>11, <2>1, <2>2
<1>12. ASSUME NEW j \in 1..n PROVE Lists!IsFirst(j, t) <=> p # 0 /\ j = p
  <2>1. CASE p = 0
    BY <1>4, <2>1 DEF Lists!IsFirst
  <2>2. CASE p # 0
    <3>1. j < p \/ j = p \/ j > p
      OBVIOUS
    <3>2. ASSUME j < p PROVE list[j] # t
      BY <1>4, <2>2, <3>2
    <3>3. ASSUME j > p PROVE p \in 1..(j - 1) /\ list[p] = t
      BY <1>4, <2>2, <3>3
    <3> QED BY <1>4, <2>2, <3>1, <3>2, <3>3 DEF Lists!IsFirst
  <2> QED BY <2>1, <2>2
<1>13. { j \in 1..n : Lists!IsFirst(j, t) } = IF p = 0 THEN {} ELSE {p}
  <2>1. p # 0 => p \in 1..n
    BY <1>4
  <2> QED BY <1>12, <2>1
<1>14. Lists!Visit(t, list) = { n - i : i \in { j \in 1..n : Lists!IsFirst(j, t) } }
  <2>1. CASE p = 0
    BY <1>10, <1>13, <2>1
  <2>2. CASE p # 0
    BY <1>10, <1>13, <2>2
  <2> QED BY <2>1, <2>2
<1>15. ASSUME p # 0
       PROVE  /\ Lists!IsFirst(Lists!Index(t, list) + 1, t)
              /\ Lists!IndexOf(t, list) = Lists!Index(t, list)
              /\ Lists!IndexType(Lists!Index(t, list), list) = t
              /\ Lists!At(Lists!IndexOf(t, list), list) = t
  <2>1. Lists!Index(t, list) = p - 1 /\ Lists!IndexOf(t, list) = p - 1 /\ (p - 1) + 1 = p
    BY <1>8, <1>9, <1>15
  <2>2. Lists!IsFirst(p, t)
    BY <1>4, <1>12, <1>15
  <2> QED BY <1>11, <1>15, <2>1, <2>2 DEF Lists!At
<1> QED BY <1>1, <1>5, <1>6, <1>8, <1>9, <1>14, <1>15

(* All answers about a list.                                                *)
LEMMA ListMeans ==
  ASSUME ListInv
  PROVE  /\ Lists!StorageFits /\ Lists!IndexesFirst
         /\ Lists!AbsentIndexes /\ Lists!VisitsFirst
<1>1. Lists!IndexesFirst
  BY AnswersOf DEF Lists!IndexesFirst
<1>2. Lists!AbsentIndexes
  BY AnswersOf DEF Lists!AbsentIndexes
<1>3. Lists!VisitsFirst
  BY AnswersOf DEF Lists!VisitsFirst
<1> QED BY <1>1, <1>2, <1>3, StorageFitsAll

(* A list grows by its types.                                               *)
LEMMA ListGrows ==
  ASSUME ListInv, Lists!Next
  PROVE  ListInv'
BY DEF ListInv, Lists!Next, Lists!Grow

-----------------------------------------------------------------------------
(* ListNode: the links of both directions tell of one list. *)

Linked == Nodes \cup {Header, Tailer}

(* c is the list: the nodes that succ leads to from the header, each once,  *)
(* with pred leading back.                                                  *)
Chained(c) ==
  /\ ListFrom(Linked, Null, Header, succ, c)
  /\ Len(c) \in Nat \ {0, 1} /\ c[Len(c)] = Tailer
  /\ DOMAIN succ = Members(c) /\ DOMAIN pred = Members(c)
  /\ succ = [n \in Members(c) |-> succ[n]] /\ pred = [n \in Members(c) |-> pred[n]]
  /\ \A i \in 1..Len(c) : pred[c[i]] = IF i = 1 THEN Null ELSE c[i - 1]

ChainInv == \E c : Chained(c)

(* What a chain is, element by element.                                     *)
LEMMA ChainMeans ==
  ASSUME NEW c, Chained(c)
  PROVE  /\ c \in Seq(Linked) /\ Len(c) \in Nat \ {0, 1}
         /\ \A i \in 1..Len(c) : c[i] \in Linked
         /\ \A i, j \in 1..Len(c) : c[i] = c[j] => i = j
         /\ c[1] = Header /\ c[Len(c)] = Tailer
         /\ \A i \in 1..Len(c) : succ[c[i]] = IF i = Len(c) THEN Null ELSE c[i + 1]
         /\ \A i \in 1..Len(c) : pred[c[i]] = IF i = 1 THEN Null ELSE c[i - 1]
         /\ Null \notin Linked
<1>1. ListFrom(Linked, Null, Header, succ, c) /\ Len(c) \in Nat \ {0, 1}
  BY DEF Chained
<1>2. /\ c \in Seq(Linked)
      /\ \A i, j \in 1..Len(c) : c[i] = c[j] => i = j
      /\ c[1] = Header
      /\ \A i \in 1..Len(c) : succ[c[i]] = IF i = Len(c) THEN Null ELSE c[i + 1]
  BY <1>1 DEF ListFrom
<1>3. \A i \in 1..Len(c) : c[i] \in Linked
  BY <1>2
<1>4. Null \notin Linked
  BY DEF Linked
<1> QED BY <1>1, <1>2, <1>3, <1>4 DEF Chained

(* The header and the tailer begin as a chain of two.                       *)
LEMMA ChainBegins ==
  ASSUME List!Init
  PROVE  ChainInv
<1>1. PICK c : c = << Header, Tailer >>
  OBVIOUS
<1>2. /\ c \in Seq(Linked) /\ Len(c) = 2 /\ c[1] = Header /\ c[2] = Tailer
      /\ \A i \in 1..Len(c) : i = 1 \/ i = 2
  BY <1>1 DEF Linked
<1>3. Members(c) = {Header, Tailer}
  BY <1>2 DEF Members
<1>4. /\ pred = [n \in {Header, Tailer} |-> IF n = Header THEN Null ELSE Header]
      /\ succ = [n \in {Header, Tailer} |-> IF n = Header THEN Tailer ELSE Null]
  BY DEF List!Init, List!Outermost
<1>5. /\ pred[Header] = Null /\ pred[Tailer] = Header /\ succ[Header] = Tailer /\ succ[Tailer] = Null
      /\ DOMAIN succ = {Header, Tailer} /\ DOMAIN pred = {Header, Tailer}
      /\ succ = [n \in {Header, Tailer} |-> succ[n]] /\ pred = [n \in {Header, Tailer} |-> pred[n]]
  BY <1>4
<1>6. ListFrom(Linked, Null, Header, succ, c)
  <2>1. \A i, j \in 1..Len(c) : c[i] = c[j] => i = j
    BY <1>2
  <2>2. \A i \in 1..Len(c) : succ[c[i]] = IF i = Len(c) THEN Null ELSE c[i + 1]
    BY <1>2, <1>5
  <2> QED BY <1>2, <2>1, <2>2 DEF ListFrom
<1>7. \A i \in 1..Len(c) : pred[c[i]] = IF i = 1 THEN Null ELSE c[i - 1]
  BY <1>2, <1>5
<1>8. Chained(c)
  BY <1>2, <1>3, <1>5, <1>6, <1>7 DEF Chained
<1> QED BY <1>8 DEF ChainInv

(* A sequence with p behind its first k elements.                           *)
Spliced(c, k, p) == SubSeq(c, 1, k) \o << p >> \o SubSeq(c, k + 1, Len(c))

(* The elements of it.                                                      *)
LEMMA SpliceMeans ==
  ASSUME NEW T, NEW c \in Seq(T), NEW k \in 1..(Len(c) - 1), NEW p \in T
  PROVE  /\ Spliced(c, k, p) \in Seq(T) /\ Len(Spliced(c, k, p)) = Len(c) + 1
         /\ \A i \in 1..(Len(c) + 1) :
              Spliced(c, k, p)[i] = IF i <= k THEN c[i] ELSE IF i = k + 1 THEN p ELSE c[i - 1]
<1>1. PICK n \in Nat : n = Len(c)
  OBVIOUS
<1>2. PICK a, b, m : a = SubSeq(c, 1, k) /\ b = SubSeq(c, k + 1, n) /\ m = << p >>
  OBVIOUS
<1>3. /\ a \in Seq(T) /\ Len(a) = k /\ \A i \in 1..k : a[i] = c[i]
  BY <1>1, <1>2
<1>4. /\ b \in Seq(T) /\ Len(b) = n - k /\ \A i \in 1..(n - k) : b[i] = c[i + k]
  BY <1>1, <1>2
<1>5. m \in Seq(T) /\ Len(m) = 1 /\ m[1] = p
  BY <1>2
<1>6. PICK q : q = a \o m
  OBVIOUS
<1>7. /\ q \in Seq(T) /\ Len(q) = k + 1 /\ q[k + 1] = p
      /\ \A i \in 1..k : q[i] = c[i]
  <2>1. /\ q \in Seq(T) /\ Len(q) = Len(a) + Len(m)
        /\ \A i \in 1..(Len(a) + Len(m)) : q[i] = IF i <= Len(a) THEN a[i] ELSE m[i - Len(a)]
    <3>1. a \in Seq(T) /\ m \in Seq(T)
      BY <1>3, <1>5
    <3>2. a \o m \in Seq(T) /\ Len(a \o m) = Len(a) + Len(m)
      BY <3>1, ConcatProperties
    <3>3. \A i \in 1..(Len(a) + Len(m)) : (a \o m)[i] = IF i <= Len(a) THEN a[i] ELSE m[i - Len(a)]
      BY <3>1, ConcatProperties
    <3> QED BY <1>6, <3>2, <3>3
  <2>2. /\ q \in Seq(T) /\ Len(q) = k + 1
        /\ \A i \in 1..(k + 1) : q[i] = IF i <= k THEN a[i] ELSE m[i - k]
    BY <1>3, <1>5, <2>1
  <2>3. k + 1 \in 1..(k + 1) /\ ~(k + 1 <= k) /\ (k + 1) - k = 1
    OBVIOUS
  <2>4. \A i \in 1..k : i \in 1..(k + 1) /\ i <= k
    OBVIOUS
  <2> QED BY <1>3, <1>5, <2>2, <2>3, <2>4
<1>8. PICK s : s = q \o b
  OBVIOUS
<1>9. /\ s \in Seq(T) /\ Len(s) = n + 1
      /\ \A i \in 1..(k + 1) : s[i] = q[i]
      /\ \A i \in (k + 2)..(n + 1) : s[i] = b[i - (k + 1)]
  <2>1. /\ s \in Seq(T) /\ Len(s) = Len(q) + Len(b)
        /\ \A i \in 1..(Len(q) + Len(b)) : s[i] = IF i <= Len(q) THEN q[i] ELSE b[i - Len(q)]
    <3>1. q \in Seq(T) /\ b \in Seq(T)
      BY <1>4, <1>7
    <3>2. q \o b \in Seq(T) /\ Len(q \o b) = Len(q) + Len(b)
      BY <3>1, ConcatProperties
    <3>3. \A i \in 1..(Len(q) + Len(b)) : (q \o b)[i] = IF i <= Len(q) THEN q[i] ELSE b[i - Len(q)]
      BY <3>1, ConcatProperties
    <3> QED BY <1>8, <3>2, <3>3
  <2>2. Len(q) = k + 1 /\ Len(q) + Len(b) = n + 1 /\ k + 1 <= n
    BY <1>1, <1>4, <1>7
  <2>3. \A i \in 1..(k + 1) : i \in 1..(n + 1) /\ i <= k + 1
    BY <2>2
  <2>4. \A i \in (k + 2)..(n + 1) : i \in 1..(n + 1) /\ ~(i <= k + 1)
    OBVIOUS
  <2> QED BY <2>1, <2>2, <2>3, <2>4
<1>10. Spliced(c, k, p) = s
  BY <1>1, <1>2, <1>6, <1>8 DEF Spliced
<1>11. ASSUME NEW i \in 1..(n + 1)
       PROVE  s[i] = IF i <= k THEN c[i] ELSE IF i = k + 1 THEN p ELSE c[i - 1]
  <2>1. CASE i <= k
    BY <1>1, <1>7, <1>9, <2>1
  <2>2. CASE i = k + 1
    BY <1>1, <1>7, <1>9, <2>2
  <2>3. CASE i > k + 1
    <3>1. i \in (k + 2)..(n + 1) /\ i - (k + 1) \in 1..(n - k) /\ (i - (k + 1)) + k = i - 1
      BY <1>1, <2>3
    <3> QED BY <1>1, <1>4, <1>9, <2>3, <3>1
  <2> QED BY <1>1, <2>1, <2>2, <2>3
<1> QED BY <1>1, <1>9, <1>10, <1>11

(* A new node between two neighbours.                                       *)
Wedged(c, k, p) ==
  /\ DOMAIN succ' = DOMAIN succ \cup {p} /\ DOMAIN pred' = DOMAIN pred \cup {p}
  /\ succ' = [n \in DOMAIN succ' |-> succ'[n]] /\ pred' = [n \in DOMAIN pred' |-> pred'[n]]
  /\ succ'[c[k]] = p /\ succ'[p] = c[k + 1]
  /\ pred'[c[k + 1]] = p /\ pred'[p] = c[k]
  /\ \A n \in DOMAIN succ \ {c[k]} : succ'[n] = succ[n]
  /\ \A n \in DOMAIN pred \ {c[k + 1]} : pred'[n] = pred[n]

(* It is in the chain then.                                                 *)
LEMMA WedgedIn ==
  ASSUME NEW c, Chained(c), NEW k \in 1..(Len(c) - 1), NEW p \in Nodes \ DOMAIN succ,
         Wedged(c, k, p)
  PROVE  Chained(Spliced(c, k, p))'
<1>1. PICK n : n = Len(c)
  OBVIOUS
<1>2. /\ c \in Seq(Linked) /\ n \in Nat \ {0, 1}
      /\ \A i \in 1..n : c[i] \in Linked
      /\ \A i, j \in 1..n : c[i] = c[j] => i = j
      /\ c[1] = Header /\ c[n] = Tailer
      /\ \A i \in 1..n : succ[c[i]] = IF i = n THEN Null ELSE c[i + 1]
      /\ \A i \in 1..n : pred[c[i]] = IF i = 1 THEN Null ELSE c[i - 1]
  BY <1>1, ChainMeans
<1>3. /\ DOMAIN succ = Members(c) /\ DOMAIN pred = Members(c)
      /\ Members(c) = { c[i] : i \in 1..n }
  BY <1>1 DEF Chained, Members
<1>4. PICK d : d = Spliced(c, k, p)
  OBVIOUS
<1>5. p \in Linked /\ \A i \in 1..n : c[i] # p
  BY <1>3 DEF Linked
<1>6. /\ d \in Seq(Linked) /\ Len(d) = n + 1
      /\ \A i \in 1..(n + 1) : d[i] = IF i <= k THEN c[i] ELSE IF i = k + 1 THEN p ELSE c[i - 1]
  <2>1. c \in Seq(Linked) /\ p \in Linked
    BY <1>2, <1>5
  <2>2. /\ Spliced(c, k, p) \in Seq(Linked) /\ Len(Spliced(c, k, p)) = Len(c) + 1
        /\ \A i \in 1..(Len(c) + 1) :
             Spliced(c, k, p)[i] = IF i <= k THEN c[i] ELSE IF i = k + 1 THEN p ELSE c[i - 1]
    BY <2>1, SpliceMeans
  <2> QED BY <1>1, <1>4, <2>2
<1>7. k \in 1..n /\ k + 1 \in 1..n
  BY <1>1, <1>2
<1>18. n \in Nat /\ k \in Nat \ {0} /\ k + 1 <= n
  BY <1>1, <1>2
<1>8. \A i, j \in 1..(n + 1) : d[i] = d[j] => i = j
  <2>1. ASSUME NEW i \in 1..(n + 1), NEW j \in 1..(n + 1), d[i] = d[j] PROVE i = j
    <3>1. ASSUME NEW x \in 1..(n + 1)
          PROVE  /\ x <= k => x \in 1..n /\ d[x] = c[x]
                 /\ x = k + 1 => d[x] = p
                 /\ x > k + 1 => x - 1 \in 1..n /\ d[x] = c[x - 1]
      BY <1>2, <1>6, <1>7
    <3>2. CASE i = k + 1 \/ j = k + 1
      <4>1. i \in 1..(n + 1) /\ j \in 1..(n + 1) /\ (i <= k \/ i = k + 1 \/ i > k + 1)
            /\ (j <= k \/ j = k + 1 \/ j > k + 1)
        BY <1>18
      <4> QED BY <1>5, <2>1, <3>1, <3>2, <4>1
    <3>3. CASE i # k + 1 /\ j # k + 1
      <4>1. \A x, y \in 1..n : c[x] = c[y] => x = y
        BY <1>2
      <4>2. (i <= k \/ i > k + 1) /\ (j <= k \/ j > k + 1)
        BY <1>18, <3>3
      <4>3. CASE i <= k /\ j <= k
        BY <2>1, <3>1, <4>1, <4>3
      <4>4. CASE i > k + 1 /\ j > k + 1
        BY <2>1, <3>1, <4>1, <4>4
      <4>5. CASE i <= k /\ j > k + 1
        <5>1. i = j - 1
          BY <2>1, <3>1, <4>1, <4>5
        <5> QED BY <1>18, <4>5, <5>1
      <4>6. CASE i > k + 1 /\ j <= k
        <5>1. i - 1 = j
          BY <2>1, <3>1, <4>1, <4>6
        <5> QED BY <1>18, <4>6, <5>1
      <4> QED BY <4>2, <4>3, <4>4, <4>5, <4>6
    <3> QED BY <3>2, <3>3
  <2> QED BY <2>1
<1>9. Members(d) = Members(c) \cup {p}
  <2>1. \A i \in 1..(n + 1) : d[i] \in Members(c) \cup {p}
    <3>1. ASSUME NEW i \in 1..(n + 1), i # k + 1 PROVE \E j \in 1..n : d[i] = c[j]
      <4>1. CASE i <= k
        BY <1>2, <1>6, <1>7, <4>1
      <4>2. CASE i > k + 1
        BY <1>2, <1>6, <1>7, <4>2
      <4> QED BY <1>2, <1>7, <3>1, <4>1, <4>2
    <3>2. d[k + 1] = p
      BY <1>2, <1>6, <1>7
    <3> QED BY <1>3, <3>1, <3>2
  <2>2. ASSUME NEW i \in 1..n PROVE \E j \in 1..(n + 1) : d[j] = c[i]
    <3>1. CASE i <= k
      BY <1>2, <1>6, <3>1
    <3>2. CASE i > k
      <4>1. i + 1 \in 1..(n + 1) /\ ~(i + 1 <= k) /\ i + 1 # k + 1 /\ (i + 1) - 1 = i
        BY <1>2, <1>7, <3>2
      <4>2. d[i + 1] = c[i]
        BY <1>6, <4>1
      <4> QED BY <4>1, <4>2
    <3> QED BY <1>7, <3>1, <3>2
  <2>3. k + 1 \in 1..(n + 1) /\ d[k + 1] = p
    BY <1>2, <1>6, <1>7
  <2>4. Members(d) = { d[i] : i \in 1..(n + 1) }
    BY <1>6 DEF Members
  <2> QED BY <1>3, <2>1, <2>2, <2>3, <2>4
<1>10. d[1] = Header /\ d[n + 1] = Tailer
  BY <1>2, <1>6, <1>7
<1>11. /\ DOMAIN succ' = Members(d) /\ DOMAIN pred' = Members(d)
       /\ succ' = [m \in Members(d) |-> succ'[m]] /\ pred' = [m \in Members(d) |-> pred'[m]]
  BY <1>3, <1>9 DEF Wedged
<1>12. /\ succ'[c[k]] = p /\ succ'[p] = c[k + 1]
       /\ pred'[c[k + 1]] = p /\ pred'[p] = c[k]
       /\ \A i \in 1..n : i # k => succ'[c[i]] = succ[c[i]]
       /\ \A i \in 1..n : i # k + 1 => pred'[c[i]] = pred[c[i]]
  <2>1. \A i \in 1..n : /\ c[i] \in DOMAIN succ /\ c[i] \in DOMAIN pred
                        /\ (i # k => c[i] # c[k]) /\ (i # k + 1 => c[i] # c[k + 1])
    BY <1>2, <1>3, <1>7
  <2> QED BY <2>1 DEF Wedged
<1>13. ASSUME NEW i \in 1..(n + 1)
       PROVE  succ'[d[i]] = IF i = n + 1 THEN Null ELSE d[i + 1]
  <2>1. CASE i < k
    <3>1. i \in 1..n /\ i + 1 \in 1..(n + 1) /\ i + 1 <= k /\ i # n /\ i # n + 1 /\ i <= k /\ i # k
      BY <1>18, <2>1
    <3>2. d[i] = c[i] /\ d[i + 1] = c[i + 1]
      BY <1>6, <3>1
    <3> QED BY <1>2, <1>12, <3>1, <3>2
  <2>2. CASE i = k
    <3>1. i + 1 \in 1..(n + 1) /\ i # n + 1 /\ ~(i + 1 <= k)
      BY <1>18, <2>2
    <3>2. d[i] = c[k] /\ d[i + 1] = p
      BY <1>6, <2>2, <3>1
    <3> QED BY <1>12, <3>1, <3>2
  <2>3. CASE i = k + 1
    <3>1. i + 1 \in 1..(n + 1) /\ i # n + 1 /\ ~(i + 1 <= k) /\ i + 1 # k + 1 /\ (i + 1) - 1 = k + 1 /\ ~(i <= k)
      BY <1>18, <2>3
    <3>2. d[i] = p /\ d[i + 1] = c[k + 1]
      BY <1>6, <2>3, <3>1
    <3> QED BY <1>12, <3>1, <3>2
  <2>4. CASE i > k + 1
    <3>1. ~(i <= k) /\ i # k + 1 /\ i - 1 \in 1..n /\ i - 1 # k /\ (i - 1) + 1 = i
      BY <1>18, <2>4
    <3>2. d[i] = c[i - 1]
      BY <1>6, <3>1
    <3>3. succ'[d[i]] = IF i - 1 = n THEN Null ELSE c[i]
      BY <1>2, <1>12, <3>1, <3>2
    <3>4. i # n + 1 => i + 1 \in 1..(n + 1) /\ ~(i + 1 <= k) /\ i + 1 # k + 1 /\ (i + 1) - 1 = i
      BY <1>18, <2>4
    <3>5. i # n + 1 => d[i + 1] = c[i]
      BY <1>6, <3>4
    <3> QED BY <1>2, <3>3, <3>5
  <2> QED BY <1>7, <2>1, <2>2, <2>3, <2>4
<1>14. ASSUME NEW i \in 1..(n + 1)
       PROVE  pred'[d[i]] = IF i = 1 THEN Null ELSE d[i - 1]
  <2>1. CASE i <= k
    <3>1. i \in 1..n /\ i # k + 1 /\ i <= k
      BY <1>18, <2>1
    <3>2. d[i] = c[i] /\ pred'[d[i]] = IF i = 1 THEN Null ELSE c[i - 1]
      BY <1>2, <1>6, <1>12, <3>1
    <3>3. i # 1 => i - 1 \in 1..(n + 1) /\ i - 1 <= k
      BY <1>18, <2>1
    <3> QED BY <1>6, <3>2, <3>3
  <2>2. CASE i = k + 1
    <3>1. k \in 1..(n + 1) /\ i # 1 /\ i - 1 = k /\ ~(i <= k)
      BY <1>18, <2>2
    <3>2. d[i] = p /\ d[i - 1] = c[k]
      BY <1>6, <2>2, <3>1
    <3> QED BY <1>12, <3>1, <3>2
  <2>3. CASE i = k + 2
    <3>1. i # 1 /\ ~(i <= k) /\ i # k + 1 /\ i - 1 = k + 1 /\ i - 1 \in 1..(n + 1) /\ ~(k + 1 <= k)
      BY <1>18, <2>3
    <3>2. d[i] = c[k + 1] /\ d[i - 1] = p
      BY <1>6, <3>1
    <3> QED BY <1>12, <3>1, <3>2
  <2>4. CASE i > k + 2
    <3>1. /\ i # 1 /\ ~(i <= k) /\ i # k + 1 /\ i - 1 \in 1..n /\ i - 1 # 1 /\ i - 1 # k + 1
          /\ i - 1 \in 1..(n + 1) /\ ~(i - 1 <= k) /\ (i - 1) - 1 = i - 2
      BY <1>18, <2>4
    <3>2. d[i] = c[i - 1] /\ d[i - 1] = c[(i - 1) - 1]
      BY <1>6, <3>1
    <3>3. pred'[c[i - 1]] = pred[c[i - 1]]
      BY <1>12, <3>1
    <3>4. pred[c[i - 1]] = c[(i - 1) - 1]
      BY <1>2, <3>1
    <3> QED BY <3>1, <3>2, <3>3, <3>4
  <2> QED BY <1>7, <2>1, <2>2, <2>3, <2>4
<1>15. ListFrom(Linked, Null, Header, succ', d)
  <2>1. Len(d) # 0
    BY <1>2, <1>6
  <2> QED BY <1>6, <1>8, <1>10, <1>13, <2>1 DEF ListFrom
<1>16. Len(d) \in Nat \ {0, 1} /\ d[Len(d)] = Tailer
  BY <1>2, <1>6, <1>10
<1>17. \A i \in 1..Len(d) : pred'[d[i]] = IF i = 1 THEN Null ELSE d[i - 1]
  BY <1>6, <1>14
<1>19. Chained(d)'
  BY <1>11, <1>15, <1>16, <1>17 DEF Chained, Linked
<1> QED BY <1>4, <1>19

(* The two settings of a link that an insertion makes in each direction:    *)
(* the new node p leads to y, and x leads to p.                             *)
SetBoth(link, p, y, x) == List!Set(List!Set(link, p, y), x, p)

FitsIn(link, p, x) == x \in DOMAIN link /\ p \notin DOMAIN link

FittedIn(link, p, y, x, link2) ==
  /\ DOMAIN link2 = DOMAIN link \cup {p} /\ link2 = [m \in DOMAIN link2 |-> link2[m]]
  /\ link2[x] = p /\ link2[p] = y
  /\ \A m \in DOMAIN link \ {x} : link2[m] = link[m]

(* After both settings p is between x and y in that direction.              *)
LEMMA SetsBoth ==
  ASSUME NEW link, NEW p, NEW y, NEW x, FitsIn(link, p, x)
  PROVE  FittedIn(link, p, y, x, SetBoth(link, p, y, x))
<1>0. x \in DOMAIN link /\ p \notin DOMAIN link
  BY DEF FitsIn
<1>1. PICK mid, link2 : mid = List!Set(link, p, y) /\ link2 = SetBoth(link, p, y, x)
  OBVIOUS
<1>2. /\ DOMAIN mid = DOMAIN link \cup {p} /\ mid[p] = y
      /\ \A m \in DOMAIN link \ {p} : mid[m] = link[m]
  <2>1. /\ DOMAIN List!Set(link, p, y) = DOMAIN link \cup {p} /\ List!Set(link, p, y)[p] = y
        /\ \A m \in DOMAIN link \ {p} : List!Set(link, p, y)[m] = link[m]
    BY DEF List!Set
  <2> QED BY <1>1, <2>1
<1>3. /\ DOMAIN link2 = DOMAIN mid \cup {x} /\ link2[x] = p
      /\ \A m \in DOMAIN mid \ {x} : link2[m] = mid[m]
      /\ link2 = [m \in DOMAIN mid \cup {x} |-> link2[m]]
  <2>1. /\ DOMAIN List!Set(mid, x, p) = DOMAIN mid \cup {x} /\ List!Set(mid, x, p)[x] = p
        /\ \A m \in DOMAIN mid \ {x} : List!Set(mid, x, p)[m] = mid[m]
        /\ List!Set(mid, x, p) = [m \in DOMAIN mid \cup {x} |-> List!Set(mid, x, p)[m]]
    BY DEF List!Set
  <2>2. link2 = List!Set(mid, x, p)
    BY <1>1 DEF SetBoth
  <2> QED BY <2>1, <2>2
<1>4. DOMAIN mid \cup {x} = DOMAIN link \cup {p} /\ p # x
  BY <1>0, <1>2
<1>5. FittedIn(link, p, y, x, link2)
  BY <1>0, <1>2, <1>3, <1>4 DEF FittedIn
<1> QED BY <1>1, <1>5

(* Both insertions wedge the new node between this one and its neighbour.   *)
LEMMA InsertsWedge ==
  ASSUME NEW c, Chained(c), NEW p \in Nodes \ DOMAIN succ, NEW k \in 1..(Len(c) - 1)
  PROVE  /\ List!InsertAsSucc(c[k], p) => Wedged(c, k, p)
         /\ List!InsertAsPred(c[k + 1], p) => Wedged(c, k, p)
<1>1. PICK n : n = Len(c)
  OBVIOUS
<1>2. /\ n \in Nat \ {0, 1}
      /\ \A i, j \in 1..n : c[i] = c[j] => i = j
      /\ \A i \in 1..n : succ[c[i]] = IF i = n THEN Null ELSE c[i + 1]
      /\ \A i \in 1..n : pred[c[i]] = IF i = 1 THEN Null ELSE c[i - 1]
  BY <1>1, ChainMeans
<1>3. k \in 1..n /\ k + 1 \in 1..n /\ k # n /\ k + 1 # 1 /\ (k + 1) - 1 = k
  BY <1>1, <1>2
<1>4. PICK a, b : a = c[k] /\ b = c[k + 1]
  OBVIOUS
<1>5. succ[a] = b /\ pred[b] = a
  BY <1>2, <1>3, <1>4
<1>6. a \in DOMAIN succ /\ b \in DOMAIN succ /\ DOMAIN pred = DOMAIN succ /\ p \notin DOMAIN succ
  BY <1>1, <1>3, <1>4 DEF Chained, Members
<1>7. /\ DOMAIN succ' = DOMAIN succ \cup {p} /\ DOMAIN pred' = DOMAIN pred \cup {p}
      /\ succ' = [m \in DOMAIN succ' |-> succ'[m]] /\ pred' = [m \in DOMAIN pred' |-> pred'[m]]
      /\ succ'[a] = p /\ succ'[p] = b
      /\ pred'[b] = p /\ pred'[p] = a
      /\ \A m \in DOMAIN succ \ {a} : succ'[m] = succ[m]
      /\ \A m \in DOMAIN pred \ {b} : pred'[m] = pred[m]
      => Wedged(c, k, p)
  BY <1>4 DEF Wedged
<1>8. /\ FittedIn(pred, p, a, b, SetBoth(pred, p, a, b))
      /\ FittedIn(succ, p, b, a, SetBoth(succ, p, b, a))
  <2>1. PICK l, l2 : l = pred /\ l2 = succ
    OBVIOUS
  <2>2. FitsIn(l, p, b) /\ FitsIn(l2, p, a)
    BY <1>6, <2>1 DEF FitsIn
  <2>3. FittedIn(l, p, a, b, SetBoth(l, p, a, b)) /\ FittedIn(l2, p, b, a, SetBoth(l2, p, b, a))
    BY <2>2, SetsBoth
  <2> QED BY <2>1, <2>3
<1>11. ASSUME pred' = SetBoth(pred, p, a, b), succ' = SetBoth(succ, p, b, a)
       PROVE  Wedged(c, k, p)
  <2>1. FittedIn(pred, p, a, b, pred') /\ FittedIn(succ, p, b, a, succ')
    BY <1>8, <1>11
  <2> QED BY <1>7, <2>1 DEF FittedIn
<1>9. ASSUME List!InsertAsSucc(a, p) PROVE Wedged(c, k, p)
  <2>1. /\ pred' = SetBoth(pred, p, a, b)
        /\ succ' = SetBoth(succ, p, b, a)
    BY <1>5, <1>9 DEF List!InsertAsSucc, List!Neighbour, List!Beyond, SetBoth
  <2> QED BY <1>11, <2>1
<1>10. ASSUME List!InsertAsPred(b, p) PROVE Wedged(c, k, p)
  <2>1. /\ pred' = SetBoth(pred, p, a, b)
        /\ succ' = SetBoth(succ, p, b, a)
    BY <1>5, <1>10 DEF List!InsertAsPred, List!Neighbour, List!Beyond, SetBoth
  <2> QED BY <1>11, <2>1
<1> QED BY <1>4, <1>9, <1>10

(* What one meets when one follows succ is the chain.                       *)
LEMMA OrderIsChain ==
  ASSUME NEW c, Chained(c)
  PROVE  List!Order = c
<1>1. PICK n : n = Len(c)
  OBVIOUS
<1>2. /\ c \in Seq(Linked) /\ n \in Nat \ {0, 1}
      /\ \A i \in 1..n : c[i] \in Linked
      /\ \A i, j \in 1..n : c[i] = c[j] => i = j
      /\ c[1] = Header
      /\ \A i \in 1..n : succ[c[i]] = IF i = n THEN Null ELSE c[i + 1]
      /\ Null \notin Linked
  BY <1>1, ChainMeans
<1>3. List!Allocated = Members(c) /\ Members(c) = { c[i] : i \in 1..n }
  BY <1>1 DEF Chained, Members, List!Allocated
<1>4. List!Cardinality(List!Allocated) = n
  <2>1. PICK M : M = Members(c)
    OBVIOUS
  <2>2. IsFiniteSet(M)
    <3>1. PICK h : h = [i \in 1..n |-> c[i]]
      OBVIOUS
    <3>2. h \in Surjection(1..n, M)
      BY <1>3, <2>1, <3>1 DEF Surjection
    <3>3. IsFiniteSet(1..n)
      <4>1. 1 \in Int /\ n \in Int
        BY <1>2
      <4> QED BY <4>1, FS_Interval
    <3> QED BY <3>2, <3>3, FS_Surjection
  <2>3. c \in Seq(M)
    <3>1. \A i \in 1..n : c[i] \in M
      BY <1>3, <2>1
    <3> QED BY <1>1, <1>2, <3>1
  <2>4. Cardinality(Members(c)) = Len(c)
    BY <1>1, <1>2, <2>2, <2>3, ListSize
  <2>5. \A S : List!Cardinality(S) = Cardinality(S)
    BY DEF List!Cardinality, Cardinality
  <2> QED BY <1>1, <1>3, <2>4, <2>5
<1> DEFINE E(f) == [k \in 1..n |->
             IF k = 1 THEN Header ELSE IF f[k - 1] = Null THEN Null ELSE succ[f[k - 1]]]
<1>5. PICK f : f = CHOOSE h : h = E(h)
  OBVIOUS
<1>6. List!Order = f
  BY <1>4, <1>5 DEF List!Order
<1>7. c = E(c)
  <2>1. ASSUME NEW k \in 1..n
        PROVE  c[k] = IF k = 1 THEN Header ELSE IF c[k - 1] = Null THEN Null ELSE succ[c[k - 1]]
    <3>1. CASE k = 1
      BY <1>2, <3>1
    <3>2. CASE k # 1
      <4>1. k - 1 \in 1..n /\ k - 1 # n /\ (k - 1) + 1 = k
        BY <1>2, <3>2
      <4>2. c[k - 1] # Null
        BY <1>2, <4>1
      <4>3. succ[c[k - 1]] = c[k]
        BY <1>2, <4>1
      <4> QED BY <3>2, <4>2, <4>3
    <3> QED BY <3>1, <3>2
  <2>2. c = [k \in 1..n |-> c[k]]
    BY <1>1, <1>2
  <2>3. E(c) = [k \in 1..n |->
             IF k = 1 THEN Header ELSE IF c[k - 1] = Null THEN Null ELSE succ[c[k - 1]]]
    OBVIOUS
  <2> HIDE DEF E
  <2> QED BY <2>1, <2>2, <2>3
<1>8. f = E(f)
  <2> HIDE DEF E
  <2> QED BY <1>5, <1>7
<1>9. \A i \in 1..n : f[i] = c[i]
  <2> DEFINE S == { i \in 1..n : f[i] = c[i] }
  <2>1. 1 \in S
    <3>1. f[1] = E(f)[1] /\ 1 \in 1..n
      <4> HIDE DEF E
      <4> QED BY <1>2, <1>8
    <3>2. E(f)[1] = Header
      BY <1>2
    <3> HIDE DEF E
    <3> QED BY <1>2, <3>1, <3>2
  <2>2. ASSUME NEW i \in 1..n, i \in S /\ i # n PROVE i + 1 \in S
    <3>1. i + 1 \in 1..n /\ (i + 1) - 1 = i /\ i + 1 # 1 /\ f[i] = c[i]
      BY <1>2, <2>2
    <3>2. /\ E(f)[i + 1] = IF f[i] = Null THEN Null ELSE succ[f[i]]
          /\ E(c)[i + 1] = IF c[i] = Null THEN Null ELSE succ[c[i]]
      BY <3>1
    <3>3. f[i + 1] = E(f)[i + 1] /\ c[i + 1] = E(c)[i + 1]
      <4> HIDE DEF E
      <4> QED BY <1>7, <1>8
    <3> HIDE DEF E
    <3> QED BY <3>1, <3>2, <3>3
  <2>3. \A i \in 1..n : i \in S
    <3> HIDE DEF S
    <3> QED BY <1>2, <2>1, <2>2, UpFrom
  <2> QED BY <2>3
<1>10. f = [i \in 1..n |-> f[i]] /\ c = [i \in 1..n |-> c[i]]
  <2>1. f = [i \in 1..n |-> f[i]]
    <3>1. DOMAIN f = 1..n
      BY <1>8
    <3>2. E(f) = [i \in 1..n |-> E(f)[i]]
      OBVIOUS
    <3> HIDE DEF E
    <3> QED BY <1>8, <3>2
  <2>2. c = [i \in 1..n |-> c[i]]
    BY <1>1, <1>2
  <2> QED BY <2>1, <2>2
<1>11. f = c
  BY <1>9, <1>10
<1> QED BY <1>6, <1>11

(* It is so in every state, the next one too.                               *)
LEMMA OrderFound ==
  \A c : Chained(c) => List!Order = c
BY OrderIsChain

(* The next state's order is the next state's chain.                        *)
LEMMA OrderFoundNext ==
  (\A c : Chained(c) => List!Order = c)'
BY OrderFound, PTL

(* An insertion puts the new node in the chain, behind this one or before   *)
(* it, and nowhere else.                                                    *)
LEMMA InsertsInChain ==
  ASSUME ChainInv, NEW n \in List!Allocated, NEW p \in Nodes
  PROVE  /\ List!InsertAsSucc(n, p) =>
              ChainInv' /\ List!Order' = List!InsertAt(List!Order, List!At(n) + 1, p)
         /\ List!InsertAsPred(n, p) =>
              ChainInv' /\ List!Order' = List!InsertAt(List!Order, List!At(n), p)
<1>1. PICK c : Chained(c)
  BY DEF ChainInv
<1>2. /\ c \in Seq(Linked) /\ Len(c) \in Nat \ {0, 1}
      /\ \A i, j \in 1..Len(c) : c[i] = c[j] => i = j
      /\ c[1] = Header /\ c[Len(c)] = Tailer
  BY <1>1, ChainMeans
<1>3. List!Order = c
  BY <1>1, OrderIsChain
<1>4. PICK j \in 1..Len(c) : c[j] = n
  BY <1>1 DEF Chained, Members, List!Allocated
<1>5. List!At(n) = j
  <2>1. List!At(n) = CHOOSE k \in 1..Len(c) : c[k] = n
    BY <1>3 DEF List!At
  <2>2. (CHOOSE k \in 1..Len(c) : c[k] = n) \in 1..Len(c) /\ c[CHOOSE k \in 1..Len(c) : c[k] = n] = n
    BY <1>4
  <2> QED BY <1>2, <1>4, <2>1, <2>2
<1>6. ASSUME NEW k \in 1..(Len(c) - 1), p \notin DOMAIN succ, Wedged(c, k, p)
      PROVE  ChainInv' /\ List!Order' = Spliced(c, k, p)
  <2>1. Chained(Spliced(c, k, p))'
    BY <1>1, <1>6, WedgedIn
  <2>2. PICK d : d = Spliced(c, k, p)
    OBVIOUS
  <2>3. Chained(d)'
    BY <2>1, <2>2
  <2>4. List!Order' = d
    BY <2>3, OrderFoundNext
  <2> QED BY <2>2, <2>3, <2>4 DEF ChainInv
<1>7. ASSUME List!InsertAsSucc(n, p)
      PROVE  ChainInv' /\ List!Order' = List!InsertAt(List!Order, List!At(n) + 1, p)
  <2>1. n # Tailer /\ p \notin DOMAIN succ
    BY <1>7 DEF List!InsertAsSucc, List!Allocated
  <2>2. j \in 1..(Len(c) - 1)
    BY <1>2, <1>4, <2>1
  <2>3. Wedged(c, j, p)
    BY <1>1, <1>4, <1>7, <2>1, <2>2, InsertsWedge
  <2>4. Spliced(c, j, p) = List!InsertAt(c, j + 1, p)
    <3>1. (j + 1) - 1 = j
      BY <1>4
    <3> QED BY <3>1 DEF Spliced, List!InsertAt
  <2> QED BY <1>3, <1>5, <1>6, <2>1, <2>2, <2>3, <2>4
<1>8. ASSUME List!InsertAsPred(n, p)
      PROVE  ChainInv' /\ List!Order' = List!InsertAt(List!Order, List!At(n), p)
  <2>1. n # Header /\ p \notin DOMAIN succ
    BY <1>8 DEF List!InsertAsPred, List!Allocated
  <2>2. PICK k \in 1..(Len(c) - 1) : k = j - 1 /\ k + 1 = j
    BY <1>2, <1>4, <2>1
  <2>3. Wedged(c, k, p)
    BY <1>1, <1>4, <1>8, <2>1, <2>2, InsertsWedge
  <2>4. Spliced(c, k, p) = List!InsertAt(c, j, p)
    BY <2>2 DEF Spliced, List!InsertAt
  <2> QED BY <1>3, <1>5, <1>6, <2>1, <2>2, <2>3, <2>4
<1> QED BY <1>7, <1>8

(* Every insertion.                                                         *)
LEMMA ChainNext ==
  ASSUME ChainInv, List!Next
  PROVE  ChainInv'
BY InsertsInChain DEF List!Next

(* Where the new node is: the action property's body.                       *)
LEMMA InsertsBesideStep ==
  ASSUME ChainInv
  PROVE  \A n \in List!Allocated, p \in Nodes :
           /\ List!InsertAsPred(n, p) => List!Order' = List!InsertAt(List!Order, List!At(n), p)
           /\ List!InsertAsSucc(n, p) => List!Order' = List!InsertAt(List!Order, List!At(n) + 1, p)
BY InsertsInChain

(* The list's type invariant, and that its links agree.                     *)
LEMMA ChainTells ==
  ASSUME ChainInv
  PROVE  List!TypeOK /\ List!LinksAgree
<1>1. PICK c : Chained(c)
  BY DEF ChainInv
<1>2. PICK n : n = Len(c)
  OBVIOUS
<1>3. /\ c \in Seq(Linked) /\ n \in Nat \ {0, 1}
      /\ \A i \in 1..n : c[i] \in Linked
      /\ \A i, j \in 1..n : c[i] = c[j] => i = j
      /\ c[1] = Header /\ c[n] = Tailer
      /\ \A i \in 1..n : succ[c[i]] = IF i = n THEN Null ELSE c[i + 1]
      /\ \A i \in 1..n : pred[c[i]] = IF i = 1 THEN Null ELSE c[i - 1]
      /\ Null \notin Linked
  BY <1>1, <1>2, ChainMeans
<1>4. PICK M : M = { c[i] : i \in 1..n }
  OBVIOUS
<1>5. /\ List!Allocated = M /\ DOMAIN succ = M /\ DOMAIN pred = M
      /\ succ = [m \in M |-> succ[m]] /\ pred = [m \in M |-> pred[m]]
  BY <1>1, <1>2, <1>4 DEF Chained, Members, List!Allocated
<1>6. ASSUME NEW m \in M
      PROVE  /\ m \in Linked
             /\ (succ[m] = Null <=> m = Tailer) /\ (pred[m] = Null <=> m = Header)
             /\ succ[m] \in M \cup {Null} /\ pred[m] \in M \cup {Null}
  <2>1. PICK i \in 1..n : c[i] = m
    BY <1>4
  <2>2. m \in Linked /\ (m = Tailer <=> i = n) /\ (m = Header <=> i = 1)
    BY <1>3, <2>1
  <2>3. succ[m] = IF i = n THEN Null ELSE c[i + 1]
    BY <1>3, <2>1
  <2>4. pred[m] = IF i = 1 THEN Null ELSE c[i - 1]
    BY <1>3, <2>1
  <2>5. i # n => i + 1 \in 1..n
    BY <1>3
  <2>6. i # 1 => i - 1 \in 1..n
    BY <1>3
  <2>7. i # n => c[i + 1] \in M /\ c[i + 1] # Null
    BY <1>3, <1>4, <2>5
  <2>8. i # 1 => c[i - 1] \in M /\ c[i - 1] # Null
    BY <1>3, <1>4, <2>6
  <2> QED BY <2>2, <2>3, <2>4, <2>7, <2>8
<1>7. List!TypeOK
  <2>1. succ \in [M -> M \cup {Null}] /\ pred \in [M -> M \cup {Null}]
    <3>1. (\A m \in M : succ[m] \in M \cup {Null}) /\ (\A m \in M : pred[m] \in M \cup {Null})
      BY <1>6
    <3> QED BY <1>5, <3>1
  <2>2. M \subseteq Nodes \cup List!Outermost
    BY <1>6 DEF Linked, List!Outermost
  <2> QED BY <1>5, <1>6, <2>1, <2>2 DEF List!TypeOK
<1>8. List!Order = c
  BY <1>1, OrderIsChain
<1>9. DOMAIN c = 1..n
  BY <1>2, <1>3
<1>10. List!LinksAgree
  <2>1. List!ToSet(c) = M
    BY <1>4, <1>9 DEF List!ToSet
  <2>2. List!Last(c) = Tailer
    BY <1>2, <1>3 DEF List!Last
  <2>3. \A k \in 2..n : pred[c[k]] = c[k - 1]
    BY <1>3
  <2> QED BY <1>2, <1>5, <1>8, <2>1, <2>2, <2>3 DEF List!LinksAgree
<1> QED BY <1>7, <1>10

-----------------------------------------------------------------------------
(* The components together: a step of one leaves the others as they are. *)

(* The invariants of all the components.                                    *)
ObjectsInv ==
  /\ OptionalInv /\ LazyInv /\ VariantInv /\ PoolInv /\ ChainInv /\ ListInv
  /\ part # "Ioc" => HoldersInv
  /\ part = "Ioc" => IocInv
  /\ part = "Traits" => TraitsInv

(* Optionals and lazies that stay as they are.                              *)
LEMMA OptionalsStay ==
  ASSUME OptionalInv, LazyInv, part' = part, UNCHANGED forOptional
  PROVE  OptionalInv' /\ LazyInv'
<1>1. /\ opt' = opt /\ misread' = misread /\ func' = func /\ ended' = ended
      /\ loads' = loads /\ stray' = stray
  BY DEF forOptional, forLazy
<1> QED BY <1>1 DEF OptionalInv, LazyInv, Slots

(* Anys and the container that stay as they are.                            *)
LEMMA HoldersStay ==
  ASSUME UNCHANGED forAny
  PROVE  (HoldersInv => HoldersInv') /\ (IocInv => IocInv')
<1>1. /\ any' = any /\ heap' = heap /\ hollow' = hollow /\ crashed' = crashed
      /\ answers' = answers
  BY DEF forAny
<1>2. HoldersInv => HoldersInv'
  BY <1>1 DEF HoldersInv, Holdings, Things, Holders!Gone
<1>3. IocInv => IocInv'
  BY <1>1 DEF IocInv, Holdings, Things, Answered
<1> QED BY <1>2, <1>3

(* Variants that stay as they are.                                          *)
LEMMA VariantsStay ==
  ASSUME VariantInv, UNCHANGED forVariant
  PROVE  VariantInv'
<1>1. /\ var' = var /\ lost' = lost /\ assigns' = assigns /\ torn' = torn
      /\ confused' = confused
  BY DEF forVariant
<1> QED BY <1>1 DEF VariantInv, Shells, Shell, Strays, Stray

(* A pool that stays as it is.                                              *)
LEMMA PoolStays ==
  ASSUME PoolInv, UNCHANGED forPool
  PROVE  PoolInv'
<1>1. /\ open' = open /\ stored' = stored /\ held' = held /\ deleted' = deleted
      /\ gets' = gets
  BY DEF forPool
<1>2. Shelved' = Shelved /\ \A k \in Keys : Shelf(k)' = Shelf(k)
  BY <1>1 DEF Shelved, Shelf
<1>3. PoolTypes'
  BY <1>1 DEF PoolInv, PoolTypes, PoolEntries
<1>4. PoolOrder'
  BY <1>1, <1>2 DEF PoolInv, PoolOrder
<1>5. PoolHomes(Shelved, held, deleted, gets)'
  BY <1>1, <1>2 DEF PoolInv, PoolHomes
<1> QED BY <1>1, <1>2, <1>3, <1>4, <1>5 DEF PoolInv

(* Nodes that stay as they are.                                             *)
LEMMA ChainStays ==
  ASSUME ChainInv, pred' = pred, succ' = succ
  PROVE  ChainInv'
<1>1. PICK c : Chained(c)
  BY DEF ChainInv
<1>2. Chained(c)'
  BY <1>1 DEF Chained, ListFrom, Linked
<1> QED BY <1>2 DEF ChainInv

(* A list of types and traits that stay as they are.                        *)
LEMMA TypesStay ==
  ASSUME part' = part
  PROVE  /\ ListInv /\ list' = list => ListInv'
         /\ TraitsInv /\ UNCHANGED << given, lvalue, at >> => TraitsInv'
<1>1. ASSUME ListInv, list' = list PROVE ListInv'
  BY <1>1 DEF ListInv
<1>2. ASSUME TraitsInv, given' = given, lvalue' = lvalue, at' = at PROVE TraitsInv'
  <2>1. \A o : Traits!Deduced(o)' = Traits!Deduced(o) /\ (Good(o)' <=> Good(o))
    BY <1>2 DEF Good, Traits!Deduced
  <2> QED BY <1>2, <2>1 DEF TraitsInv
<1> QED BY <1>1, <1>2

(* The invariants hold at the beginning.                                    *)
LEMMA ObjectsBegin ==
  ASSUME Init
  PROVE  ObjectsInv
<1>1. /\ Lazies!LazyInit /\ Old!Init /\ Pool!Init /\ List!Init /\ Lists!Init
  BY DEF Init
<1>2. OptionalInv /\ LazyInv
  BY <1>1, LazyBegins
<1>3. VariantInv
  BY <1>1, VariantBegins
<1>4. PoolInv
  BY <1>1, PoolBegins
<1>5. ChainInv
  BY <1>1, ChainBegins
<1>6. ListInv
  BY <1>1 DEF Lists!Init, ListInv
<1>7. part # "Ioc" => HoldersInv
  BY HoldersBegin DEF Init
<1>8. part = "Ioc" => IocInv
  BY IocBegins DEF Init
<1>9. part = "Traits" => TraitsInv
  BY TraitsBegin DEF Init
<1> QED BY <1>2, <1>3, <1>4, <1>5, <1>6, <1>7, <1>8, <1>9 DEF ObjectsInv

(* Every step keeps them, and what a step is to the two components whose    *)
(* action properties are told of.                                           *)
LEMMA ObjectsStep ==
  ASSUME ObjectsInv, Next
  PROVE  /\ ObjectsInv'
         /\ misread' # misread => \E o \in Variables : Lazies!EmplaceFrom(o, o)
         /\ Pool!Next \/ UNCHANGED << stored, held, deleted, open >>
<1>0. part' = part
  BY DEF Next
<1>1. /\ OptionalInv /\ LazyInv /\ VariantInv /\ PoolInv /\ ChainInv /\ ListInv
      /\ part # "Ioc" => HoldersInv
      /\ part = "Ioc" => IocInv
      /\ part = "Traits" => TraitsInv
  BY DEF ObjectsInv
<1> DEFINE Optionals == UNCHANGED forOptional
           Anys == UNCHANGED forAny
           Variants == UNCHANGED forVariant
           Pools == UNCHANGED forPool
           Chains == UNCHANGED << pred, succ >>
           Templates == UNCHANGED forTypes
<1>2. ASSUME Anys PROVE /\ part # "Ioc" => HoldersInv'
                        /\ part = "Ioc" => IocInv'
  BY <1>1, <1>2, HoldersStay
<1>3. ASSUME Variants PROVE VariantInv'
  BY <1>1, <1>3, VariantsStay
<1>4. ASSUME Pools PROVE PoolInv' /\ UNCHANGED << stored, held, deleted, open >>
  BY <1>1, <1>4, PoolStays DEF forPool
<1>5. ASSUME Chains PROVE ChainInv'
  BY <1>1, <1>5, ChainStays
<1>6. ASSUME Templates PROVE ListInv' /\ (part = "Traits" => TraitsInv')
  <2>1. list' = list /\ UNCHANGED << given, lvalue, at >>
    BY <1>6 DEF forTypes
  <2> QED BY <1>0, <1>1, <2>1, TypesStay
<1>7. ASSUME Optionals PROVE OptionalInv' /\ LazyInv' /\ misread' = misread
  BY <1>0, <1>1, <1>7, OptionalsStay DEF forOptional
<1> DEFINE Goal == /\ ObjectsInv'
                   /\ misread' # misread => \E o \in Variables : Lazies!EmplaceFrom(o, o)
                   /\ Pool!Next \/ UNCHANGED << stored, held, deleted, open >>
<1>8. ASSUME part = "Optional", Lazies!Next, UNCHANGED forLazy, Anys, Variants, Pools, Chains, Templates
      PROVE  Goal
  <2>1. OptionalInv' /\ (misread' # misread => \E o \in Variables : Lazies!EmplaceFrom(o, o))
    BY <1>1, <1>8, OptionalNext
  <2>2. LazyInv'
    <3>1. func' = func /\ ended' = ended /\ loads' = loads /\ stray' = stray /\ part' # "Lazy"
      BY <1>0, <1>8 DEF forLazy
    <3> QED BY <1>1, <3>1 DEF LazyInv
  <2>3. VariantInv' /\ PoolInv' /\ ChainInv' /\ ListInv' /\ HoldersInv'
    BY <1>2, <1>3, <1>4, <1>5, <1>6, <1>8
  <2>4. UNCHANGED << stored, held, deleted, open >> /\ part' # "Ioc" /\ part' # "Traits"
    BY <1>0, <1>4, <1>8
  <2> QED BY <2>1, <2>2, <2>3, <2>4 DEF ObjectsInv
<1>9. ASSUME part = "Lazy", Lazies!LazyNext, Anys, Variants, Pools, Chains, Templates
      PROVE  Goal
  <2>1. PICK l \in Variables : LazyMoved(l)
    BY <1>1, <1>9, LazyMoves
  <2>2. OptionalInv' /\ LazyInv' /\ misread' = misread
    <3>1. misread' = misread
      BY <2>1 DEF LazyMoved
    <3> QED BY <1>0, <1>1, <1>9, <2>1, <3>1, LazyStays
  <2>3. VariantInv' /\ PoolInv' /\ ChainInv' /\ ListInv' /\ HoldersInv'
    BY <1>2, <1>3, <1>4, <1>5, <1>6, <1>9
  <2>4. UNCHANGED << stored, held, deleted, open >> /\ part' # "Ioc" /\ part' # "Traits"
    BY <1>0, <1>4, <1>9
  <2> QED BY <2>2, <2>3, <2>4 DEF ObjectsInv
<1>10. ASSUME part = "Any", Holders!Next, Optionals, Variants, Pools, Chains, Templates
       PROVE  Goal
  <2>1. HoldersInv'
    BY <1>1, <1>10, HoldersStep
  <2>2. OptionalInv' /\ LazyInv' /\ misread' = misread
    BY <1>7, <1>10
  <2>3. VariantInv' /\ PoolInv' /\ ChainInv' /\ ListInv'
    BY <1>3, <1>4, <1>5, <1>6, <1>10
  <2>4. UNCHANGED << stored, held, deleted, open >> /\ part' # "Ioc" /\ part' # "Traits"
    BY <1>0, <1>4, <1>10
  <2> QED BY <2>1, <2>2, <2>3, <2>4 DEF ObjectsInv
<1>11. ASSUME part = "Ioc", Ioc!IocNext, Optionals, Variants, Pools, Chains, Templates
       PROVE  Goal
  <2>1. IocInv'
    BY <1>1, <1>11, IocRegisters, IocResolves DEF Ioc!IocNext
  <2>2. OptionalInv' /\ LazyInv' /\ misread' = misread
    BY <1>7, <1>11
  <2>3. VariantInv' /\ PoolInv' /\ ChainInv' /\ ListInv'
    BY <1>3, <1>4, <1>5, <1>6, <1>11
  <2>4. UNCHANGED << stored, held, deleted, open >> /\ part' = "Ioc" /\ part' # "Traits"
    BY <1>0, <1>4, <1>11
  <2> QED BY <2>1, <2>2, <2>3, <2>4 DEF ObjectsInv
<1>12. ASSUME \/ part = "Variant" /\ Old!Next
              \/ part = "VariantNew" /\ New!Next,
              Optionals, Anys, Pools, Chains, Templates
       PROVE  Goal
  <2>1. VariantInv'
    <3>1. ~confused /\ \E x \in Variables : VariantMoves(x)
      BY <1>1, <1>12, OldMoves, NewMoves
    <3> QED BY <1>1, <3>1, VariantSteps
  <2>2. OptionalInv' /\ LazyInv' /\ misread' = misread
    BY <1>7, <1>12
  <2>3. HoldersInv' /\ PoolInv' /\ ChainInv' /\ ListInv'
    BY <1>2, <1>4, <1>5, <1>6, <1>12
  <2>4. UNCHANGED << stored, held, deleted, open >> /\ part' # "Ioc" /\ part' # "Traits"
    BY <1>0, <1>4, <1>12
  <2> QED BY <2>1, <2>2, <2>3, <2>4 DEF ObjectsInv
<1>13. ASSUME part = "Pool", Pool!Next, Optionals, Anys, Variants, Chains, Templates
       PROVE  Goal
  <2>1. PoolInv'
    BY <1>1, <1>13, PoolSteps
  <2>2. OptionalInv' /\ LazyInv' /\ misread' = misread
    BY <1>7, <1>13
  <2>3. HoldersInv' /\ VariantInv' /\ ChainInv' /\ ListInv'
    BY <1>2, <1>3, <1>5, <1>6, <1>13
  <2>4. part' # "Ioc" /\ part' # "Traits"
    BY <1>0, <1>13
  <2> QED BY <1>13, <2>1, <2>2, <2>3, <2>4 DEF ObjectsInv
<1>14. ASSUME part = "List", List!Next, Optionals, Anys, Variants, Pools, Templates
       PROVE  Goal
  <2>1. ChainInv'
    BY <1>1, <1>14, ChainNext
  <2>2. OptionalInv' /\ LazyInv' /\ misread' = misread
    BY <1>7, <1>14
  <2>3. HoldersInv' /\ VariantInv' /\ PoolInv' /\ ListInv'
    BY <1>2, <1>3, <1>4, <1>6, <1>14
  <2>4. UNCHANGED << stored, held, deleted, open >> /\ part' # "Ioc" /\ part' # "Traits"
    BY <1>0, <1>4, <1>14
  <2> QED BY <2>1, <2>2, <2>3, <2>4 DEF ObjectsInv
<1>15. ASSUME \/ part = "Lists" /\ Lists!Next /\ UNCHANGED << given, lvalue, at >>
              \/ part = "Traits" /\ Traits!Next /\ UNCHANGED list,
              Optionals, Anys, Variants, Pools, Chains
       PROVE  Goal
  <2>1. ListInv'
    BY <1>0, <1>1, <1>15, ListGrows, TypesStay
  <2>2. part = "Traits" => TraitsInv'
    BY <1>1, <1>15, TraitsStep
  <2>3. OptionalInv' /\ LazyInv' /\ misread' = misread
    BY <1>7, <1>15
  <2>4. HoldersInv' /\ VariantInv' /\ PoolInv' /\ ChainInv'
    BY <1>2, <1>3, <1>4, <1>5, <1>15
  <2>5. UNCHANGED << stored, held, deleted, open >> /\ part' # "Ioc"
    BY <1>0, <1>4, <1>15
  <2> QED BY <1>0, <2>1, <2>2, <2>3, <2>4, <2>5 DEF ObjectsInv
<1> HIDE DEF Goal
<1>16. Goal
  <2>1. CASE /\ \/ part = "Optional" /\ Lazies!Next /\ UNCHANGED forLazy
                \/ part = "Lazy" /\ Lazies!LazyNext
             /\ UNCHANGED << forAny, forVariant, forPool, pred, succ, forTypes >>
    <3>1. Anys /\ Variants /\ Pools /\ Chains /\ Templates
      BY <2>1
    <3> QED BY <1>8, <1>9, <2>1, <3>1
  <2>2. CASE /\ \/ part = "Any" /\ Holders!Next /\ UNCHANGED answers
                \/ part = "Ioc" /\ Ioc!IocNext
             /\ UNCHANGED << forOptional, forVariant, forPool, pred, succ, forTypes >>
    <3>1. Optionals /\ Variants /\ Pools /\ Chains /\ Templates
      BY <2>2
    <3> QED BY <1>10, <1>11, <2>2, <3>1
  <2>3. CASE /\ \/ part = "Variant" /\ Old!Next
                \/ part = "VariantNew" /\ New!Next
             /\ UNCHANGED << forOptional, forAny, forPool, pred, succ, forTypes >>
    <3>1. Optionals /\ Anys /\ Pools /\ Chains /\ Templates
      BY <2>3
    <3> QED BY <1>12, <2>3, <3>1
  <2>4. CASE /\ part = "Pool" /\ Pool!Next
             /\ UNCHANGED << forOptional, forAny, forVariant, pred, succ, forTypes >>
    <3>1. Optionals /\ Anys /\ Variants /\ Chains /\ Templates
      BY <2>4
    <3> QED BY <1>13, <2>4, <3>1
  <2>5. CASE /\ part = "List" /\ List!Next
             /\ UNCHANGED << forOptional, forAny, forVariant, forPool, forTypes >>
    <3>1. Optionals /\ Anys /\ Variants /\ Pools /\ Templates
      BY <2>5
    <3> QED BY <1>14, <2>5, <3>1
  <2>6. CASE /\ \/ part = "Lists" /\ Lists!Next /\ UNCHANGED << given, lvalue, at >>
                \/ part = "Traits" /\ Traits!Next /\ UNCHANGED list
             /\ UNCHANGED << forOptional, forAny, forVariant, forPool, pred, succ >>
    <3>1. Optionals /\ Anys /\ Variants /\ Pools /\ Chains
      BY <2>6
    <3> QED BY <1>15, <2>6, <3>1
  <2> HIDE DEF Optionals, Anys, Variants, Pools, Chains, Templates
  <2> QED BY <2>1, <2>2, <2>3, <2>4, <2>5, <2>6 DEF Next
<1> QED BY <1>16 DEF Goal

(* Nothing changes, nothing happens.                                        *)
LEMMA ObjectsStutter ==
  ASSUME ObjectsInv, UNCHANGED vars
  PROVE  /\ ObjectsInv'
         /\ misread' = misread /\ UNCHANGED << stored, held, deleted, open >>
<1>1. /\ part' = part /\ UNCHANGED forOptional /\ UNCHANGED forAny /\ UNCHANGED forVariant
      /\ UNCHANGED forPool /\ pred' = pred /\ succ' = succ
      /\ list' = list /\ UNCHANGED << given, lvalue, at >>
  BY DEF vars, forTypes
<1>2. OptionalInv' /\ LazyInv'
  BY <1>1, OptionalsStay DEF ObjectsInv
<1>3. VariantInv' /\ PoolInv' /\ ChainInv' /\ ListInv'
  BY <1>1, VariantsStay, PoolStays, ChainStays, TypesStay DEF ObjectsInv
<1>4. (part' # "Ioc" => HoldersInv') /\ (part' = "Ioc" => IocInv')
  BY <1>1, HoldersStay DEF ObjectsInv
<1>5. part' = "Traits" => TraitsInv'
  BY <1>1, TypesStay DEF ObjectsInv
<1>6. misread' = misread /\ UNCHANGED << stored, held, deleted, open >>
  BY <1>1 DEF forOptional, forPool
<1> QED BY <1>2, <1>3, <1>4, <1>5, <1>6 DEF ObjectsInv

(* The invariants of the components hold in every state.                    *)
THEOREM ObjectsInvariant == Spec => []ObjectsInv
<1>1. Init => ObjectsInv
  BY ObjectsBegin
<1>2. ObjectsInv /\ [Next]_vars => ObjectsInv'
  BY ObjectsStep, ObjectsStutter
<1> QED BY <1>1, <1>2, PTL DEF Spec

(* Every variable of every component is of its type, whatever is            *)
(* constructed, assigned, thrown, resolved, inserted or recycled.           *)
THEOREM ObjectsTypeCorrect == Spec => []TypeOK
<1>1. ASSUME ObjectsInv PROVE TypeOK
  <2>1. /\ OptionalInv /\ LazyInv /\ VariantInv /\ PoolInv /\ ChainInv
        /\ part # "Ioc" => HoldersInv
        /\ part = "Ioc" => IocInv
        /\ part = "Traits" => TraitsInv
    BY <1>1 DEF ObjectsInv
  <2>2. Lazies!LazyTypeOK
    BY <2>1, LazyMeans
  <2>3. Pool!TypeOK
    BY <2>1, PoolMeans
  <2>4. List!TypeOK
    BY <2>1, ChainTells
  <2>5. /\ part = "Ioc" => Ioc!TypeOK
        /\ part # "Ioc" => Holders!TypeOK
    BY <2>1, IocMeans, HoldersMean
  <2>6. Old!TypeOK /\ New!TypeOK
    BY <2>1, VariantMeans
  <2>7. part = "Traits" => Traits!TypeOK
    BY <2>1, TraitsMean
  <2> QED BY <2>2, <2>3, <2>4, <2>5, <2>6, <2>7 DEF TypeOK
<1> QED BY <1>1, ObjectsInvariant, PTL

(* The tag of an Any or a variant tells the type of its object, unless one  *)
(* was moved away or a constructor threw in an assignment; only assignments *)
(* to variants lose objects, one each at most; and only the assignment of a *)
(* variant to itself gives a constructor, a destructor or Get storage       *)
(* without such an object.                                                  *)
THEOREM TagsHold == Spec => TagsTellTruth
<1> DEFINE Tells == /\ part = "Any" => Holders!TypeTellsObject
                    /\ part = "Variant" => Old!TypeTellsTruth /\ Old!LostByAssignment
                    /\ part = "VariantNew" => New!TypeTellsTruth /\ New!LostByAssignment
           Misreads == /\ part = "Variant" => Old!MisreadsItself
                       /\ part = "VariantNew" => New!MisreadsItself
<1>1. ASSUME ObjectsInv PROVE Tells
  <2>1. VariantInv /\ (part # "Ioc" => HoldersInv)
    BY <1>1 DEF ObjectsInv
  <2>2. part = "Any" => Holders!TypeTellsObject
    BY <2>1, HoldersMean
  <2>3. /\ Old!TypeTellsTruth /\ Old!LostByAssignment
        /\ New!TypeTellsTruth /\ New!LostByAssignment
    BY <2>1, VariantMeans
  <2> QED BY <2>2, <2>3
<1>2. ASSUME ObjectsInv, [Next]_vars PROVE [Misreads]_forVariant
  <2>1. VariantInv
    BY <1>2 DEF ObjectsInv
  <2>2. CASE UNCHANGED vars
    <3>1. forVariant' = forVariant
      BY <2>2 DEF vars
    <3> QED BY <3>1
  <2>3. CASE Next
    <3>1. /\ part = "Variant" => Old!Next
          /\ part = "VariantNew" => New!Next
      BY <2>3 DEF Next
    <3>2. Misreads
      BY <2>1, <3>1, OldMisreads, NewMisreads
    <3> QED BY <3>2
  <2> QED BY <1>2, <2>2, <2>3
<1>3. Spec => []Tells
  <2> HIDE DEF Tells
  <2> QED BY <1>1, ObjectsInvariant, PTL
<1>4. Spec => [][Misreads]_forVariant
  <2> HIDE DEF Misreads
  <2> QED BY <1>2, ObjectsInvariant, PTL DEF Spec
<1> QED BY <1>3, <1>4 DEF TagsTellTruth

(* What the recursive templates answer about any list of types that a       *)
(* variant could have, who may be given to to_function, and that a key of   *)
(* the container makes objects with one constructor for good.               *)
THEOREM AnswersHold == Spec => []TypeAnswers
<1>1. ASSUME ObjectsInv PROVE TypeAnswers
  <2>1. ListInv /\ (part = "Traits" => TraitsInv) /\ (part = "Ioc" => IocInv)
    BY <1>1 DEF ObjectsInv
  <2>2. Lists!StorageFits /\ Lists!IndexesFirst /\ Lists!AbsentIndexes /\ Lists!VisitsFirst
    BY <2>1, ListMeans
  <2>3. part = "Traits" => Traits!RvaluesConvert
    BY <2>1, TraitsMean
  <2>4. part = "Ioc" => Ioc!OneConstructor
    BY <2>1, IocMeans
  <2> QED BY <2>2, <2>3, <2>4 DEF TypeAnswers
<1> QED BY <1>1, ObjectsInvariant, PTL

(* Every object of an optional, a lazy, an Any or the pool has one owner    *)
(* and ends once; an assignment copies the right side and touches nothing   *)
(* else; only who emplaces an optional from its own value reads a dead      *)
(* object; and all objects are deleted when the pool and the handles are.   *)
THEOREM OwnersOfObjectsHold == Spec => OwnedOnce
<1> DEFINE Owned == /\ Lazies!FlagTellsLife
                    /\ part = "Lazy" => Lazies!LoadedOnce /\ Lazies!NeverMisreads
                    /\ part = "Any" => Holders!OwnedOnce
                    /\ part = "Pool" => Pool!OneHome /\ Pool!RecycledOnce /\ Pool!NoHandleOutlivesPool
           Copies == \A o, p \in Variables : Lazies!Assign(o, p) =>
                       /\ Lazies!Val(o)' \in {Lazies!Val(p), Null}
                       /\ opt[p].has_init \/ Lazies!Val(o)' = Null
                       /\ \A q \in Variables \ {o} : opt'[q] = opt[q]
           Misreads == misread' # misread => \E o \in Variables : Lazies!EmplaceFrom(o, o)
           Deleted == ~open' /\ held' = {} => Pool!Made \subseteq deleted'
<1>1. ASSUME ObjectsInv PROVE Owned
  <2>1. OptionalInv /\ LazyInv /\ PoolInv /\ (part # "Ioc" => HoldersInv)
    BY <1>1 DEF ObjectsInv
  <2>2. Lazies!FlagTellsLife /\ (part = "Lazy" => Lazies!LoadedOnce /\ Lazies!NeverMisreads)
    BY <2>1, LazyMeans
  <2>3. part = "Any" => Holders!OwnedOnce
    BY <2>1, HoldersMean
  <2>4. Pool!OneHome /\ Pool!RecycledOnce /\ Pool!NoHandleOutlivesPool
    BY <2>1, PoolMeans
  <2> QED BY <2>2, <2>3, <2>4
<1>2. ASSUME ObjectsInv, [Next]_vars PROVE [Copies]_<< opt, misread >>
  <2>1. Copies
    BY <1>2, LazyAssigns DEF ObjectsInv
  <2> QED BY <2>1
<1>3. ASSUME ObjectsInv, [Next]_vars PROVE [Misreads]_<< opt, misread >>
  <2>1. Misreads
    BY <1>3, ObjectsStep, ObjectsStutter
  <2> QED BY <2>1
<1>4. ASSUME ObjectsInv, [Next]_vars PROVE [Deleted]_Pool!vars
  <2>1. PoolInv /\ (Pool!Next \/ UNCHANGED << stored, held, deleted, open >>)
    BY <1>4, ObjectsStep, ObjectsStutter DEF ObjectsInv
  <2>2. Deleted
    BY <2>1, PoolDeletesAll
  <2> QED BY <2>2
<1>5. Spec => []Owned
  <2> HIDE DEF Owned
  <2> QED BY <1>1, ObjectsInvariant, PTL
<1>6. Spec => [][Copies]_<< opt, misread >>
  <2> HIDE DEF Copies
  <2> QED BY <1>2, ObjectsInvariant, PTL DEF Spec
<1>7. Spec => [][Misreads]_<< opt, misread >>
  <2> HIDE DEF Misreads
  <2> QED BY <1>3, ObjectsInvariant, PTL DEF Spec
<1>8. Spec => [][Deleted]_Pool!vars
  <2> HIDE DEF Deleted
  <2> QED BY <1>4, ObjectsInvariant, PTL DEF Spec
<1>9. Lazies!AssignCopies <=> [][Copies]_<< opt, misread >>
  BY DEF Lazies!AssignCopies, Lazies!vars
<1>10. Lazies!MisreadsOwnValueOnly <=> [][Misreads]_<< opt, misread >>
  BY DEF Lazies!MisreadsOwnValueOnly, Lazies!vars
<1>11. Pool!AllDeleted <=> [][Deleted]_Pool!vars
  BY DEF Pool!AllDeleted
<1> QED BY <1>5, <1>6, <1>7, <1>8, <1>9, <1>10, <1>11 DEF OwnedOnce

(* The links of both directions tell of one list, whatever was inserted     *)
(* beside what, and an insertion puts the new node beside the one it names. *)
THEOREM LinksHold == Spec => LinksAgree
<1> DEFINE Beside == \A n \in List!Allocated, p \in Nodes :
             /\ List!InsertAsPred(n, p) => List!Order' = List!InsertAt(List!Order, List!At(n), p)
             /\ List!InsertAsSucc(n, p) => List!Order' = List!InsertAt(List!Order, List!At(n) + 1, p)
           Agree == part = "List" => List!LinksAgree
<1>1. ASSUME ObjectsInv PROVE Agree
  BY <1>1, ChainTells DEF ObjectsInv
<1>2. ASSUME ObjectsInv, [Next]_vars PROVE [Beside]_List!vars
  <2>1. Beside
    BY <1>2, InsertsBesideStep DEF ObjectsInv
  <2> QED BY <2>1
<1>3. Spec => []Agree
  <2> HIDE DEF Agree
  <2> QED BY <1>1, ObjectsInvariant, PTL
<1>4. Spec => [][Beside]_List!vars
  <2> HIDE DEF Beside
  <2> QED BY <1>2, ObjectsInvariant, PTL DEF Spec
<1>5. List!InsertsBeside <=> [][Beside]_List!vars
  BY DEF List!InsertsBeside
<1> QED BY <1>3, <1>4, <1>5 DEF LinksAgree

=============================================================================
