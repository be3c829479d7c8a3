----------------------------- MODULE ObjectPool -----------------------------
(***************************************************************************)
(* ObjectPool of include/object_pool.hpp, used by one thread as in         *)
(* test_object_pool of src/main.cpp: Init fills the pool, Get hands out a  *)
(* shared_ptr, and letting the last copy of it go runs its deleter.  The   *)
(* deleter of an object made by Init puts it back as a shared_ptr that has *)
(* the ordinary deleter.                                                   *)
(***************************************************************************)
EXTENDS Naturals, Sequences, FiniteSets, SequencesExt

CONSTANTS
  Objects,        \* the objects T that new may make
  Keys,           \* the constructor signatures
  MaxObjectNum    \* MAX_OBJECT_NUM: the most that one Init makes

VARIABLES
  open,      \* the pool has not been destroyed
  stored,    \* object_map_: the entries of each key, in order
  held,      \* the entries the client holds
  deleted,   \* the objects deleted
  gets       \* history: how often each object was handed out

vars == << open, stored, held, deleted, gets >>

(* back: the deleter is the one of Init, which puts the object back. *)
Entry(o, k, b) == [obj |-> o, key |-> k, back |-> b]

Stored == UNION { ToSet(stored[k]) : k \in Keys }
Made == { e.obj : e \in Stored \cup held } \cup deleted

Init ==
  /\ open = TRUE
  /\ stored = [k \in Keys |-> << >>]
  /\ held = {} /\ deleted = {}
  /\ gets = [o \in Objects |-> 0]

(* Other sizes throw and change nothing.  An Init whose constructor throws *)
(* leaves what an Init of fewer objects makes.                              *)
InitPool(k, new) ==
  /\ open /\ Cardinality(new) \in 1..MaxObjectNum
  /\ new \cap Made = {}
  /\ stored' = [stored EXCEPT ![k] = @ \o SetToSeq({ Entry(o, k, TRUE) : o \in new })]
  /\ UNCHANGED << open, held, deleted, gets >>

Rest(entries) == Tail(entries)

Get(k) ==
  /\ open /\ stored[k] # << >>
  /\ stored' = [stored EXCEPT ![k] = Rest(@)]
  /\ held' = held \cup {Head(stored[k])}
  /\ gets' = [gets EXCEPT ![Head(stored[k]).obj] = @ + 1]
  /\ UNCHANGED << open, deleted >>

Returned(e) == Entry(e.obj, e.key, FALSE)

(* The client lets the last copy of a handle go. *)
PutBack(e) ==
  /\ e \in held /\ e.back /\ open
  /\ held' = held \ {e}
  /\ stored' = [stored EXCEPT ![e.key] = Append(@, Returned(e))]
  /\ UNCHANGED << open, deleted, gets >>

Delete(e) ==
  /\ e \in held /\ ~e.back
  /\ held' = held \ {e}
  /\ deleted' = deleted \cup {e.obj}
  /\ UNCHANGED << open, stored, gets >>

DeletedWithPool == { e.obj : e \in Stored }

(* The handles are declared after the pool: they go first. *)
HandlesGone == held = {}

Destroy ==
  /\ open /\ HandlesGone
  /\ open' = FALSE
  /\ stored' = [k \in Keys |-> << >>]
  /\ deleted' = deleted \cup DeletedWithPool
  /\ UNCHANGED << held, gets >>

Next ==
  \/ \E k \in Keys : Get(k) \/ \E new \in SUBSET Objects : InitPool(k, new)
  \/ \E e \in held : PutBack(e) \/ Delete(e)
  \/ Destroy

Spec == Init /\ [][Next]_vars

-----------------------------------------------------------------------------
(* Properties. *)

Entries == [obj : Objects, key : Keys, back : BOOLEAN]

(* Type invariant. *)
TypeOK ==
  /\ open \in BOOLEAN
  /\ stored \in [Keys -> Seq(Entries)]
  /\ held \subseteq Entries
  /\ deleted \subseteq Objects
  /\ gets \in [Objects -> 0..2]

(* An object is in one place: in the map once, with one client, or deleted, *)
(* and nobody holds an object that has been deleted.                        *)
OneHome ==
  /\ \A k \in Keys : \A i, j \in 1..Len(stored[k]) :
       stored[k][i].obj = stored[k][j].obj => i = j
  /\ \A e, f \in Stored \cup held : e.obj = f.obj => e = f
  /\ Stored \cap held = {}
  /\ deleted \cap { e.obj : e \in Stored \cup held } = {}

(* The pool recycles an object once: the second handle that lets it go      *)
(* deletes it, so that a pool drains unless Init is called again.           *)
RecycledOnce ==
  \A o \in Objects : /\ gets[o] <= 2
                     /\ gets[o] = 2 => \A e \in Stored : e.obj # o

(* A handle declared after the pool never meets the destroyed pool in its   *)
(* deleter.                                                                 *)
NoHandleOutlivesPool == ~open => \A e \in held : ~e.back

(* Once the pool is destroyed and no handle is left, every object that Init *)
(* or a deleter stored has been deleted.                                    *)
AllDeleted == [][ ~open' /\ held' = {} => Made \subseteq deleted' ]_vars

=============================================================================
