-------------------------------- MODULE Lazy --------------------------------
(***************************************************************************)
(* Lazy<T> of include/lazy.hpp and the function lazy(): an Optional value_ *)
(* that the first Value() fills with what func_ returns.  func_ is a       *)
(* closure on references to the locals of Lazy's constructor.  One thread  *)
(* uses the lazies; optional l of Optional.tla is value_ of lazy l.        *)
(***************************************************************************)
EXTENDS Optional

VARIABLES
  func,     \* func_ of each lazy: none, or a closure
  ended,    \* the constructor that made the closure has returned
  loads,    \* history: the calls of func_ that filled value_, of this lazy or
            \* of the one it was copied from
  stray     \* func_ was called after what it refers to had ended

lazyVars == << opt, misread, func, ended, loads, stray >>

LazyInit ==
  /\ Init
  /\ func = [l \in Optionals |-> "none"]
  /\ ended = [l \in Optionals |-> TRUE]
  /\ loads = [l \in Optionals |-> 0]
  /\ stray = FALSE

LazyDefault(l) ==
  /\ DefaultConstruct(l)
  /\ UNCHANGED << func, ended, loads, stray >>

LazyBegin(l) ==
  /\ DefaultConstruct(l)
  /\ func' = [func EXCEPT ![l] = "closure"]
  /\ ended' = [ended EXCEPT ![l] = FALSE]
  /\ UNCHANGED << loads, stray >>

(* The constructor returns: nobody can use the lazy before that. *)
LazyReturn(l) ==
  /\ ~ended[l]
  /\ ended' = [ended EXCEPT ![l] = TRUE]
  /\ UNCHANGED << opt, misread, func, loads, stray >>

Made(l) == opt[l].here /\ ended[l]

NeedsValue(l) == ~opt[l].has_init

(* What func_ returns makes a temporary Optional, which is assigned to      *)
(* value_ and destroyed.  func_ or a copy of what it returned may throw.    *)
(* What func_ does when its references have ended is undefined: here it     *)
(* returns some value or throws all the same.                               *)
Value(l) ==
  /\ Made(l) /\ NeedsValue(l) /\ func[l] # "none"
  /\ stray' = (stray \/ ended[l])
  /\ \E v \in Values : \E s \in Creations(Destroy(opt[l]), v) \cup {opt[l]} :
       /\ Put(l, s)
       /\ loads' = [loads EXCEPT ![l] = IF s # opt[l] THEN @ + 1 ELSE @]
  /\ UNCHANGED << misread, func, ended >>

(* The copy operations are the compiler's: func_, then value_. *)
CopiedLoads(l, m) ==
  loads' = [loads EXCEPT ![l] = IF opt'[l].has_init THEN loads[m] ELSE 0]

LazyCopy(l, m) ==
  /\ Made(m) /\ CopyConstruct(l, m)
  /\ func' = [func EXCEPT ![l] = func[m]]
  /\ CopiedLoads(l, m)
  /\ UNCHANGED << ended, stray >>

LazyAssign(l, m) ==
  /\ Made(l) /\ Made(m) /\ Assign(l, m)
  /\ func' = [func EXCEPT ![l] = func[m]]
  /\ CopiedLoads(l, m)
  /\ UNCHANGED << ended, stray >>

LazyDestruct(l) ==
  /\ Made(l) /\ Destruct(l)
  /\ func' = [func EXCEPT ![l] = "none"]
  /\ loads' = [loads EXCEPT ![l] = 0]
  /\ UNCHANGED << ended, stray >>

LazyNext == \E l \in Optionals :
  \/ LazyDefault(l) \/ LazyBegin(l) \/ LazyReturn(l) \/ Value(l) \/ LazyDestruct(l)
  \/ \E m \in Optionals : LazyCopy(l, m) \/ LazyAssign(l, m)

LazySpec == LazyInit /\ [][LazyNext]_lazyVars

-----------------------------------------------------------------------------
(* Properties. *)

(* Type invariant. *)
LazyTypeOK ==
  /\ TypeOK
  /\ func \in [Optionals -> {"none", "closure"}]
  /\ ended \in [Optionals -> BOOLEAN]
  /\ loads \in [Optionals -> 0..1]
  /\ stray \in BOOLEAN

(* A value comes from exactly one call of func_, also through copies, and   *)
(* a call that threw, or whose value could not be copied, leaves the lazy   *)
(* without one, so that the next Value() calls again.                       *)
LoadedOnce ==
  \A l \in Optionals : loads[l] = IF opt[l].has_init THEN 1 ELSE 0

(* No value is read from a value_ that has none. *)
NeverMisreads == ~misread

=============================================================================
