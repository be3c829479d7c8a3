----------------------------- MODULE ScopeGuard -----------------------------
(***************************************************************************)
(* ScopeGuard<F> of include/scope_guard.hpp: a function that is run when   *)
(* the guard is destroyed, unless the guard was dismissed.  Guards are     *)
(* moved; what is left of an F that was moved from may be empty, as a      *)
(* std::function is, or callable all the same, as a plain lambda is.       *)
(***************************************************************************)
EXTENDS Naturals, FiniteSets

CONSTANTS
  Guards,      \* the variables of type ScopeGuard
  Functions,   \* what they are to run, each given to one constructor
  Empty

VARIABLES
  guard,       \* fun_ and dismiss_ of each guard, and whether it exists
  given,       \* the functions that were given to a constructor
  dismissed,   \* history: those whose guard was dismissed
  runs         \* history: how often each was run

vars == << guard, given, dismissed, runs >>

Gone == [here |-> FALSE, fun |-> Empty, dismiss |-> FALSE]

Init ==
  /\ guard = [g \in Guards |-> Gone]
  /\ given = {} /\ dismissed = {}
  /\ runs = [f \in Functions |-> 0]

Construct(g, f) ==
  /\ ~guard[g].here /\ f \notin given
  /\ guard' = [guard EXCEPT ![g] = [here |-> TRUE, fun |-> f, dismiss |-> FALSE]]
  /\ given' = given \cup {f}
  /\ UNCHANGED << dismissed, runs >>

(* Slip: the guard that was moved from is not dismissed. *)
LeftAsIs(h) == [here |-> TRUE, fun |-> guard[h].fun, dismiss |-> guard[h].dismiss]

(* rhs.Dismiss(). *)
MovedFrom(h) == [here |-> TRUE, fun |-> guard[h].fun, dismiss |-> TRUE]

Dismissal(h) == guard[h].dismiss

Move(g, h) ==
  /\ ~guard[g].here /\ guard[h].here
  /\ \E rest \in {Empty, guard[h].fun} :
       guard' = [guard EXCEPT
         ![g] = [here |-> TRUE, fun |-> guard[h].fun, dismiss |-> Dismissal(h)],
         ![h] = [MovedFrom(h) EXCEPT !.fun = rest]]
  /\ UNCHANGED << given, dismissed, runs >>

Armed(g) == guard[g].here /\ ~guard[g].dismiss /\ guard[g].fun # Empty

Dismiss(g) ==
  /\ guard[g].here
  /\ guard' = [guard EXCEPT ![g].dismiss = TRUE]
  /\ dismissed' = IF Armed(g) THEN dismissed \cup {guard[g].fun} ELSE dismissed
  /\ UNCHANGED << given, runs >>

After(g) == Gone

(* The end of the scope, by an exception or not.  (If the function throws,  *)
(* the process ends.)                                                       *)
Destruct(g) ==
  /\ guard[g].here
  /\ runs' = IF Armed(g) THEN [runs EXCEPT ![guard[g].fun] = @ + 1] ELSE runs
  /\ guard' = [guard EXCEPT ![g] = After(g)]
  /\ UNCHANGED << given, dismissed >>

Next == \E g \in Guards :
  \/ Dismiss(g) \/ Destruct(g)
  \/ \E f \in Functions : Construct(g, f)
  \/ \E h \in Guards : Move(g, h)

Spec == Init /\ [][Next]_vars

-----------------------------------------------------------------------------
(* Properties. *)

(* Type invariant. *)
TypeOK ==
  /\ guard \in [Guards -> [here : BOOLEAN, fun : Functions \cup {Empty}, dismiss : BOOLEAN]]
  /\ \A g \in Guards : ~guard[g].here => guard[g] = Gone
  /\ given \subseteq Functions /\ dismissed \subseteq given
  /\ runs \in [Functions -> Nat]

Holders(f) == { g \in Guards : Armed(g) /\ guard[g].fun = f }

(* However guards are moved, and dismissed before or after a move, each     *)
(* function is run once, dismissed, or still due in exactly one guard.      *)
RunsOnce == \A f \in given :
  runs[f] + Cardinality(Holders(f)) + (IF f \in dismissed THEN 1 ELSE 0) = 1

=============================================================================
