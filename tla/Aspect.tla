------------------------------- MODULE Aspect -------------------------------
(***************************************************************************)
(* Aspect<Fun, Args...> and the function Invoke of include/aspect.hpp: a   *)
(* function called between the Befores and Afters of aspects 1..n.  Each   *)
(* of these calls forwards the same argument, takes it by value or by      *)
(* reference, and may throw.                                               *)
(***************************************************************************)
EXTENDS Naturals, Sequences

CONSTANT MaxAspects   \* bound: how many aspects

Fun == "fun"
Aspects == 1..MaxAspects
Places == { << m, i >> : m \in {"Before", "After"}, i \in Aspects } \cup { << Fun, 0 >> }

VARIABLES
  n,         \* the number of aspects
  has,       \* the members that the last aspect has
  rvalue,    \* the argument is an rvalue
  byvalue,   \* the calls that take it by value
  at,        \* the call that comes next, or how Invoke ended
  whole,     \* the argument has not been moved from
  log        \* history: the calls made, and whether each found it whole

vars == << n, has, rvalue, byvalue, at, whole, log >>

(* An Invoke with aspects i..n begins with a Before, if the last one has it. *)
Enter(i) ==
  IF i = n /\ "Before" \notin has THEN << Fun, 0 >> ELSE << "Before", i >>

Inner(i) == IF i < n THEN Enter(i + 1) ELSE << Fun, 0 >>

(* What is left when the Invoke with aspects i + 1..n returns. *)
Outer(i) == IF i = 0 THEN << "returned", 0 >> ELSE << "After", i >>

AfterFun == IF "After" \in has THEN << "After", n >> ELSE Outer(n - 1)

Init ==
  /\ n \in Aspects
  /\ has \in (SUBSET {"Before", "After"}) \ {{}}
  /\ rvalue \in BOOLEAN
  /\ byvalue \in SUBSET { p \in Places : p[2] <= n }
  /\ at = Enter(1) /\ whole = TRUE /\ log = << >>

(* std::forward gives an rvalue away, to whoever takes it by value. *)
Forwarded == whole /\ ~(rvalue /\ at \in byvalue)

Call(next) ==
  /\ log' = Append(log, << at, whole >>)
  /\ whole' = Forwarded
  /\ \/ at' = next
     \/ at' = << "threw", 0 >>
  /\ UNCHANGED << n, has, rvalue, byvalue >>

Before == at[1] = "Before" /\ Call(Inner(at[2]))
CallFun == at[1] = Fun /\ Call(AfterFun)
After == at[1] = "After" /\ Call(Outer(at[2] - 1))

Next == Before \/ CallFun \/ After

Spec == Init /\ [][Next]_vars

-----------------------------------------------------------------------------
(* Properties. *)

(* Type invariant. *)
TypeOK ==
  /\ n \in Aspects /\ has \subseteq {"Before", "After"}
  /\ byvalue \subseteq Places /\ rvalue \in BOOLEAN /\ whole \in BOOLEAN
  /\ at \in Places \cup { << "returned", 0 >>, << "threw", 0 >> }
  /\ log \in Seq(Places \X BOOLEAN) /\ Len(log) <= 2 * n + 1

Calls == { log[i][1] : i \in 1..Len(log) }
Has(m, i) == i < n \/ m \in has

(* An Invoke that returns has called the function once and every Before and *)
(* After there is, an aspect's Before before and its After behind those of  *)
(* the aspects within.                                                      *)
Bracketed == at[1] = "returned" =>
  /\ Calls = { p \in Places : p[2] <= n /\ (p[1] = Fun \/ Has(p[1], p[2])) }
  /\ \A j, k \in 1..Len(log) : j < k =>
       /\ log[j][1] # log[k][1]
       /\ log[j][1][1] = "Before" /\ log[k][1][1] = "Before" => log[j][1][2] < log[k][1][2]
       /\ log[j][1][1] = "After" => log[k][1][1] = "After" /\ log[j][1][2] > log[k][1][2]

(* The function, and every aspect, finds an lvalue argument as it was given,*)
(* and an rvalue unless a Before or the function before it took it by value:*)
(* the first of them leaves nothing to the others.                          *)
FirstTakerLeavesNothing == \A j \in 1..Len(log) :
  log[j][2] <=> ~rvalue \/ \A k \in 1..(j - 1) : log[k][1] \notin byvalue

=============================================================================
