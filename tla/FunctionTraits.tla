--------------------------- MODULE FunctionTraits ---------------------------
(***************************************************************************)
(* function_traits<T> and to_function of include/function_traits.hpp: the  *)
(* compiler forms the return type of both overloads of to_function, and    *)
(* for it instantiates one function_traits after another, each the base of *)
(* the last, until it comes to a function type, or to an error.  (The      *)
(* makefile compiles for C++17, where noexcept is part of a type.)         *)
(***************************************************************************)
EXTENDS Naturals

VARIABLES
  given,    \* the type of to_function's argument
  lvalue,   \* whether the argument is an lvalue
  at        \* the type each overload's function_traits has come to

vars == << given, lvalue, at >>

Type(kind, quals) == [kind |-> kind, quals |-> quals, const |-> FALSE, ref |-> FALSE]

Function == Type("function", {})     \* R(Args...)
IllFormed == Type("ill-formed", {})

(* The qualifiers are those of the function, or of the call operator; a     *)
(* class without one, or with several, is overloaded.                       *)
Qualified == { [Type(k, q) EXCEPT !.const = c] :
  k \in {"pointer", "member", "callable", "overloaded"},
  q \in SUBSET {"const", "volatile", "noexcept", "&"}, c \in BOOLEAN }

Arguments == { f \in Qualified : f.kind = "pointer" => f.quals \subseteq {"noexcept"} }
  \cup { [Type("std::function", {"const"}) EXCEPT !.const = c] : c \in BOOLEAN }

Overloads == {"const &", "&&"}

(* What Function is deduced to be. *)
Deduced(o) ==
  IF o = "const &" THEN [given EXCEPT !.const = FALSE] ELSE [given EXCEPT !.ref = lvalue]

Init ==
  /\ given \in Arguments /\ lvalue \in BOOLEAN
  /\ at = [o \in Overloads |-> Deduced(o)]

Qualifiers == {"const", "volatile"}

(* The specialisations for pointers, std::function and members. *)
Specialised(t) ==
  /\ ~t.const /\ ~t.ref
  /\ \/ t.kind = "std::function"
     \/ t.kind = "pointer" /\ t.quals = {}
     \/ t.kind = "member" /\ t.quals \subseteq Qualifiers

(* decltype(&T::operator()) wants a class with one call operator. *)
HasCallOperator(t) == t.kind \in {"callable", "std::function"} /\ ~t.ref

Base(t) ==
  IF Specialised(t) THEN Function
  ELSE IF HasCallOperator(t) THEN Type("member", t.quals) ELSE IllFormed

Rejected == \E o \in Overloads : at[o] = IllFormed
Accepted == \A o \in Overloads : at[o] = Function

(* An error in a base is an error of the program, whichever overload would  *)
(* have been chosen.                                                        *)
Instantiate(o) ==
  /\ ~Rejected /\ at[o] # Function
  /\ at' = [at EXCEPT ![o] = Base(@)]
  /\ UNCHANGED << given, lvalue >>

(* The traits are there: the cast to std::function<R(Args...)> needs what   *)
(* can be called with Args.                                                 *)
Converts == Accepted /\ given.kind # "member"

Next == \E o \in Overloads : Instantiate(o)

Spec == Init /\ [][Next]_vars

-----------------------------------------------------------------------------
(* Properties. *)

(* Type invariant.  A base is never of a kind that comes before its own. *)
TypeOK ==
  /\ given \in Arguments /\ lvalue \in BOOLEAN
  /\ \A o \in Overloads :
       \/ at[o] \in {Function, IllFormed, Deduced(o)}
       \/ at[o].kind = "member" /\ given.kind \in {"callable", "std::function"}

Done == Rejected \/ Accepted

Plain(quals) == quals \cap {"noexcept", "&"} = {}

(* to_function takes every rvalue that is a std::function, an object with   *)
(* one call operator or a function pointer that is not const, unless the    *)
(* function is noexcept or has a reference qualifier; and no lvalue, though *)
(* there is an overload for const &.                                        *)
RvaluesConvert == Done =>
  ( Converts <=>
      /\ ~lvalue /\ Plain(given.quals)
      /\ \/ given.kind \in {"std::function", "callable"}
         \/ given.kind = "pointer" /\ ~given.const )

=============================================================================
