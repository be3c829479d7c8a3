---------------------------- MODULE IocContainer ----------------------------
(***************************************************************************)
(* IocContainer of include/ioc_container.hpp: a map from keys to Anys that *)
(* hold constructor functions.  Any k of Any.tla is the entry of key k,    *)
(* its types are the signatures T*(Args...), its values the constructors;  *)
(* the copies that RegisterType and Resolve make and drop leave no trace.  *)
(***************************************************************************)
EXTENDS Any

VARIABLE answers   \* history: what Resolve returned for each key so far

iocVars == << any, heap, hollow, crashed, answers >>

IocInit == Init /\ answers = [k \in Anys |-> {}]

(* A key that exists throws invalid_argument. *)
Emplace(k, sig, f, q) == Construct(k, sig, f, q)

RegisterType(k, sig, f) ==
  /\ \E q \in Addresses : Emplace(k, sig, f, q)
  /\ UNCHANGED answers

SameSignature(k, sig) == Is(k, sig)

(* nullptr, bad_cast, or what the constructor made. *)
Result(k, sig) ==
  IF ~any[k].here THEN << "null", sig >>
  ELSE IF ~SameSignature(k, sig) THEN << "bad_cast", sig >>
  ELSE << heap[any[k].ptr].value, sig >>

Resolve(k, sig) ==
  /\ answers' = [answers EXCEPT ![k] = @ \cup {Result(k, sig)}]
  /\ UNCHANGED vars

IocNext == \E k \in Anys, sig \in Types :
  Resolve(k, sig) \/ \E f \in Values : RegisterType(k, sig, f)

IocSpec == IocInit /\ [][IocNext]_iocVars

-----------------------------------------------------------------------------
(* Properties. *)

MadeBy(k) == { a \in answers[k] : a[1] \in Values }

(* Whatever is registered and resolved, and in which order: a key makes     *)
(* objects with one constructor, under one signature, for good; another     *)
(* signature is answered by bad_cast, never by a call.                      *)
OneConstructor == \A k \in Anys :
  /\ \A a, b \in MadeBy(k) : a = b
  /\ \A a \in answers[k], b \in MadeBy(k) : a[1] = "bad_cast" => a[2] # b[2]

=============================================================================
