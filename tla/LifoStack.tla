----------------------------- MODULE LifoStack -----------------------------
(***************************************************************************)
(* What the stacks of include/atomic_stack_*.h promise their callers: push *)
(* and pop take effect in one step each, a pop returns the top element, an *)
(* element is returned once, and only a pop of an empty stack returns      *)
(* nothing.                                                                *)
(***************************************************************************)
EXTENDS Naturals, Sequences

CONSTANT Values

VARIABLES
  stack,    \* the elements, the top first
  out,      \* the elements popped
  empties   \* how many pops returned nothing

stackVars == << stack, out, empties >>

Contents == { stack[i] : i \in 1..Len(stack) }

Init == stack = << >> /\ out = {} /\ empties = 0

Push(x) ==
  /\ x \notin Contents \cup out
  /\ stack' = << x >> \o stack
  /\ UNCHANGED << out, empties >>

Pop ==
  /\ stack # << >>
  /\ stack' = Tail(stack)
  /\ out' = out \cup {Head(stack)}
  /\ UNCHANGED empties

PopEmpty ==
  /\ stack = << >>
  /\ empties' = empties + 1
  /\ UNCHANGED << stack, out >>

Next == (\E x \in Values : Push(x)) \/ Pop \/ PopEmpty

Spec == Init /\ [][Next]_stackVars

=============================================================================
