----------------------------- MODULE FifoQueue -----------------------------
(***************************************************************************)
(* What LockFreeQueue of include/lock_free_queue.h gives its callers:      *)
(* push and pop take effect in one step each, elements leave in the order  *)
(* in which they entered, each at most once, and only a pop of an empty    *)
(* queue returns nothing.  It gives less than a queue in one respect: a    *)
(* push may return with its element in a node that a pop has already left, *)
(* and then the element never enters the queue.                            *)
(***************************************************************************)
EXTENDS Naturals, Sequences

CONSTANT Values

VARIABLES
  queue,    \* the elements, the oldest first
  out,      \* the elements popped, in the order of their pops
  lost,     \* the elements that never entered
  empties   \* how many pops returned nothing

queueVars == << queue, out, lost, empties >>

Elements(s) == { s[i] : i \in 1..Len(s) }

Init == queue = << >> /\ out = << >> /\ lost = {} /\ empties = 0

New(x) == x \notin Elements(queue) \cup Elements(out) \cup lost

Push(x) ==
  /\ New(x)
  /\ queue' = Append(queue, x)
  /\ UNCHANGED << out, lost, empties >>

(* Only a pop that has passed a node makes a push miss the queue. *)
Miss(x) ==
  /\ New(x) /\ out # << >>
  /\ lost' = lost \cup {x}
  /\ UNCHANGED << queue, out, empties >>

Pop ==
  /\ queue # << >>
  /\ queue' = Tail(queue)
  /\ out' = Append(out, Head(queue))
  /\ UNCHANGED << lost, empties >>

PopEmpty ==
  /\ queue = << >>
  /\ empties' = empties + 1
  /\ UNCHANGED << queue, out, lost >>

Next == Pop \/ PopEmpty \/ \E x \in Values : Push(x) \/ Miss(x)

Spec == Init /\ [][Next]_queueVars

=============================================================================
