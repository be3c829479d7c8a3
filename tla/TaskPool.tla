------------------------------ MODULE TaskPool ------------------------------
(***************************************************************************)
(* What a pool of threads promises about the tasks it is given, whatever   *)
(* queue and threads it is made of: every accepted task is begun at most   *)
(* once, on one thread; no task begins once a stop is requested; none is   *)
(* accepted once the stop has taken hold; and when the stop is over, no    *)
(* task is running and none will.                                          *)
(***************************************************************************)
CONSTANTS Workers, Tasks, None

VARIABLES
  pending,    \* the tasks accepted and not begun
  serving,    \* the task each worker runs
  finished,   \* the tasks that have returned
  phase       \* "open", "halting", "draining", "closed"

poolVars == << pending, serving, finished, phase >>

Served == { serving[w] : w \in Workers }

Init ==
  /\ pending = {}
  /\ serving = [w \in Workers |-> None]
  /\ finished = {}
  /\ phase = "open"

Accept(x) ==
  /\ phase \in {"open", "halting"}
  /\ x \notin pending \cup Served \cup finished
  /\ pending' = pending \cup {x}
  /\ UNCHANGED << serving, finished, phase >>

Begin(w, x) ==
  /\ phase = "open"
  /\ serving[w] = None
  /\ x \in pending
  /\ pending' = pending \ {x}
  /\ serving' = [serving EXCEPT ![w] = x]
  /\ UNCHANGED << finished, phase >>

Finish(w) ==
  /\ serving[w] # None
  /\ finished' = finished \cup {serving[w]}
  /\ serving' = [serving EXCEPT ![w] = None]
  /\ UNCHANGED << pending, phase >>

(* A stop keeps tasks from beginning before it keeps them from being        *)
(* accepted, or both at once.                                               *)
Halt == phase = "open" /\ phase' = "halting"

Drain == phase \in {"open", "halting"} /\ phase' = "draining"

Close ==
  /\ phase = "draining"
  /\ \A w \in Workers : serving[w] = None
  /\ phase' = "closed"

Stopping ==
  /\ Halt \/ Drain \/ Close
  /\ UNCHANGED << pending, serving, finished >>

Next ==
  \/ \E x \in Tasks : Accept(x)
  \/ \E w \in Workers, x \in Tasks : Begin(w, x)
  \/ \E w \in Workers : Finish(w)
  \/ Stopping

Spec == Init /\ [][Next]_poolVars

=============================================================================
