---------------------------- MODULE MCThreadPool ----------------------------
(* Instances of the two pools for TLC: up to five tasks and what each one    *)
(* does.  A behaviour is one of the pool of include or of that of            *)
(* include.bak, as version says.                                             *)
EXTENDS ThreadPoolBak, TLC

CONSTANTS a, b, c, d, e

AllKinds ==
  [x \in {a, b, c} |->
     CASE x = a -> "adds" [] x = b -> "stops" [] x = c -> "throws"]

(* Two tasks that add, and three plain ones that are interchangeable. *)
Adders == [x \in {a, b, c, d, e} |-> IF x \in {a, b} THEN "adds" ELSE "plain"]
PlainSymmetry == Permutations({c, d, e})

VARIABLE version   \* "include", "include.bak"

allVars == << vars, version >>

BothInit == Init /\ version \in {"include", "include.bak"}

BothNext ==
  /\ UNCHANGED version
  /\ \/ version = "include" /\ Next
     \/ version = "include.bak" /\ NextBak

BothSpec == BothInit /\ [][BothNext]_allVars

(* A worker of the include.bak pool leaves its loop only when the queue is   *)
(* stopped and has released everybody: nobody waits in the queue for a       *)
(* worker that has gone.                                                     *)
LeavesStopped == version = "include.bak" => LeavesStoppedQueue

=============================================================================
