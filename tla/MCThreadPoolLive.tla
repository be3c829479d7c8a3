-------------------------- MODULE MCThreadPoolLive --------------------------
(* Instances of the two pools for TLC, for what happens in the end.  In the  *)
(* wide one, of the module's own constants, workers take several tasks at    *)
(* once; in the narrow one the queue has one place, and clients race to stop *)
(* the pool.  A behaviour is one of the instance that size names, and of the *)
(* pool of include or of include.bak, as version says.                       *)
EXTENDS ThreadPoolBak

CONSTANTS a, b, c, c1, c2

OneAdder == [x \in {a, b, c} |-> IF x = a THEN "adds" ELSE "plain"]

FewTasks == {a, b}

Narrow == INSTANCE ThreadPoolBak
            WITH MaxSize <- 1, Tasks <- FewTasks,
                 Kind <- [x \in FewTasks |-> OneAdder[x]]

VARIABLES size, version

allVars == << vars, size, version >>

LiveInit ==
  /\ size \in {"narrow", "wide"} /\ version \in {"include", "include.bak"}
  /\ Init

(* One client adds tasks and stops the pool.  The other one only stops it,   *)
(* and in the wide instance does nothing.                                    *)
LiveNext ==
  /\ UNCHANGED << size, version >>
  /\ \/ size = "narrow" /\ version = "include" /\ Narrow!Next
     \/ size = "narrow" /\ version = "include.bak" /\ Narrow!NextBak
     \/ size = "wide" /\ version = "include" /\ Next
     \/ size = "wide" /\ version = "include.bak" /\ NextBak
  /\ at'[c2] # "add" /\ (size = "wide" => at'[c2] = "idle")

RunPool(t) ==
  CASE size = "narrow" /\ version = "include" -> Narrow!Run(t)
    [] size = "narrow" /\ version = "include.bak" -> Narrow!RunBak(t)
    [] size = "wide" /\ version = "include" -> Run(t)
    [] size = "wide" /\ version = "include.bak" -> RunBak(t)

(* The fairness of FairSpec and of FairSpecBak. *)
LiveSpec ==
  /\ LiveInit /\ [][LiveNext]_allVars
  /\ WF_allVars(Construct /\ UNCHANGED << size, version >>)
  /\ \A t \in Threads : WF_allVars(RunPool(t) /\ UNCHANGED << size, version >>)

=============================================================================
