------------------------- MODULE ParallelAlgorithms -------------------------
(***************************************************************************)
(* ParallelForeach and ParallelReduce of include/task_group.hpp: a range   *)
(* is cut into chunks, one std::async call per chunk; the caller starts    *)
(* them, then waits for one after the other.  Both cut the range in the    *)
(* same way but for the last chunk, and differ in how they wait: wait()    *)
(* keeps a chunk's exception to itself, get() throws it again.             *)
(*                                                                         *)
(* An iterator is the index of its element, counted from 0.  A chunk calls *)
(* the client's function on its elements in order; the call on the element *)
(* bad throws.  What a chunk of ParallelReduce computes of its elements is *)
(* left out: which elements it reads is what can go wrong.                 *)
(***************************************************************************)
EXTENDS Naturals, Sequences

CONSTANTS
  MaxSize,   \* bound: of the length of the range
  MaxParts   \* bound: of hardware_concurrency()

VARIABLES
  algorithm,   \* "foreach" or "reduce"
  size,        \* the length of the range; its end is the iterator size
  bad,         \* the element on which the function throws, size for none
  part_num,    \* hardware_concurrency(), 0 if it is not known
  begin, last, block_size,
  futures,     \* the chunks: the position each has reached, and its end
  thrown,      \* the chunks that ended by an exception
  waited,      \* the futures the caller has waited for: 1..waited
  visits,      \* history: how often the function was called on each element
  pc           \* where the caller is

call == << algorithm, size, bad, part_num >>
chunks == << futures, thrown, visits >>
cut == << begin, last, block_size >>
vars == << call, cut, chunks, waited, pc >>

Elements == 0..size - 1

Init ==
  /\ algorithm \in {"foreach", "reduce"}
  /\ size \in 0..MaxSize
  /\ bad \in 0..size
  /\ part_num \in 0..MaxParts
  /\ begin = 0 /\ last = 0 /\ block_size = 0
  /\ futures = << >> /\ thrown = {} /\ waited = 0
  /\ visits = [e \in 0..size |-> 0]
  /\ pc = "divide"

-----------------------------------------------------------------------------
(* The caller. *)

(* The division by part_num. *)
Trap ==
  /\ pc = "divide" /\ part_num = 0
  /\ pc' = "trapped"
  /\ UNCHANGED << call, cut, chunks, waited >>

LastBlock(block) == (part_num - 1) * block

Divide ==
  /\ pc = "divide" /\ part_num > 0
  /\ LET block == size \div part_num
     IN  IF block > 0 THEN block_size' = block /\ last' = LastBlock(block)
                      ELSE block_size' = 1 /\ last' = size
  /\ pc' = "launch"
  /\ UNCHANGED << call, begin, chunks, waited >>

Async(from, to) == futures' = Append(futures, [pos |-> from, end |-> to])

End == begin + block_size

Launch ==
  /\ pc = "launch" /\ begin # last
  /\ Async(begin, End)
  /\ begin' = begin + block_size
  /\ UNCHANGED << call, last, block_size, thrown, visits, waited, pc >>

(* Slip: ParallelForeach ends its last chunk as ParallelReduce does. *)
LastEndBlock == begin + block_size

LastEnd == IF algorithm = "foreach" THEN size ELSE begin + block_size

LaunchLast ==
  /\ pc = "launch" /\ begin = last
  /\ Async(begin, LastEnd)
  /\ pc' = "wait"
  /\ UNCHANGED << call, cut, thrown, visits, waited >>

Done(f) == f \in thrown \/ futures[f].pos = futures[f].end

(* Slip: a future that threw never counts as ready. *)
ReadyByValue(f) == futures[f].pos = futures[f].end

Ready(f) == Done(f)

Rethrow(f) == algorithm = "reduce" /\ f \in thrown

(* wait() or get() on the next future. *)
Wait ==
  /\ pc = "wait" /\ waited < Len(futures)
  /\ Ready(waited + 1)
  /\ waited' = waited + 1
  /\ pc' = IF Rethrow(waited + 1) THEN "unwind" ELSE "wait"
  /\ UNCHANGED << call, cut, chunks >>

Return ==
  /\ pc = "wait" /\ waited = Len(futures)
  /\ pc' = "returned"
  /\ UNCHANGED << call, cut, chunks, waited >>

(* The destructor of a future from std::async waits for its call. *)
Unwind ==
  /\ pc = "unwind" /\ \A f \in DOMAIN futures : Ready(f)
  /\ pc' = "threw"
  /\ UNCHANGED << call, cut, chunks, waited >>

-----------------------------------------------------------------------------
(* A chunk, on its thread or in the caller's wait. *)

Visit(f) ==
  /\ f \in DOMAIN futures /\ ~Done(f)
  /\ LET e == futures[f].pos
     IN  /\ visits' = [visits EXCEPT ![e] = @ + 1]
         /\ IF e = bad /\ e # size
            THEN thrown' = thrown \cup {f} /\ UNCHANGED futures
            ELSE futures' = [futures EXCEPT ![f].pos = @ + 1] /\ UNCHANGED thrown
  /\ UNCHANGED << call, cut, waited, pc >>

Caller ==
  Trap \/ Divide \/ Launch \/ LaunchLast \/ Wait \/ Return \/ Unwind

Chunks == 1..MaxSize + MaxParts

Next == Caller \/ \E f \in Chunks : Visit(f)

(* The caller runs, and so does every call of std::async: on a thread, or,  *)
(* if it was deferred, in the caller's wait.                                *)
Spec ==
  /\ Init /\ [][Next]_vars
  /\ WF_vars(Caller) /\ \A f \in Chunks : WF_vars(Visit(f))

-----------------------------------------------------------------------------
(* Properties. *)

Ended == {"trapped", "returned", "threw"}

(* Type invariant.                                                          *)
TypeOK ==
  /\ algorithm \in {"foreach", "reduce"}
  /\ size \in 0..MaxSize /\ bad \in 0..size /\ part_num \in 0..MaxParts
  /\ begin \in 0..size /\ last \in 0..size /\ block_size \in 0..MaxSize + 1
  /\ \A f \in DOMAIN futures :
       futures[f] \in [pos : 0..size + 1, end : 0..size + 1]
  /\ thrown \subseteq DOMAIN futures
  /\ waited \in 0..Len(futures)
  /\ visits \in [0..size -> Nat]
  /\ pc \in Ended \cup {"divide", "launch", "wait", "unwind"}

(* No two chunks meet on an element, which would be a data race on it.      *)
VisitedOnce == \A e \in Elements : visits[e] <= 1

(* ParallelForeach stays in the range and calls the function on all of it,  *)
(* but for the elements behind a throwing one in its chunk: their calls are *)
(* dropped without a word to the caller.                                    *)
ForeachCovers ==
  algorithm = "foreach" =>
    /\ visits[size] = 0
    /\ pc = "returned" =>
         \A e \in Elements :
           visits[e] = 1 \/ \E f \in thrown : e \in futures[f].pos..futures[f].end - 1

(* ParallelReduce leaves out what the last chunk would have to take beyond  *)
(* its block: the remainder of the division.  A range shorter than part_num *)
(* is covered, and read one element past its end.                           *)
ReduceOmitsRemainder ==
  algorithm = "reduce" /\ pc = "returned" =>
    /\ \A e \in Elements :
         visits[e] = 1 <=> size < part_num \/ e < size - (size % part_num)
    /\ visits[size] = 1 <=> size < part_num

(* The chunks hold references to the function and to init: when the call is *)
(* over, by an exception or not, none of them is still running.             *)
NoChunkOutlivesCall ==
  pc \in {"returned", "threw"} => \A f \in DOMAIN futures : Done(f)

(* An exception of the function reaches the caller of ParallelReduce.       *)
ReduceReportsThrow ==
  algorithm = "reduce" /\ pc = "returned" => thrown = {}

(* Every call comes to an end.                                              *)
Terminates == <>(pc \in Ended)

(* What test_parallelsum of main.cpp takes ParallelReduce for: a reduction  *)
(* of the whole range.                                                      *)
ReduceCovers ==
  algorithm = "reduce" /\ pc = "returned" =>
    \A e \in Elements : visits[e] = 1

=============================================================================
