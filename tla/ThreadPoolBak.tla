--------------------------- MODULE ThreadPoolBak ---------------------------
(***************************************************************************)
(* The thread pool of include.bak/thread_pool.hpp, on the queue of         *)
(* include.bak/sync_queue.hpp.  It differs from ThreadPool in the order of *)
(* the stop, which stops the queue before it clears running_, and in what  *)
(* the queue does when it is emptied.                                      *)
(***************************************************************************)
EXTENDS ThreadPool

(* Slip: running_ is cleared before the queue's Stop() is called. *)
ClearsAtOnce == ClearRunning

QueueOnly == UNCHANGED running_

StopQueue(t) ==
  /\ at[t] = "stopping"
  /\ QueueOnly
  /\ Q!Stop(t)
  /\ Goto(t, "qstop")
  /\ UNCHANGED << flag_, started, joined, process, work >>

(* Workers go on with their batches, or find nothing in the stopped queue  *)
(* again and again, until running_ is cleared.                              *)
ClearAfterQueue(t) ==
  /\ at[t] = "qstop" /\ call[t] = "none"
  /\ ClearRunning
  /\ Goto(t, "join")
  /\ UNCHANGED << queueVars, flag_, started, joined, process, work >>

InQueueBak(t) == Q!ProceedBak(t) /\ UNCHANGED << control, at, work >>

StopThreadBak(t) ==
  \/ OnceFirst(t) \/ OnceDone(t) \/ StopQueue(t) \/ ClearAfterQueue(t)
  \/ Join(t) \/ JoinSelf(t) \/ StopReturns(t)

RunBak(t) ==
  /\ process = "up"
  /\ \/ t \in Workers /\ (RunThread(t) \/ Call(t))
     \/ InQueueBak(t) \/ AddReturns(t) \/ StopThreadBak(t)

NextBak == Construct \/ \E t \in Threads : RunBak(t) \/ Ask(t) \/ Wakeup(t)

SpecBak == Init /\ [][NextBak]_vars

FairSpecBak ==
  SpecBak /\ WF_vars(Construct) /\ \A t \in Threads : WF_vars(RunBak(t))

-----------------------------------------------------------------------------
(* A property, with those of ThreadPool. *)

(* A worker leaves its loop only when the queue is stopped already: from    *)
(* then on nobody waits in the queue for a worker that has gone.            *)
LeavesStoppedQueue ==
  \A w \in Workers : at[w] = "exit" => need_stop_ /\ not_full_ \cup not_empty_ = {}

=============================================================================
