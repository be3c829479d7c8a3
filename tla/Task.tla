-------------------------------- MODULE Task --------------------------------
(***************************************************************************)
(* Task<R(Args...)> of include/task.hpp.  A task is a chain: the function  *)
(* it was made with, then the continuations of Then, which the closure     *)
(* refers to by reference.  Get, Wait and Run hand the chain to std::async,*)
(* which starts a thread or defers it to the one who waits; inside, the    *)
(* chain runs by nested asyncs whose results are awaited one by one.       *)
(***************************************************************************)
EXTENDS Integers, Sequences

CONSTANTS
  Tasks,      \* the variables and temporaries of type Task
  MaxFuncs,   \* bound: functions given to constructors and to Then
  MaxJobs     \* bound: calls of Get, Wait and Run

VARIABLES
  fun,       \* fun_ of each task: a chain of functions, none if no such task
  made,      \* how many functions there were
  temps,     \* the continuations that are temporaries of this statement
  dead,      \* the continuations that have ended
  job,       \* the chains handed to std::async so far
  waiting    \* the job the caller waits for, 0 if none

vars == << fun, made, temps, dead, job, waiting >>

Empty == 0   \* a std::function that was moved from: calling it throws

Init ==
  /\ fun = [t \in Tasks |-> << >>]
  /\ made = 0 /\ temps = {} /\ dead = {}
  /\ job = << >> /\ waiting = 0

Jobs == 1..Len(job)

Construct(t) ==
  /\ waiting = 0 /\ fun[t] = << >> /\ made < MaxFuncs
  /\ made' = made + 1
  /\ fun' = [fun EXCEPT ![t] = << made' >>]
  /\ UNCHANGED << temps, dead, job, waiting >>

Destruct(t) ==
  /\ waiting = 0 /\ fun[t] # << >>
  /\ fun' = [fun EXCEPT ![t] = << >>]
  /\ UNCHANGED << made, temps, dead, job, waiting >>

MovedFrom(t) == << Empty >>

Then(t, u) ==
  /\ waiting = 0 /\ fun[t] # << >> /\ fun[u] = << >> /\ made < MaxFuncs
  /\ made' = made + 1
  /\ temps' = temps \cup {made'}
  /\ fun' = [fun EXCEPT ![t] = MovedFrom(t), ![u] = Append(fun[t], made')]
  /\ UNCHANGED << dead, job, waiting >>

(* Slip: the temporaries of one statement are found in the next. *)
TempsKept == temps

NoTemps == {}

(* The end of the full expression: its temporaries go.  Destroying the      *)
(* future of Run, which may be one of them, comes before (Drop).            *)
EndStatement ==
  /\ waiting = 0 /\ temps # {}
  /\ dead' = dead \cup temps /\ temps' = NoTemps
  /\ UNCHANGED << fun, made, job, waiting >>

ChainAlive(t) == \A i \in 1..Len(fun[t]) : fun[t][i] \notin dead

(* Slip: Get does not wait for the result. *)
WaitsForNone(by) == 0

WaitsFor(by) == IF by = "Run" THEN 0 ELSE Len(job')

(* Get, Wait and Run. *)
Async(t, by) ==
  /\ waiting = 0 /\ fun[t] # << >> /\ Len(job) < MaxJobs
  /\ \E s \in {"async", "deferred"} :
       job' = Append(job, [fun |-> fun[t], pos |-> 0, by |-> by, state |-> s,
                           sound |-> ChainAlive(t), stray |-> FALSE])
  /\ waiting' = WaitsFor(by)
  /\ UNCHANGED << fun, made, temps, dead >>

(* get() on the future of Run, or its destruction, which waits for a        *)
(* thread and drops a deferred job.                                         *)
Await(j) ==
  /\ waiting = 0 /\ job[j].by = "Run" /\ job[j].state \in {"async", "deferred"}
  /\ waiting' = j
  /\ UNCHANGED << fun, made, temps, dead, job >>

Drop(j) ==
  /\ waiting = 0 /\ job[j].by = "Run" /\ job[j].state = "deferred"
  /\ job' = [job EXCEPT ![j].state = "dropped"]
  /\ UNCHANGED << fun, made, temps, dead, waiting >>

Runs(j) == job[j].state = "async" \/ (job[j].state = "deferred" /\ waiting = j)

(* One function of the chain is called, with what the one before returned; *)
(* it may throw, and an empty one does.                                     *)
Step(j) ==
  /\ Runs(j)
  /\ LET f == job[j].fun[job[j].pos + 1]
         k == job[j].pos + 1
     IN  \E s \in (IF f = Empty THEN {} ELSE
                     {IF k = Len(job[j].fun) THEN "value" ELSE job[j].state}) \cup {"threw"} :
           job' = [job EXCEPT ![j].state = s,
                              ![j].pos = IF f = Empty THEN @ ELSE k,
                              ![j].stray = @ \/ f \in dead]
  /\ UNCHANGED << fun, made, temps, dead, waiting >>

(* Get throws what the job threw, Wait does not; either way the call ends. *)
Return ==
  /\ waiting # 0 /\ job[waiting].state \in {"value", "threw"}
  /\ waiting' = 0
  /\ UNCHANGED << fun, made, temps, dead, job >>

Next ==
  \/ \E t \in Tasks : \/ Construct(t) \/ Destruct(t)
                      \/ \E by \in {"Get", "Wait", "Run"} : Async(t, by)
                      \/ \E u \in Tasks : Then(t, u)
  \/ EndStatement \/ Return
  \/ \E j \in Jobs : Await(j) \/ Drop(j) \/ Step(j)

Spec == /\ Init /\ [][Next]_vars
        /\ WF_vars(Return) /\ \A j \in 1..MaxJobs : WF_vars(j \in Jobs /\ Step(j))

-----------------------------------------------------------------------------
(* Properties. *)

(* Type invariant. *)
TypeOK ==
  /\ fun \in [Tasks -> Seq(0..made)] /\ made \in 0..MaxFuncs
  /\ temps \subseteq 1..made /\ dead \subseteq (1..made) \ temps
  /\ job \in Seq([fun : Seq(0..made), pos : 0..MaxFuncs,
                  by : {"Get", "Wait", "Run"}, sound : BOOLEAN, stray : BOOLEAN,
                  state : {"async", "deferred", "dropped", "value", "threw"}])
  /\ waiting \in 0..Len(job)

(* Within the statement that called Then, Get and Wait never call a         *)
(* continuation that has ended: whatever threads run the chain, they are    *)
(* done when the call is.                                                   *)
SoundWhileWaiting == \A j \in Jobs :
  job[j].by # "Run" /\ job[j].sound => ~job[j].stray

(* A function belongs to one task: the one that Then was called on cannot   *)
(* call it any more.                                                        *)
OneOwner == \A t, u \in Tasks : t # u =>
  \A i \in 1..Len(fun[t]), k \in 1..Len(fun[u]) :
    fun[t][i] = fun[u][k] => fun[t][i] = Empty

(* Get and Wait return, and so does whoever waits for the future of Run.    *)
CallsReturn == waiting # 0 ~> waiting = 0

=============================================================================
