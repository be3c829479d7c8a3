---------------------------- MODULE ThreadsProofs ----------------------------
(***************************************************************************)
(* Proofs about what is called by several threads, or calls for them, for  *)
(* every bound of MCThreads and every set of threads and tasks.  Each      *)
(* component has an inductive invariant of its own; Inv is all of them,    *)
(* each in the behaviours of its part.                                     *)
(***************************************************************************)
EXTENDS MCThreads, DataProofs, SequenceTheorems

USE ThreadsAssumption DEF ThreadsAssumption

-----------------------------------------------------------------------------
(* The singleton, which one thread creates and destroys. *)

(* The creator knows where the one object is, from its own place alone; the *)
(* others only read.                                                        *)
CreatorKnows ==
  LET place == stage[Creator] IN
  /\ place \in {"idle", "create"} /\ instance = Null => alive = {}
  /\ place = "create" => instance = Null
  /\ place = "publish" => instance = Null /\ mine[Creator] \in Objects /\ alive = {mine[Creator]}
  /\ place \in {"return", "delete", "clear"} => instance # Null
  /\ place \in {"idle", "return", "delete"} /\ instance # Null => alive = {instance}
  /\ place = "clear" => alive = {}

SingletonInv ==
  /\ OneCreator!TypeOK
  /\ \A t \in Callers \ {Creator} : stage[t] \in {"idle", "return"}
  /\ CreatorKnows

(* The invariant holds at first.                                            *)
LEMMA SingletonInvInit == OneCreator!Init => SingletonInv
BY DEF OneCreator!Init, SingletonInv, OneCreator!TypeOK, CreatorKnows

(* Every step keeps it.                                                     *)
LEMMA SingletonInvStep == SingletonInv /\ [OneCreator!Next]_(OneCreator!vars) => SingletonInv'
<1> SUFFICES ASSUME SingletonInv, [OneCreator!Next]_(OneCreator!vars) PROVE SingletonInv'
  OBVIOUS
<1> USE DEF SingletonInv, OneCreator!TypeOK, CreatorKnows, OneCreator!Move
<1>1. ASSUME NEW t \in Callers, OneCreator!InstanceCall(t) PROVE SingletonInv'
  BY <1>1 DEF OneCreator!InstanceCall, OneCreator!Call, OneCreator!Missing
<1>2. ASSUME NEW t \in Callers, OneCreator!GetInstance(t) PROVE SingletonInv'
  BY <1>2 DEF OneCreator!GetInstance, OneCreator!Call
<1>3. ASSUME NEW t \in Callers, OneCreator!DestroyInstance(t) PROVE SingletonInv'
  BY <1>3 DEF OneCreator!DestroyInstance, OneCreator!Call
<1>4. ASSUME NEW t \in Callers, NEW o \in Objects, OneCreator!Create(t, o) PROVE SingletonInv'
  BY <1>4 DEF OneCreator!Create
<1>5. ASSUME NEW t \in Callers, OneCreator!Publish(t) PROVE SingletonInv'
  BY <1>5 DEF OneCreator!Publish
<1>6. ASSUME NEW t \in Callers, OneCreator!Return(t) PROVE SingletonInv'
  BY <1>6 DEF OneCreator!Return
<1>7. ASSUME NEW t \in Callers, OneCreator!Delete(t) PROVE SingletonInv'
  BY <1>7 DEF OneCreator!Delete, OneCreator!Doomed
<1>8. ASSUME NEW t \in Callers, OneCreator!Clear(t) PROVE SingletonInv'
  BY <1>8 DEF OneCreator!Clear, OneCreator!Cleared
<1>9. CASE UNCHANGED OneCreator!vars
  BY <1>9 DEF OneCreator!vars
<1> QED
  BY <1>1, <1>2, <1>3, <1>4, <1>5, <1>6, <1>7, <1>8, <1>9 DEF OneCreator!Next

(* What it says of the properties.                                          *)
LEMMA SingletonSafe ==
  ASSUME SingletonInv
  PROVE  OneCreator!OneObject /\ OneCreator!NeverDangles /\ OneCreator!DestroyedForGood
<1>1. stage[Creator] \in {"idle", "create", "publish", "return", "delete", "clear"}
  BY DEF SingletonInv, OneCreator!TypeOK
<1>2. alive = {} \/ \E o : alive = {o}
  BY <1>1 DEF SingletonInv, CreatorKnows
<1>3. Cardinality(alive) <= 1
  <2>1. Cardinality(alive) = 0 \/ Cardinality(alive) = 1
    BY <1>2, FS_Singleton, FS_EmptySet
  <2> QED BY <2>1
<1>4. OneCreator!OneObject
  BY <1>3 DEF OneCreator!OneObject, OneCreator!Cardinality, Cardinality
<1>5. OneCreator!NeverDangles
  BY <1>1 DEF SingletonInv, CreatorKnows, OneCreator!NeverDangles
<1>6. OneCreator!DestroyedForGood
  BY <1>1 DEF SingletonInv, CreatorKnows, OneCreator!DestroyedForGood
<1> QED BY <1>4, <1>5, <1>6

LEMMA SingletonLive ==
  ASSUME SingletonInv, [OneCreator!Next]_(OneCreator!vars),
         stage[Creator] = "return", stage'[Creator] = "idle"
  PROVE  mine'[Creator] \in alive
<1>1. stage \in [Callers -> {"idle", "create", "publish", "return", "delete", "clear"}]
      /\ mine \in [Callers -> Objects \cup {Null}]
  BY DEF SingletonInv, OneCreator!TypeOK
<1>2. ~ UNCHANGED OneCreator!vars
  BY DEF OneCreator!vars
<1>3. PICK t \in Callers :
        \/ OneCreator!InstanceCall(t) \/ OneCreator!GetInstance(t) \/ OneCreator!DestroyInstance(t)
        \/ \E o \in Objects : OneCreator!Create(t, o)
        \/ OneCreator!Publish(t) \/ OneCreator!Return(t) \/ OneCreator!Delete(t) \/ OneCreator!Clear(t)
  BY <1>2 DEF OneCreator!Next
<1>4. t = Creator /\ OneCreator!Return(t)
  BY <1>1, <1>3
     DEF OneCreator!InstanceCall, OneCreator!GetInstance, OneCreator!DestroyInstance,
         OneCreator!Create, OneCreator!Publish, OneCreator!Return, OneCreator!Delete,
         OneCreator!Clear, OneCreator!Call, OneCreator!Move
<1> QED BY <1>1, <1>4 DEF OneCreator!Return, SingletonInv, CreatorKnows

-----------------------------------------------------------------------------
(* Tasks and the chains they hand to std::async. *)

(* A job that is not over has a function left to call.  The caller waits    *)
(* for it if Get or Wait made it, and nothing ends meanwhile.               *)
JobInv(q, j) ==
  /\ Len(q.fun) <= made
  /\ q.state \in {"async", "deferred"} =>
       /\ q.pos < Len(q.fun)
       /\ q.by # "Run" => waiting = j
       /\ q.by # "Run" /\ q.sound => \A i \in 1..Len(q.fun) : q.fun[i] \notin dead
  /\ q.by # "Run" /\ q.sound => ~q.stray

ChainInv ==
  /\ Chain!TypeOK
  /\ \A t \in Variables : Len(fun[t]) <= made
  /\ Chain!OneOwner
  /\ \A j \in 1..Len(job) : JobInv(job[j], j)

JobsOf(m) ==
  [fun : Seq(0..m), pos : 0..MaxFuncs, by : {"Get", "Wait", "Run"},
   sound : BOOLEAN, stray : BOOLEAN,
   state : {"async", "deferred", "dropped", "value", "threw"}]

LEMMA ElementsOf ==
  ASSUME NEW S, NEW s \in Seq(S), NEW i \in 1..Len(s)
  PROVE  s[i] \in S
OBVIOUS

(* One more function leaves the jobs what they are.                         *)
LEMMA JobsGrow ==
  ASSUME NEW m \in Nat, NEW q \in Seq(JobsOf(m))
  PROVE  q \in Seq(JobsOf(m + 1))
<1>1. JobsOf(m) \subseteq JobsOf(m + 1)
  <2> SUFFICES ASSUME NEW r \in JobsOf(m) PROVE r \in JobsOf(m + 1)
    OBVIOUS
  <2>1. r.fun \in Seq(0..(m + 1))
    BY DEF JobsOf
  <2> QED BY <2>1 DEF JobsOf
<1> QED BY <1>1

(* The invariant holds at first.                                            *)
LEMMA ChainInvInit == Chain!Init => ChainInv
<1> SUFFICES ASSUME Chain!Init PROVE ChainInv
  OBVIOUS
<1>1. << >> \in Seq(0..0) /\ Len(<< >>) = 0
  OBVIOUS
<1>2. job \in Seq(JobsOf(0)) /\ Len(job) = 0
  BY DEF Chain!Init
<1>3. Chain!TypeOK
  BY <1>1, <1>2 DEF Chain!Init, Chain!TypeOK, JobsOf
<1> QED BY <1>1, <1>2, <1>3 DEF Chain!Init, ChainInv, Chain!OneOwner

(* What is left of the invariant when neither the jobs nor the caller's     *)
(* place change.                                                            *)
LEMMA JobsKept ==
  ASSUME ChainInv, UNCHANGED << job, waiting >>, made' \in Nat, made <= made',
         dead' = dead \/ waiting = 0
  PROVE  \A j \in 1..Len(job') : JobInv(job[j], j)'
<1> SUFFICES ASSUME NEW j \in 1..Len(job) PROVE JobInv(job[j], j)'
  OBVIOUS
<1>0. job[j] \in JobsOf(made)
  <2>1. job \in Seq(JobsOf(made))
    BY DEF ChainInv, Chain!TypeOK, JobsOf
  <2> QED BY <2>1
<1>1. JobInv(job[j], j) /\ made \in Nat /\ Len(job[j].fun) \in Nat
  BY <1>0 DEF ChainInv, Chain!TypeOK, JobsOf
<1>2. job[j].state \in {"async", "deferred"} /\ job[j].by # "Run" => dead' = dead
  BY <1>1 DEF JobInv
<1> QED BY <1>1, <1>2 DEF JobInv

LEMMA ConstructStep ==
  ASSUME ChainInv, NEW t \in Variables, Chain!Construct(t)
  PROVE  ChainInv'
<1> USE DEF Chain!Construct
<1>1. made \in Nat /\ made' = made + 1 /\ made' \in 0..MaxFuncs
  BY DEF ChainInv, Chain!TypeOK
<1>2. fun \in [Variables -> Seq(0..made)] /\ \A u \in Variables : fun[u] \in Seq(0..made')
  BY <1>1 DEF ChainInv, Chain!TypeOK
<1>3. << made' >> \in Seq(0..made') /\ Len(<< made' >>) = 1 /\ << made' >>[1] = made'
  BY <1>1
<1>4. Chain!TypeOK'
  <2>1. job' \in Seq(JobsOf(made'))
    BY <1>1, JobsGrow DEF ChainInv, Chain!TypeOK, JobsOf
  <2>2. fun' \in [Variables -> Seq(0..made')]
    BY <1>2, <1>3
  <2> QED BY <1>1, <2>1, <2>2 DEF ChainInv, Chain!TypeOK, JobsOf
<1>5. \A u \in Variables : Len(fun'[u]) <= made'
  BY <1>1, <1>2, <1>3 DEF ChainInv
<1>6. Chain!OneOwner'
  <2>1. \A u \in Variables \ {t} : fun'[u] = fun[u] /\ \A i \in 1..Len(fun[u]) : fun[u][i] # made'
    BY <1>1, <1>2
  <2>2. fun'[t] = << made' >>
    BY <1>2
  <2>3. \A i \in 1..Len(fun'[t]) : fun'[t][i] = made'
    BY <1>3, <2>2
  <2> QED BY <2>1, <2>3 DEF ChainInv, Chain!OneOwner
<1>7. \A j \in 1..Len(job') : JobInv(job[j], j)'
  BY <1>1, JobsKept
<1> QED BY <1>4, <1>5, <1>6, <1>7 DEF ChainInv

LEMMA DestructStep ==
  ASSUME ChainInv, NEW t \in Variables, Chain!Destruct(t)
  PROVE  ChainInv'
<1> USE DEF Chain!Destruct
<1>1. made \in Nat /\ made' = made
  BY DEF ChainInv, Chain!TypeOK
<1>2. << >> \in Seq(0..made) /\ Len(<< >>) = 0
  OBVIOUS
<1>3. fun' \in [Variables -> Seq(0..made)] /\ fun'[t] = << >>
      /\ \A u \in Variables \ {t} : fun'[u] = fun[u]
  BY <1>2 DEF ChainInv, Chain!TypeOK
<1>4. Chain!TypeOK'
  BY <1>3 DEF ChainInv, Chain!TypeOK
<1>5. \A u \in Variables : Len(fun'[u]) <= made'
  BY <1>1, <1>2, <1>3 DEF ChainInv
<1>6. Chain!OneOwner'
  BY <1>2, <1>3 DEF ChainInv, Chain!OneOwner
<1>7. \A j \in 1..Len(job') : JobInv(job[j], j)'
  BY <1>1, JobsKept
<1> QED BY <1>4, <1>5, <1>6, <1>7 DEF ChainInv

LEMMA ThenStep ==
  ASSUME ChainInv, NEW t \in Variables, NEW u \in Variables, Chain!Then(t, u)
  PROVE  ChainInv'
<1>0. /\ waiting = 0 /\ fun[t] # << >> /\ fun[u] = << >> /\ made < MaxFuncs /\ made' = made + 1
      /\ temps' = temps \cup {made'}
      /\ fun' = [fun EXCEPT ![t] = << 0 >>, ![u] = Append(fun[t], made')]
      /\ UNCHANGED << dead, job, waiting >>
  BY DEF Chain!Then, Chain!MovedFrom, Chain!Empty
<1>1. made \in Nat /\ made' = made + 1 /\ made' \in 0..MaxFuncs
  BY <1>0 DEF ChainInv, Chain!TypeOK
<1>2. fun \in [Variables -> Seq(0..made)] /\ Len(fun[t]) <= made /\ t # u
  BY <1>0 DEF ChainInv, Chain!TypeOK
<1>3. << 0 >> \in Seq(0..made') /\ Len(<< 0 >>) = 1 /\ << 0 >>[1] = 0
  BY <1>1
<1>4. /\ Append(fun[t], made') \in Seq(0..made') /\ Len(Append(fun[t], made')) = Len(fun[t]) + 1
      /\ \A i \in 1..(Len(fun[t]) + 1) :
           Append(fun[t], made')[i] = IF i <= Len(fun[t]) THEN fun[t][i] ELSE made'
  <2>1. fun[t] \in Seq(0..made) /\ made' \in 0..made'
    BY <1>1, <1>2
  <2>2. fun[t] \in Seq(0..made')
    BY <1>1, <2>1
  <2> QED BY <2>1, <2>2
<1>5. fun'[t] = << 0 >> /\ fun'[u] = Append(fun[t], made')
      /\ \A v \in Variables \ {t, u} : fun'[v] = fun[v]
  BY <1>0, <1>2
<1>6. Chain!TypeOK'
  <2>1. job' \in Seq(JobsOf(made'))
    BY <1>0, <1>1, JobsGrow DEF ChainInv, Chain!TypeOK, JobsOf
  <2>2. fun' \in [Variables -> Seq(0..made')]
    <3>1. \A v \in Variables : fun[v] \in Seq(0..made')
      BY <1>1, <1>2
    <3> QED BY <1>0, <1>2, <1>3, <1>4, <3>1
  <2>3. temps' \subseteq 1..made' /\ dead' \subseteq (1..made') \ temps'
    BY <1>0, <1>1 DEF ChainInv, Chain!TypeOK
  <2> QED BY <1>0, <1>1, <2>1, <2>2, <2>3 DEF ChainInv, Chain!TypeOK, JobsOf
<1>7. \A v \in Variables : Len(fun'[v]) <= made'
  <2> SUFFICES ASSUME NEW v \in Variables PROVE Len(fun'[v]) <= made'
    OBVIOUS
  <2>1. Len(fun[v]) \in Nat /\ Len(fun[v]) <= made
    BY <1>2 DEF ChainInv
  <2>2. CASE v = t
    <3>1. Len(fun'[v]) = 1
      BY <1>3, <1>5, <2>2, Zenon
    <3> QED BY <1>1, <3>1
  <2>3. CASE v = u
    <3>1. Len(fun'[v]) = Len(fun[t]) + 1
      BY <1>4, <1>5, <2>3, Zenon
    <3>2. Len(fun[t]) \in Nat
      BY <1>2
    <3> QED BY <1>1, <1>2, <3>1, <3>2
  <2>4. CASE v \notin {t, u}
    BY <1>1, <1>5, <2>1, <2>4
  <2> QED BY <2>2, <2>3, <2>4
<1>8. Chain!OneOwner'
  <2>1. \A v \in Variables : \A i \in 1..Len(fun[v]) : fun[v][i] # made'
    <3> SUFFICES ASSUME NEW v \in Variables, NEW i \in 1..Len(fun[v]) PROVE fun[v][i] # made'
      OBVIOUS
    <3>1. fun[v] \in Seq(0..made)
      BY <1>2
    <3>2. fun[v][i] \in 0..made
      BY <3>1, ElementsOf
    <3> QED BY <1>1, <3>2
  <2>2. fun'[t] = << 0 >> /\ \A i \in 1..Len(fun'[t]) : fun'[t][i] = 0
    BY <1>3, <1>5
  <2>3. \A i \in 1..Len(fun'[u]) : fun'[u][i] = made' \/ \E k \in 1..Len(fun[t]) : fun'[u][i] = fun[t][k]
    <3> SUFFICES ASSUME NEW i \in 1..Len(fun'[u])
                 PROVE  fun'[u][i] = made' \/ \E k \in 1..Len(fun[t]) : fun'[u][i] = fun[t][k]
      OBVIOUS
    <3>1. Len(fun[t]) \in Nat /\ i \in 1..(Len(fun[t]) + 1)
      BY <1>2, <1>4, <1>5
    <3> QED BY <1>4, <1>5, <3>1
  <2>4. \A v \in Variables \ {t} : \A i \in 1..Len(fun[v]), k \in 1..Len(fun[t]) :
          fun[v][i] = fun[t][k] => fun[v][i] = 0
    BY DEF ChainInv, Chain!OneOwner, Chain!Empty
  <2>5. \A v \in Variables \ {t, u} : \A i \in 1..Len(fun'[v]), k \in 1..Len(fun'[u]) :
          fun'[v][i] = fun'[u][k] => fun'[v][i] = 0
    BY <1>5, <2>1, <2>3, <2>4
  <2>6. \A v \in Variables \ {t, u}, w \in Variables \ {t, u} : v # w =>
          \A i \in 1..Len(fun'[v]), k \in 1..Len(fun'[w]) :
            fun'[v][i] = fun'[w][k] => fun'[v][i] = 0
    BY <1>5 DEF ChainInv, Chain!OneOwner, Chain!Empty
  <2> SUFFICES ASSUME NEW v \in Variables, NEW w \in Variables, v # w,
                      NEW i \in 1..Len(fun'[v]), NEW k \in 1..Len(fun'[w]),
                      fun'[v][i] = fun'[w][k]
               PROVE  fun'[v][i] = 0
    BY DEF Chain!OneOwner, Chain!Empty
  <2>7. CASE v = t \/ w = t
    BY <2>2, <2>7
  <2>8. CASE v # t /\ w # t
    BY <2>5, <2>6, <2>8
  <2> QED BY <2>7, <2>8
<1>9. \A j \in 1..Len(job') : JobInv(job[j], j)'
  BY <1>0, <1>1, JobsKept
<1> QED BY <1>6, <1>7, <1>8, <1>9 DEF ChainInv

LEMMA EndStatementStep ==
  ASSUME ChainInv, Chain!EndStatement
  PROVE  ChainInv'
<1>0. /\ waiting = 0 /\ dead' = dead \cup temps /\ temps' = {}
      /\ UNCHANGED << fun, made, job, waiting >>
  BY DEF Chain!EndStatement, Chain!NoTemps
<1>1. made \in Nat
  BY DEF ChainInv, Chain!TypeOK
<1>2. Chain!TypeOK'
  BY <1>0 DEF ChainInv, Chain!TypeOK
<1>3. \A j \in 1..Len(job') : JobInv(job[j], j)'
  BY <1>0, <1>1, JobsKept
<1> QED BY <1>0, <1>2, <1>3 DEF ChainInv, Chain!OneOwner

LEMMA AsyncStep ==
  ASSUME ChainInv, NEW t \in Variables, NEW by \in {"Get", "Wait", "Run"}, Chain!Async(t, by)
  PROVE  ChainInv'
<1>0. /\ waiting = 0 /\ fun[t] # << >>
      /\ waiting' = (IF by = "Run" THEN 0 ELSE Len(job'))
      /\ UNCHANGED << fun, made, temps, dead >>
  BY DEF Chain!Async, Chain!WaitsFor
<1>1. PICK s \in {"async", "deferred"} :
        job' = Append(job, [fun |-> fun[t], pos |-> 0, by |-> by, state |-> s,
                            sound |-> Chain!ChainAlive(t), stray |-> FALSE])
  BY DEF Chain!Async
<1> DEFINE q == [fun |-> fun[t], pos |-> 0, by |-> by, state |-> s,
                 sound |-> Chain!ChainAlive(t), stray |-> FALSE]
<1>2. /\ made \in Nat /\ fun[t] \in Seq(0..made) /\ Len(fun[t]) \in Nat \ {0}
      /\ Len(fun[t]) <= made
  <2>1. fun[t] \in Seq(0..made) /\ made \in Nat /\ Len(fun[t]) <= made
    BY DEF ChainInv, Chain!TypeOK
  <2>2. Len(fun[t]) \in Nat /\ Len(fun[t]) # 0
    BY <1>0, <2>1
  <2> QED BY <2>1, <2>2
<1>3. Chain!ChainAlive(t) \in BOOLEAN
  BY DEF Chain!ChainAlive
<1>4. q \in JobsOf(made)
  BY <1>2, <1>3 DEF JobsOf
<1>5. job \in Seq(JobsOf(made)) /\ Len(job) \in Nat
  BY DEF ChainInv, Chain!TypeOK, JobsOf
<1>6. /\ job' \in Seq(JobsOf(made)) /\ Len(job') = Len(job) + 1
      /\ job'[Len(job) + 1] = q
      /\ \A j \in 1..Len(job) : job'[j] = job[j]
  <2> HIDE DEF q
  <2>1. job' = Append(job, q)
    BY <1>1 DEF q
  <2> QED BY <1>4, <1>5, <2>1
<1>7. Chain!TypeOK'
  BY <1>0, <1>5, <1>6 DEF ChainInv, Chain!TypeOK, JobsOf
<1>8. \A j \in 1..Len(job) : JobInv(job[j], j)'
  <2> SUFFICES ASSUME NEW j \in 1..Len(job) PROVE JobInv(job[j], j)'
    OBVIOUS
  <2>1. JobInv(job[j], j) /\ job'[j] = job[j] /\ waiting # j /\ j # 0
    BY <1>0, <1>5, <1>6 DEF ChainInv
  <2> QED BY <1>0, <2>1 DEF JobInv
<1>9. JobInv(job[Len(job)], Len(job))'
  <2>1. job'[Len(job')] = q
    BY <1>6
  <2>2. /\ q.fun = fun[t] /\ q.pos = 0 /\ q.by = by /\ q.state = s /\ q.stray = FALSE
        /\ q.sound = Chain!ChainAlive(t)
    OBVIOUS
  <2>3. Chain!ChainAlive(t) => \A i \in 1..Len(fun[t]) : fun[t][i] \notin dead
    BY DEF Chain!ChainAlive
  <2> HIDE DEF q
  <2> QED BY <1>0, <1>2, <2>1, <2>2, <2>3 DEF JobInv
<1>10. \A j \in 1..Len(job') : JobInv(job[j], j)'
  BY <1>5, <1>6, <1>8, <1>9
<1> QED BY <1>0, <1>7, <1>10 DEF ChainInv, Chain!OneOwner

LEMMA AwaitStep ==
  ASSUME ChainInv, NEW j \in 1..Len(job), Chain!Await(j) \/ Chain!Drop(j) \/ Chain!Return
  PROVE  ChainInv'
<1>0. job \in Seq(JobsOf(made)) /\ Len(job) \in Nat
  BY DEF ChainInv, Chain!TypeOK, JobsOf
<1>1. UNCHANGED << fun, made, temps, dead >>
  BY DEF Chain!Await, Chain!Drop, Chain!Return
<1>2. CASE Chain!Await(j)
  <2>1. waiting = 0 /\ waiting' = j /\ job' = job
    BY <1>2 DEF Chain!Await
  <2>2. Chain!TypeOK'
    BY <1>0, <1>1, <2>1 DEF ChainInv, Chain!TypeOK
  <2>3. \A k \in 1..Len(job') : JobInv(job[k], k)'
    <3> SUFFICES ASSUME NEW k \in 1..Len(job) PROVE JobInv(job[k], k)'
      BY <2>1
    <3>1. JobInv(job[k], k)
      BY DEF ChainInv
    <3> QED BY <1>0, <1>1, <2>1, <3>1 DEF JobInv
  <2> QED BY <1>1, <2>2, <2>3 DEF ChainInv, Chain!OneOwner
<1>3. CASE Chain!Return
  <2>1. waiting # 0 /\ waiting' = 0 /\ job' = job /\ job[waiting].state \in {"value", "threw"}
    BY <1>3 DEF Chain!Return
  <2>2. Chain!TypeOK'
    BY <1>0, <1>1, <2>1 DEF ChainInv, Chain!TypeOK
  <2>3. \A k \in 1..Len(job') : JobInv(job[k], k)'
    <3> SUFFICES ASSUME NEW k \in 1..Len(job) PROVE JobInv(job[k], k)'
      BY <2>1
    <3>1. JobInv(job[k], k)
      BY DEF ChainInv
    <3>2. waiting = k => job[k].state \notin {"async", "deferred"}
      BY <2>1
    <3> QED BY <1>1, <2>1, <3>1, <3>2 DEF JobInv
  <2> QED BY <1>1, <2>2, <2>3 DEF ChainInv, Chain!OneOwner
<1>4. CASE Chain!Drop(j)
  <2>1. job' = [job EXCEPT ![j].state = "dropped"] /\ waiting' = waiting
    BY <1>4 DEF Chain!Drop
  <2>2. job[j] \in JobsOf(made)
    BY <1>0, ElementsOf
  <2>3. /\ Len(job') = Len(job) /\ DOMAIN job' = 1..Len(job)
        /\ job'[j] = [job[j] EXCEPT !.state = "dropped"]
        /\ \A k \in 1..Len(job) : k # j => job'[k] = job[k]
    BY <1>0, <2>1
  <2>4. job'[j] \in JobsOf(made)
    BY <2>2, <2>3 DEF JobsOf
  <2>5. job' \in Seq(JobsOf(made))
    BY <1>0, <2>1, <2>3, <2>4
  <2>6. Chain!TypeOK'
    BY <1>0, <1>1, <2>1, <2>3, <2>5 DEF ChainInv, Chain!TypeOK, JobsOf
  <2>7. \A k \in 1..Len(job') : JobInv(job[k], k)'
    <3> SUFFICES ASSUME NEW k \in 1..Len(job) PROVE JobInv(job[k], k)'
      BY <2>3
    <3>1. JobInv(job[k], k)
      BY DEF ChainInv
    <3>2. CASE k # j
      BY <1>1, <2>1, <2>3, <3>1, <3>2 DEF JobInv
    <3>3. CASE k = j
      <4>1. /\ job'[k].fun = job[k].fun /\ job'[k].by = job[k].by /\ job'[k].sound = job[k].sound
            /\ job'[k].stray = job[k].stray /\ job'[k].state = "dropped"
        BY <2>2, <2>3, <3>3 DEF JobsOf
      <4> QED BY <1>1, <3>1, <4>1 DEF JobInv
    <3> QED BY <3>2, <3>3
  <2> QED BY <1>1, <2>6, <2>7 DEF ChainInv, Chain!OneOwner
<1> QED BY <1>2, <1>3, <1>4

(* One call moves a job on, or ends it.                                     *)
LEMMA ChainStepStep ==
  ASSUME ChainInv, NEW j \in 1..Len(job), Chain!Step(j)
  PROVE  ChainInv'
<1>0. job \in Seq(JobsOf(made)) /\ Len(job) \in Nat /\ made \in 0..MaxFuncs
  BY DEF ChainInv, Chain!TypeOK, JobsOf
<1>1. UNCHANGED << fun, made, temps, dead, waiting >>
  BY DEF Chain!Step
<1>2. job[j] \in JobsOf(made)
  BY <1>0, ElementsOf
<1>3. /\ job[j].fun \in Seq(0..made) /\ job[j].pos \in 0..MaxFuncs /\ job[j].stray \in BOOLEAN
      /\ Len(job[j].fun) \in Nat
  BY <1>2 DEF JobsOf
<1>4. job[j].state \in {"async", "deferred"}
  BY DEF Chain!Step, Chain!Runs
<1>5. JobInv(job[j], j)
  BY DEF ChainInv
<1>6. /\ job[j].pos < Len(job[j].fun) /\ Len(job[j].fun) <= made
      /\ job[j].by # "Run" => waiting = j
      /\ job[j].by # "Run" /\ job[j].sound => \A i \in 1..Len(job[j].fun) : job[j].fun[i] \notin dead
      /\ job[j].by # "Run" /\ job[j].sound => ~job[j].stray
  BY <1>4, <1>5 DEF JobInv
<1> DEFINE k == job[j].pos + 1
           f == job[j].fun[k]
<1>7. PICK s \in (IF f = 0 THEN {}
                  ELSE {IF k = Len(job[j].fun) THEN "value" ELSE job[j].state}) \cup {"threw"} :
        job' = [job EXCEPT ![j].state = s, ![j].pos = IF f = 0 THEN @ ELSE k,
                           ![j].stray = @ \/ f \in dead]
  BY DEF Chain!Step, Chain!Empty
<1> DEFINE p == IF f = 0 THEN job[j].pos ELSE k
           b == job[j].stray \/ f \in dead
           q == [job[j] EXCEPT !.state = s, !.pos = p, !.stray = b]
<1>8. /\ Len(job') = Len(job) /\ DOMAIN job' = 1..Len(job) /\ job' = [job EXCEPT ![j] = q]
      /\ job'[j] = [job[j] EXCEPT !.state = s, !.pos = p, !.stray = b]
      /\ \A i \in 1..Len(job) : i # j => job'[i] = job[i]
  <2>1. job' = [job EXCEPT ![j] = q]
    BY <1>7
  <2>2. q = [job[j] EXCEPT !.state = s, !.pos = p, !.stray = b]
    OBVIOUS
  <2> HIDE DEF q
  <2>3. Len(job') = Len(job) /\ DOMAIN job' = 1..Len(job) /\ job'[j] = q
        /\ \A i \in 1..Len(job) : i # j => job'[i] = job[i]
    BY <1>0, <2>1
  <2> HIDE DEF p, b, f
  <2> QED BY <2>1, <2>2, <2>3
<1>9. k \in 1..Len(job[j].fun) /\ p \in 0..MaxFuncs /\ b \in BOOLEAN
  BY <1>0, <1>3, <1>6
<1>10. /\ s \in {"async", "deferred", "value", "threw"}
       /\ s \in {"async", "deferred"} => p = k /\ k # Len(job[j].fun)
  BY <1>4, <1>7
<1>11. f \in dead => ~(job[j].by # "Run" /\ job[j].sound)
  BY <1>6, <1>9
<1> HIDE DEF q, p, b, f
<1>12. /\ job'[j].fun = job[j].fun /\ job'[j].by = job[j].by /\ job'[j].sound = job[j].sound
       /\ job'[j].pos = p /\ job'[j].stray = b /\ job'[j].state = s
  BY <1>2, <1>8 DEF JobsOf
<1>13. job'[j] \in JobsOf(made)
  BY <1>2, <1>8, <1>9, <1>10 DEF JobsOf
<1>14. Chain!TypeOK'
  <2>1. job' \in Seq(JobsOf(made))
    <3>1. job'[j] = q
      BY <1>0, <1>8
    <3> QED BY <1>0, <1>8, <1>13, <3>1
  <2> QED BY <1>0, <1>1, <1>8, <2>1 DEF ChainInv, Chain!TypeOK, JobsOf
<1>15. JobInv(job[j], j)'
  <2>1. job'[j].state \in {"async", "deferred"} => job'[j].pos < Len(job'[j].fun)
    BY <1>3, <1>9, <1>10, <1>12
  <2>2. job'[j].by # "Run" /\ job'[j].sound => ~job'[j].stray
    BY <1>6, <1>11, <1>12 DEF b
  <2> QED BY <1>1, <1>6, <1>12, <2>1, <2>2 DEF JobInv
<1>16. \A i \in 1..Len(job') : JobInv(job[i], i)'
  <2> SUFFICES ASSUME NEW i \in 1..Len(job), i # j PROVE JobInv(job[i], i)'
    BY <1>8, <1>15
  <2>1. JobInv(job[i], i) /\ job'[i] = job[i]
    BY <1>8 DEF ChainInv
  <2> QED BY <1>1, <2>1 DEF JobInv
<1> QED BY <1>1, <1>14, <1>16 DEF ChainInv, Chain!OneOwner

(* Every step keeps it.                                                     *)
LEMMA ChainInvStep == ChainInv /\ [Chain!Next]_(Chain!vars) => ChainInv'
<1> SUFFICES ASSUME ChainInv, [Chain!Next]_(Chain!vars) PROVE ChainInv'
  OBVIOUS
<1>1. CASE \E t \in Variables : \/ Chain!Construct(t) \/ Chain!Destruct(t)
                            \/ \E by \in {"Get", "Wait", "Run"} : Chain!Async(t, by)
                            \/ \E u \in Variables : Chain!Then(t, u)
  BY <1>1, ConstructStep, DestructStep, AsyncStep, ThenStep
<1>2. CASE Chain!EndStatement
  BY <1>2, EndStatementStep
<1>3. CASE Chain!Return
  <2>1. waiting \in 1..Len(job) /\ Len(job) \in Nat
    BY <1>3 DEF Chain!Return, ChainInv, Chain!TypeOK
  <2> QED BY <1>3, <2>1, AwaitStep
<1>4. CASE \E j \in Chain!Jobs : Chain!Await(j) \/ Chain!Drop(j) \/ Chain!Step(j)
  BY <1>4, AwaitStep, ChainStepStep DEF Chain!Jobs
<1>5. CASE UNCHANGED Chain!vars
  <2>1. UNCHANGED << fun, made, temps, dead, job, waiting >>
    BY <1>5 DEF Chain!vars
  <2> QED BY <2>1 DEF ChainInv, Chain!TypeOK, Chain!OneOwner, JobInv
<1> QED BY <1>1, <1>2, <1>3, <1>4, <1>5 DEF Chain!Next

(* What the invariant says of the properties.                               *)
LEMMA ChainSafe ==
  ASSUME ChainInv
  PROVE  ChainsSound
BY DEF ChainInv, JobInv, ChainsSound, Chain!SoundWhileWaiting, Chain!Jobs

-----------------------------------------------------------------------------
(* Groups of tasks, WhenAll and WhenAny. *)

(* The first task that has not been started.                                *)
Unstarted == IF pc = "start" THEN at ELSE n + 1

(* What the caller of a group, or of WhenAll, has got.                      *)
AllCollect == algo # "any" =>
  /\ pc \in {"collect", "leave", "returned"} => \A i \in got : fut[i] = "value"
  /\ pc \in {"leave", "returned"} => got = 1..n

(* WhenAny polls, or it has its result.                                     *)
AnyCollects == algo = "any" =>
  /\ pc = "collect" /\ n > 0 => at \in 1..n
  /\ pc \notin {"start", "collect"} =>
       /\ got = {at} /\ at \in 1..n
       /\ fut[at] = IF pc \in {"leave", "returned"} THEN "value" ELSE "threw"

GroupInv ==
  /\ Group!TypeOK
  /\ valued \subseteq 1..n /\ got \subseteq 1..n
  /\ \A i \in Group!Tasks : fut[i] = "none" <=> i >= Unstarted
  /\ \A i \in Group!Tasks : calls[i] = IF fut[i] \in {"none", "async", "deferred"} THEN 0 ELSE 1
  /\ pc = "start" => got = {}
  /\ AllCollect /\ AnyCollects
  /\ pc \in {"returned", "thrown"} => \A i \in 1..n : Group!Ended(i)

(* The invariant holds at first.                                            *)
LEMMA GroupInvInit == Group!Init => GroupInv
BY DEF Group!Init, Group!TypeOK, Group!Tasks, GroupInv, Unstarted, AllCollect, AnyCollects

LEMMA StartNextStep ==
  ASSUME GroupInv, Group!StartNext
  PROVE  GroupInv'
<1> USE DEF GroupInv, Group!TypeOK, Group!Tasks
<1>0. PICK s \in {"async", "deferred"} : fut' = [fut EXCEPT ![at] = s]
  BY DEF Group!StartNext, Group!Async, Group!Set
<1>1. /\ pc = "start" /\ at \in 1..n /\ at' = at + 1
      /\ fut' = [fut EXCEPT ![at] = s]
      /\ UNCHANGED << algo, n, valued, calls, pc, got >>
  BY <1>0 DEF Group!StartNext
<1>2. Group!TypeOK'
  BY <1>1
<1>3. (\A i \in Group!Tasks : fut[i] = "none" <=> i >= Unstarted)'
  BY <1>1 DEF Unstarted
<1>4. (\A i \in Group!Tasks : calls[i] = IF fut[i] \in {"none", "async", "deferred"} THEN 0 ELSE 1)'
  BY <1>1 DEF Unstarted
<1>5. AllCollect' /\ AnyCollects'
  BY <1>1 DEF AllCollect, AnyCollects
<1> QED BY <1>1, <1>2, <1>3, <1>4, <1>5

LEMMA AllStartedStep ==
  ASSUME GroupInv, Group!AllStarted
  PROVE  GroupInv'
<1> USE DEF GroupInv, Group!TypeOK, Group!Tasks
<1>1. /\ pc = "start" /\ at > n /\ at' = 1 /\ pc' = "collect"
      /\ UNCHANGED << algo, n, valued, fut, calls, got >>
  BY DEF Group!AllStarted
<1>2. (\A i \in Group!Tasks : fut[i] = "none" <=> i >= Unstarted)'
  BY <1>1 DEF Unstarted
<1>3. AllCollect' /\ AnyCollects'
  BY <1>1 DEF AllCollect, AnyCollects
<1> QED BY <1>1, <1>2, <1>3

(* A task runs on its thread: it has not ended, so nobody has got it.       *)
LEMMA ThreadStep ==
  ASSUME GroupInv, NEW i \in Group!Tasks, Group!Thread(i)
  PROVE  GroupInv'
<1> USE DEF GroupInv, Group!TypeOK, Group!Tasks
<1>1. /\ fut[i] = "async" \/ fut[i] = "running"
      /\ \/ fut' = [fut EXCEPT ![i] = "running"] /\ fut[i] = "async"
            /\ calls' = [calls EXCEPT ![i] = @ + 1]
         \/ /\ fut[i] = "running" /\ calls' = calls
            /\ fut' = [fut EXCEPT ![i] = "value"] \/ fut' = [fut EXCEPT ![i] = "threw"]
      /\ UNCHANGED << algo, n, valued, pc, got, at >>
  BY DEF Group!Thread, Group!Begin, Group!Finish, Group!Set, Group!Call
<1>2. i \in 1..n /\ pc \notin {"returned", "thrown"}
  BY <1>1 DEF Unstarted, Group!Ended
<1>3. (\A j \in Group!Tasks : calls[j] = IF fut[j] \in {"none", "async", "deferred"} THEN 0 ELSE 1)'
  BY <1>1
<1>4. Group!TypeOK'
  BY <1>1, <1>3
<1>5. (\A j \in Group!Tasks : fut[j] = "none" <=> j >= Unstarted)'
  BY <1>1 DEF Unstarted
<1>6. AllCollect'
  BY <1>1 DEF AllCollect
<1>7. AnyCollects'
  BY <1>1 DEF AnyCollects
<1> QED BY <1>1, <1>2, <1>3, <1>4, <1>5, <1>6, <1>7

LEMMA GetStep ==
  ASSUME GroupInv, NEW i \in Group!Tasks, Group!Get(i)
  PROVE  GroupInv'
<1> USE DEF GroupInv, Group!TypeOK, Group!Tasks
<1>1. /\ pc = "collect" /\ algo # "any" /\ i \in Group!NextToGet
      /\ got' = got \cup {i}
      /\ UNCHANGED << algo, n, valued, at >>
  BY DEF Group!Get
<1>2. i \in 1..n
  BY <1>1 DEF Group!NextToGet, Group!Least
<1>3. PICK s \in {"value", "threw"} :
        /\ pc' = IF s = "threw" THEN "unwind" ELSE "collect"
        /\ \/ fut[i] = s /\ UNCHANGED << fut, calls >>
           \/ fut[i] = "deferred" /\ fut' = [fut EXCEPT ![i] = s]
              /\ calls' = [calls EXCEPT ![i] = @ + 1]
  BY DEF Group!Get, Group!AfterGet, Group!Set, Group!Call
<1>4. (\A j \in Group!Tasks : calls[j] = IF fut[j] \in {"none", "async", "deferred"} THEN 0 ELSE 1)'
  BY <1>3
<1>5. Group!TypeOK'
  BY <1>1, <1>3, <1>4
<1>6. (\A j \in Group!Tasks : fut[j] = "none" <=> j >= Unstarted)'
  BY <1>1, <1>2, <1>3 DEF Unstarted
<1>7. AllCollect'
  BY <1>1, <1>2, <1>3 DEF AllCollect
<1>8. AnyCollects'
  BY <1>1 DEF AnyCollects
<1> QED BY <1>1, <1>2, <1>3, <1>4, <1>5, <1>6, <1>7, <1>8

(* When there is nothing left to get, everything has been got.              *)
LEMMA AllGotMeansAll ==
  ASSUME GroupInv, Group!NextToGet = {}
  PROVE  got = 1..n
<1>1. valued \subseteq got
  BY DEF Group!NextToGet
<1>2. Group!Least((1..n) \ got) = {}
  BY <1>1 DEF Group!NextToGet
<1>3. (1..n) \ got = {}
  <2> SUFFICES ASSUME (1..n) \ got # {} PROVE FALSE
    OBVIOUS
  <2>1. (1..n) \ got \subseteq Nat
    BY DEF GroupInv, Group!TypeOK
  <2>2. PICK i \in (1..n) \ got : \A j \in (1..n) \ got : i <= j
    BY <2>1, LeastExists
  <2> QED BY <1>2, <2>2 DEF Group!Least
<1> QED BY <1>3 DEF GroupInv

LEMMA AllGotStep ==
  ASSUME GroupInv, Group!AllGot
  PROVE  GroupInv'
<1>1. /\ pc = "collect" /\ algo # "any" /\ pc' = "leave" /\ got = 1..n
      /\ UNCHANGED << algo, n, valued, fut, calls, got, at >>
  BY AllGotMeansAll DEF Group!AllGot
<1> QED BY <1>1 DEF GroupInv, Group!TypeOK, Group!Tasks, Unstarted, AllCollect, AnyCollects

LEMMA PollStep ==
  ASSUME GroupInv, Group!Poll
  PROVE  GroupInv'
<1> USE DEF GroupInv, Group!TypeOK, Group!Tasks
<1>1. /\ pc = "collect" /\ algo = "any" /\ n > 0 /\ at \in 1..n
      /\ UNCHANGED << algo, n, valued, fut, calls >>
  BY DEF Group!Poll, AnyCollects
<1>2. CASE Group!Ready(at)
  <2>1. /\ got' = {at} /\ at' = at /\ pc' = IF fut[at] = "threw" THEN "unwind" ELSE "leave"
        /\ fut[at] \in {"value", "threw"}
    BY <1>2 DEF Group!Poll, Group!Ready
  <2> QED BY <1>1, <2>1 DEF Unstarted, AllCollect, AnyCollects
<1>3. CASE ~Group!Ready(at)
  <2>1. UNCHANGED << got, pc >> /\ at' = (at % n) + 1
    BY <1>3 DEF Group!Poll, Group!NextAt
  <2>2. at' \in 1..n
    BY <1>1, <2>1
  <2> QED BY <1>1, <2>1, <2>2 DEF Unstarted, AllCollect, AnyCollects
<1> QED BY <1>2, <1>3

LEMMA LeaveStep ==
  ASSUME GroupInv, Group!Leave
  PROVE  GroupInv'
<1>1. /\ pc \in {"leave", "unwind"} /\ pc' = IF pc = "leave" THEN "returned" ELSE "thrown"
      /\ \A i \in 1..n : Group!Ended(i)
      /\ UNCHANGED << algo, n, valued, fut, calls, got, at >>
  BY DEF Group!Leave
<1> QED BY <1>1 DEF GroupInv, Group!TypeOK, Group!Tasks, Group!Ended, Unstarted, AllCollect, AnyCollects

(* Every step keeps it.                                                     *)
LEMMA GroupInvStep == GroupInv /\ [Group!Next]_(Group!vars) => GroupInv'
<1> SUFFICES ASSUME GroupInv, [Group!Next]_(Group!vars) PROVE GroupInv'
  OBVIOUS
<1>1. CASE Group!Caller
  BY <1>1, StartNextStep, AllStartedStep, AllGotStep, PollStep, LeaveStep, GetStep
     DEF Group!Caller, Group!Run, Group!RunRange, Group!TransForm
<1>2. CASE \E i \in Group!Tasks : Group!Thread(i)
  BY <1>2, ThreadStep
<1>3. CASE UNCHANGED Group!vars
  <2>1. UNCHANGED << algo, n, valued, fut, calls, pc, got, at >>
    BY <1>3 DEF Group!vars
  <2> QED BY <2>1 DEF GroupInv, Group!TypeOK, Group!Ended, Unstarted, AllCollect, AnyCollects
<1> QED BY <1>1, <1>2, <1>3 DEF Group!Next

(* What the invariant says of the properties.                               *)
LEMMA GroupSafe ==
  ASSUME GroupInv
  PROVE  Group!NoTaskOutlivesCall /\ Group!ReturnsComplete /\ Group!AnyNamesWinner
<1> USE DEF GroupInv, Group!TypeOK, Group!Tasks
<1>1. \A i \in 1..n : pc # "start" => fut[i] # "none"
  BY DEF Unstarted
<1>2. Group!NoTaskOutlivesCall
  BY <1>1 DEF Group!NoTaskOutlivesCall, Group!Over, Group!Ended
<1>3. Group!ReturnsComplete
  BY DEF Group!ReturnsComplete, AllCollect
<1>4. Group!AnyNamesWinner
  BY DEF Group!AnyNamesWinner, Group!Over, AnyCollects
<1> QED BY <1>2, <1>3, <1>4

-----------------------------------------------------------------------------
(* The ring of lockers, with any number of pushers and readers. *)

PlacesBeforeTake == {"head", "count", "test", "subtract", "advance", "evict", "reset",
                     "sequence", "take"}
Holding == {"locked", "reading", "refused"}
Places == PlacesBeforeTake \cup {"add", "lock", "set", "pushed", "idle"} \cup Holding

(* The pushers that have not taken a number, those that have and are not    *)
(* counted, and those that have the read lock of a slot.                    *)
Untaken == { t \in Pushers : me[t].pc \in PlacesBeforeTake }
Uncounted == { t \in Pushers : me[t].pc = "add" }
ReadersOf(i) == { t \in Readers : me[t].pc \in Holding /\ me[t].head = i }

(* Pusher t has the write lock of slot i.                                   *)
Writes(t, i) ==
  \/ me[t].pc = "reset" /\ me[t].head = i
  \/ me[t].pc \in {"set", "pushed"} /\ Ring!Slot(t) = i

Lockers == [Ring!Slots -> [writer : BOOLEAN, readers : Nat, setted : BOOLEAN,
                           info : [offset : Offsets \cup {0}, size : 0..1], no : Int]]
Locals == [pc : Places, want : Nat, head : Ring!Slots, count : Nat, seq : Int]
Mes == [Pushers \cup Readers -> Locals]

(* What thread t has at the place where it is.                              *)
PusherHas(t) ==
  /\ me[t].pc \notin Holding /\ me[t].seq \in Nat
  /\ me[t].pc # "idle" => me[t].want \in Offsets
  /\ me[t].pc = "subtract" => me[t].count > 0

RingTypes ==
  /\ head_index \in Ring!Slots /\ sequece \in Nat /\ count \in Nat
  /\ lockers \in Lockers /\ me \in Mes
  /\ \A t \in Pushers : PusherHas(t)
  /\ \A t \in Readers : me[t].pc \in Holding \cup {"idle"}

RingCounts ==
  /\ sequece + Cardinality(Untaken) <= MaxPushes + Cardinality(Pushers) - 1
  /\ count + Cardinality(Uncounted) <= sequece
  /\ \A i \in Ring!Slots : lockers[i].readers = Cardinality(ReadersOf(i))

(* A slot whose read lock a reader has is what it was then, and has no      *)
(* writer.                                                                  *)
ReaderHas(t) == me[t].pc \in Holding =>
  /\ lockers[me[t].head].no = me[t].seq /\ ~lockers[me[t].head].writer
  /\ me[t].pc = "reading" => lockers[me[t].head].setted

RingLocks ==
  /\ \A t \in Pushers, i \in Ring!Slots : Writes(t, i) => lockers[i].writer
  /\ \A t, u \in Pushers, i \in Ring!Slots : Writes(t, i) /\ Writes(u, i) => t = u
  /\ \A t \in Readers : ReaderHas(t)

RingInv == RingTypes /\ RingCounts /\ RingLocks

(* The steps of a thread's place and locals.                                *)
OthersStay(t) == \A u \in (Pushers \cup Readers) \ {t} : me'[u] = me[u]

(* A step may give a thread its next place and no more, or also one value.  *)
LEMMA Goes ==
  ASSUME NEW t \in Pushers \cup Readers, me \in Mes, NEW place \in Places, Ring!Goto(t, place)
  PROVE  /\ me' \in Mes /\ OthersStay(t) /\ me'[t].pc = place
         /\ me'[t].want = me[t].want /\ me'[t].head = me[t].head
         /\ me'[t].count = me[t].count /\ me'[t].seq = me[t].seq
BY DEF Ring!Goto, Mes, Locals, OthersStay

LEMMA KeepsWant ==
  ASSUME NEW t \in Pushers \cup Readers, me \in Mes, NEW place \in Places, NEW v \in Nat,
         Ring!Keep(t, place, "want", v)
  PROVE  /\ me' \in Mes /\ OthersStay(t) /\ me'[t].pc = place
         /\ me'[t].want = v /\ me'[t].head = me[t].head
         /\ me'[t].count = me[t].count /\ me'[t].seq = me[t].seq
BY DEF Ring!Keep, Mes, Locals, OthersStay

LEMMA KeepsHead ==
  ASSUME NEW t \in Pushers \cup Readers, me \in Mes, NEW place \in Places, NEW v \in Ring!Slots,
         Ring!Keep(t, place, "head", v)
  PROVE  /\ me' \in Mes /\ OthersStay(t) /\ me'[t].pc = place
         /\ me'[t].want = me[t].want /\ me'[t].head = v
         /\ me'[t].count = me[t].count /\ me'[t].seq = me[t].seq
BY DEF Ring!Keep, Mes, Locals, OthersStay

LEMMA KeepsCount ==
  ASSUME NEW t \in Pushers \cup Readers, me \in Mes, NEW place \in Places, NEW v \in Nat,
         Ring!Keep(t, place, "count", v)
  PROVE  /\ me' \in Mes /\ OthersStay(t) /\ me'[t].pc = place
         /\ me'[t].want = me[t].want /\ me'[t].head = me[t].head
         /\ me'[t].count = v /\ me'[t].seq = me[t].seq
BY DEF Ring!Keep, Mes, Locals, OthersStay

LEMMA KeepsSeq ==
  ASSUME NEW t \in Pushers \cup Readers, me \in Mes, NEW place \in Places, NEW v \in Int,
         Ring!Keep(t, place, "seq", v)
  PROVE  /\ me' \in Mes /\ OthersStay(t) /\ me'[t].pc = place
         /\ me'[t].want = me[t].want /\ me'[t].head = me[t].head
         /\ me'[t].count = me[t].count /\ me'[t].seq = v
BY DEF Ring!Keep, Mes, Locals, OthersStay

LEMMA Reads ==
  ASSUME NEW t \in Pushers \cup Readers, me \in Mes, NEW i \in Ring!Slots, NEW no \in Int,
         me' = [me EXCEPT ![t].pc = "locked", ![t].head = i, ![t].seq = no]
  PROVE  /\ me' \in Mes /\ OthersStay(t) /\ me'[t].pc = "locked"
         /\ me'[t].head = i /\ me'[t].seq = no
BY DEF Mes, Locals, OthersStay, Places, Holding

(* The sets of threads are finite, and so are their parts.                  *)
LEMMA ThreadSetsFinite ==
  /\ IsFiniteSet(Untaken) /\ IsFiniteSet(Uncounted)
  /\ \A i : IsFiniteSet(ReadersOf(i))
  /\ Cardinality(Untaken) \in Nat /\ Cardinality(Uncounted) \in Nat
  /\ \A i : Cardinality(ReadersOf(i)) \in Nat /\ Cardinality(ReadersOf(i)) <= Cardinality(Readers)
  /\ Cardinality(Untaken) <= Cardinality(Pushers)
  /\ Cardinality(Pushers) \in Nat /\ Cardinality(Readers) \in Nat
<1>1. Untaken \subseteq Pushers /\ Uncounted \subseteq Pushers /\ \A i : ReadersOf(i) \subseteq Readers
  BY DEF Untaken, Uncounted, ReadersOf
<1>2. /\ IsFiniteSet(Untaken) /\ IsFiniteSet(Uncounted) /\ \A i : IsFiniteSet(ReadersOf(i))
      /\ \A i : Cardinality(ReadersOf(i)) <= Cardinality(Readers)
      /\ Cardinality(Untaken) <= Cardinality(Pushers)
  BY <1>1, FS_Subset
<1> QED BY <1>2, FS_CardinalityType

(* A pusher's step leaves the readers where they are.                       *)
LEMMA ReadersStay ==
  ASSUME NEW t \in Pushers, OthersStay(t)
  PROVE  \A i \in Ring!Slots : ReadersOf(i)' = ReadersOf(i)
BY DEF OthersStay, ReadersOf

(* A pusher's step changes the counted sets by that pusher alone.           *)
LEMMA Membership ==
  ASSUME NEW t \in Pushers, OthersStay(t)
  PROVE  /\ Untaken' = IF me'[t].pc \in PlacesBeforeTake THEN Untaken \cup {t} ELSE Untaken \ {t}
         /\ Uncounted' = IF me'[t].pc = "add" THEN Uncounted \cup {t} ELSE Uncounted \ {t}
BY DEF OthersStay, Untaken, Uncounted

(* A pusher's step that touches no locker and holds none.                   *)
LEMMA QuietStep ==
  ASSUME RingInv, NEW t \in Pushers, me' \in Mes, OthersStay(t), lockers' = lockers,
         me[t].pc \notin {"reset", "set", "pushed"}, me'[t].pc \notin {"reset", "set", "pushed"},
         PusherHas(t)',
         head_index' \in Ring!Slots, sequece' \in Nat, count' \in Nat,
         (sequece + Cardinality(Untaken) <= MaxPushes + Cardinality(Pushers) - 1)',
         (count + Cardinality(Uncounted) <= sequece)'
  PROVE  RingInv'
<1>1. t \notin Readers /\ \A u \in Readers : me'[u] = me[u]
  BY DEF OthersStay
<1>2. \A u \in Pushers \ {t} : me'[u] = me[u]
  BY DEF OthersStay
<1>3. RingTypes'
  BY <1>1, <1>2 DEF RingInv, RingTypes, PusherHas
<1>4. RingCounts'
  <2>1. \A i \in Ring!Slots : lockers'[i].readers = Cardinality(ReadersOf(i)')
    BY ReadersStay DEF RingInv, RingCounts
  <2> QED BY <2>1 DEF RingCounts
<1>5. RingLocks'
  <2>1. \A i \in Ring!Slots : ~Writes(t, i)'
    BY DEF Writes
  <2>2. \A u \in Pushers \ {t}, i \in Ring!Slots : Writes(u, i)' = Writes(u, i)
    BY <1>2 DEF Writes, Ring!Slot
  <2>3. \A u \in Readers : ReaderHas(u)'
    BY <1>1 DEF RingInv, RingLocks, ReaderHas
  <2> QED BY <2>1, <2>2, <2>3 DEF RingInv, RingLocks
<1> QED BY <1>3, <1>4, <1>5 DEF RingInv

(* A quiet step that changes no counter, and neither takes nor adds.        *)
LEMMA IdleCounts ==
  ASSUME RingInv, NEW t \in Pushers, me' \in Mes, OthersStay(t),
         UNCHANGED << head_index, sequece, count >>,
         me[t].pc \in PlacesBeforeTake <=> me'[t].pc \in PlacesBeforeTake,
         me[t].pc = "add" <=> me'[t].pc = "add"
  PROVE  /\ head_index' \in Ring!Slots /\ sequece' \in Nat /\ count' \in Nat
         /\ (sequece + Cardinality(Untaken) <= MaxPushes + Cardinality(Pushers) - 1)'
         /\ (count + Cardinality(Uncounted) <= sequece)'
<1>1. Untaken' = Untaken /\ Uncounted' = Uncounted
  BY DEF OthersStay, Untaken, Uncounted
<1> QED BY <1>1 DEF RingInv, RingTypes, RingCounts

(* The invariant holds at first.                                            *)
LEMMA RingInvInit == Ring!Init => RingInv
<1> SUFFICES ASSUME Ring!Init PROVE RingInv
  OBVIOUS
<1>1. 0 \in Ring!Slots
  BY DEF Ring!Slots
<1>2. RingTypes
  BY <1>1 DEF Ring!Init, Ring!Threads, Ring!Idle, Ring!Unset, Ring!NoInfo, RingTypes, Lockers,
              Mes, Locals, Places, PlacesBeforeTake, Holding, PusherHas
<1>3. /\ \A t \in Pushers \cup Readers : me[t].pc = "idle"
      /\ \A i \in Ring!Slots : lockers[i].readers = 0
  BY DEF Ring!Init, Ring!Threads, Ring!Idle, Ring!Unset
<1>4. RingCounts
  <2>1. Untaken = {} /\ Uncounted = {} /\ \A i \in Ring!Slots : ReadersOf(i) = {}
    BY <1>3 DEF Untaken, Uncounted, ReadersOf, PlacesBeforeTake, Holding
  <2>2. Cardinality(Pushers) \in Nat /\ Cardinality(Pushers) # 0
    BY FS_CardinalityType, FS_EmptySet
  <2>3. Cardinality({}) = 0
    BY FS_EmptySet
  <2>4. /\ Cardinality(Untaken) = 0 /\ Cardinality(Uncounted) = 0
        /\ \A i \in Ring!Slots : Cardinality(ReadersOf(i)) = 0
    BY <2>1, <2>3
  <2>5. sequece = 0 /\ count = 0
    BY DEF Ring!Init
  <2> QED BY <1>3, <2>2, <2>4, <2>5 DEF RingCounts
<1>5. RingLocks
  BY <1>3 DEF RingLocks, Writes, ReaderHas, Holding
<1> QED BY <1>2, <1>4, <1>5 DEF RingInv

LEMMA LockPushStep ==
  ASSUME RingInv, NEW t \in Pushers, NEW o \in Offsets, Ring!LockPush(t, o)
  PROVE  RingInv'
<1>1. /\ me[t].pc = "idle" /\ sequece < MaxPushes /\ Ring!Keep(t, "head", "want", o)
      /\ UNCHANGED << head_index, sequece, count, lockers >>
  BY DEF Ring!LockPush, Ring!At
<1>2. /\ me' \in Mes /\ OthersStay(t) /\ me'[t].pc = "head" /\ me'[t].want = o
      /\ me'[t].seq = me[t].seq
  <2>1. me \in Mes /\ o \in Nat /\ "head" \in Places
    BY DEF RingInv, RingTypes, Places, PlacesBeforeTake
  <2> QED BY <1>1, <2>1, KeepsWant
<1>3. (sequece + Cardinality(Untaken) <= MaxPushes + Cardinality(Pushers) - 1)'
  <2>1. Cardinality(Untaken)' \in Nat /\ Cardinality(Untaken)' <= Cardinality(Pushers)
        /\ Cardinality(Pushers) \in Nat
    <3>1. Untaken' \subseteq Pushers
      BY DEF Untaken
    <3> QED BY <3>1, FS_Subset, FS_CardinalityType
  <2> QED BY <1>1, <2>1 DEF RingInv, RingTypes
<1>4. (count + Cardinality(Uncounted) <= sequece)'
  <2>1. Uncounted' = Uncounted
    BY <1>1, <1>2 DEF OthersStay, Uncounted
  <2> QED BY <1>1, <2>1 DEF RingInv, RingCounts
<1>5. PusherHas(t)'
  BY <1>2 DEF RingInv, RingTypes, PusherHas, Holding
<1> QED BY <1>1, <1>2, <1>3, <1>4, <1>5, QuietStep DEF RingInv, RingTypes

LEMMA LoadStep ==
  ASSUME RingInv, NEW t \in Pushers,
         Ring!LoadHead(t) \/ Ring!LoadCount(t) \/ Ring!Test(t) \/ Ring!LoadSequence(t)
  PROVE  RingInv'
<1> USE DEF Places, PlacesBeforeTake
<1>1. me \in Mes /\ head_index \in Ring!Slots /\ count \in Nat /\ sequece \in Nat /\ PusherHas(t)
  BY DEF RingInv, RingTypes
<1>2. /\ me' \in Mes /\ OthersStay(t) /\ me'[t].want = me[t].want
      /\ me[t].pc \in {"head", "count", "test", "sequence"}
      /\ me'[t].pc \in {"count", "test", "subtract", "sequence", "take"}
      /\ me'[t].pc = "subtract" => me'[t].count # 0
      /\ me'[t].seq \in Nat
      /\ UNCHANGED << head_index, sequece, count, lockers >>
  <2>1. CASE Ring!LoadHead(t)
    BY <1>1, <2>1, KeepsHead DEF Ring!LoadHead, Ring!At, PusherHas
  <2>2. CASE Ring!LoadCount(t)
    BY <1>1, <2>2, KeepsCount DEF Ring!LoadCount, Ring!At, PusherHas
  <2>3. CASE Ring!Test(t)
    BY <1>1, <2>3, Goes DEF Ring!Test, Ring!At, PusherHas
  <2>4. CASE Ring!LoadSequence(t)
    BY <1>1, <2>4, KeepsSeq DEF Ring!LoadSequence, Ring!At, PusherHas
  <2> QED BY <2>1, <2>2, <2>3, <2>4
<1>3. PusherHas(t)'
  <2>1. me'[t].count \in Nat
    BY <1>2 DEF Mes, Locals
  <2> QED BY <1>1, <1>2, <2>1 DEF PusherHas, Holding
<1> QED BY <1>2, <1>3, QuietStep, IdleCounts

LEMMA SubtractStep ==
  ASSUME RingInv, NEW t \in Pushers, Ring!Subtract(t)
  PROVE  RingInv'
<1> USE DEF Places, PlacesBeforeTake
<1>1. me \in Mes /\ count \in Nat /\ sequece \in Nat /\ PusherHas(t) /\ me[t].pc = "subtract"
  BY DEF RingInv, RingTypes, Ring!Subtract, Ring!At
<1>2. me[t].count > 0
  BY <1>1 DEF PusherHas
<1>3. CASE count = me[t].count
  <2>1. /\ count' = count - 1 /\ Ring!Goto(t, "advance")
        /\ UNCHANGED << head_index, sequece, lockers >>
    BY <1>3 DEF Ring!Subtract
  <2>2. /\ me' \in Mes /\ OthersStay(t) /\ me'[t].pc = "advance" /\ me'[t].want = me[t].want
        /\ me'[t].seq = me[t].seq
    BY <1>1, <2>1, Goes
  <2>3. PusherHas(t)'
    BY <1>1, <2>2 DEF PusherHas, Holding
  <2>4. Untaken' = Untaken /\ Uncounted' = Uncounted
    BY <1>1, <2>2 DEF OthersStay, Untaken, Uncounted
  <2>5. count' \in Nat /\ count' <= count /\ Cardinality(Uncounted) \in Nat
    BY <1>1, <1>2, <1>3, <2>1, ThreadSetsFinite
  <2>6. (count + Cardinality(Uncounted) <= sequece)'
    BY <1>1, <2>1, <2>4, <2>5 DEF RingInv, RingCounts
  <2>7. (sequece + Cardinality(Untaken) <= MaxPushes + Cardinality(Pushers) - 1)'
    BY <2>1, <2>4 DEF RingInv, RingCounts
  <2> QED BY <1>1, <2>1, <2>2, <2>3, <2>5, <2>6, <2>7, QuietStep DEF RingInv, RingTypes
<1>4. CASE count # me[t].count
  <2>1. Ring!Keep(t, "test", "count", count) /\ UNCHANGED << head_index, sequece, count, lockers >>
    BY <1>4 DEF Ring!Subtract
  <2>2. /\ me' \in Mes /\ OthersStay(t) /\ me'[t].pc = "test" /\ me'[t].want = me[t].want
        /\ me'[t].seq = me[t].seq
    BY <1>1, <2>1, KeepsCount
  <2>3. PusherHas(t)'
    BY <1>1, <2>2 DEF PusherHas, Holding
  <2> QED BY <1>1, <2>1, <2>2, <2>3, QuietStep, IdleCounts
<1> QED BY <1>3, <1>4

LEMMA AdvanceStep ==
  ASSUME RingInv, NEW t \in Pushers, Ring!Advance(t)
  PROVE  RingInv'
<1> USE DEF Places, PlacesBeforeTake
<1>1. /\ me \in Mes /\ head_index \in Ring!Slots /\ PusherHas(t) /\ me[t].pc = "advance"
      /\ UNCHANGED << sequece, count, lockers >>
  BY DEF RingInv, RingTypes, Ring!Advance, Ring!At
<1>2. me[t].head \in 0..(Size - 1)
  BY <1>1 DEF Mes, Locals, Ring!Slots
<1>3. Ring!NextHead(t) \in Ring!Slots
  BY <1>2 DEF Ring!NextHead, Ring!Slots
<1>4. /\ me' \in Mes /\ OthersStay(t) /\ me'[t].pc \in {"evict", "count"} /\ me'[t].want = me[t].want
      /\ me'[t].seq = me[t].seq /\ head_index' \in Ring!Slots
  <2>1. CASE head_index = me[t].head
    BY <1>1, <1>3, <2>1, Goes DEF Ring!Advance
  <2>2. CASE head_index # me[t].head
    BY <1>1, <2>2, KeepsHead DEF Ring!Advance
  <2> QED BY <2>1, <2>2
<1>5. PusherHas(t)'
  BY <1>1, <1>4 DEF PusherHas, Holding
<1>6. Untaken' = Untaken /\ Uncounted' = Uncounted
  BY <1>1, <1>4 DEF OthersStay, Untaken, Uncounted
<1>7. /\ (sequece + Cardinality(Untaken) <= MaxPushes + Cardinality(Pushers) - 1)'
      /\ (count + Cardinality(Uncounted) <= sequece)'
      /\ sequece' \in Nat /\ count' \in Nat
  BY <1>1, <1>6 DEF RingInv, RingTypes, RingCounts
<1> QED BY <1>1, <1>4, <1>5, <1>7, QuietStep

LEMMA TakeSequenceStep ==
  ASSUME RingInv, NEW t \in Pushers, Ring!TakeSequence(t)
  PROVE  RingInv'
<1> USE DEF Places, PlacesBeforeTake
<1>1. /\ me \in Mes /\ count \in Nat /\ sequece \in Nat /\ head_index \in Ring!Slots
      /\ PusherHas(t) /\ me[t].pc = "take" /\ UNCHANGED << head_index, count, lockers >>
  BY DEF RingInv, RingTypes, Ring!TakeSequence, Ring!At
<1>2. CASE sequece = me[t].seq
  <2>1. sequece' = sequece + 1 /\ Ring!Goto(t, "add")
    BY <1>2 DEF Ring!TakeSequence
  <2>2. /\ me' \in Mes /\ OthersStay(t) /\ me'[t].pc = "add" /\ me'[t].want = me[t].want
        /\ me'[t].seq = me[t].seq
    BY <1>1, <2>1, Goes
  <2>3. PusherHas(t)'
    BY <1>1, <2>2 DEF PusherHas, Holding
  <2>4. Untaken' = Untaken \ {t} /\ Uncounted' = Uncounted \cup {t}
    BY <2>2, Membership
  <2>5. t \in Untaken /\ t \notin Uncounted
    BY <1>1 DEF Untaken, Uncounted
  <2>6. Cardinality(Untaken') = Cardinality(Untaken) - 1
    BY <2>4, <2>5, ThreadSetsFinite, FS_RemoveElement
  <2>7. Cardinality(Uncounted') = Cardinality(Uncounted) + 1
    BY <2>4, <2>5, ThreadSetsFinite, FS_AddElement
  <2>8. (count + Cardinality(Uncounted) <= sequece)'
    BY <1>1, <2>1, <2>7, ThreadSetsFinite DEF RingInv, RingCounts
  <2>9. (sequece + Cardinality(Untaken) <= MaxPushes + Cardinality(Pushers) - 1)'
    BY <1>1, <2>1, <2>6, ThreadSetsFinite DEF RingInv, RingCounts
  <2> QED BY <1>1, <2>1, <2>2, <2>3, <2>8, <2>9, QuietStep
<1>3. CASE sequece # me[t].seq
  <2>1. Ring!Keep(t, "take", "seq", sequece) /\ UNCHANGED << head_index, sequece, count, lockers >>
    BY <1>3 DEF Ring!TakeSequence
  <2>2. /\ me' \in Mes /\ OthersStay(t) /\ me'[t].pc = "take" /\ me'[t].want = me[t].want
        /\ me'[t].seq = sequece
    BY <1>1, <2>1, KeepsSeq
  <2>3. PusherHas(t)'
    BY <1>1, <2>2 DEF PusherHas
  <2> QED BY <1>1, <2>1, <2>2, <2>3, QuietStep, IdleCounts
<1> QED BY <1>2, <1>3

LEMMA AddStep ==
  ASSUME RingInv, NEW t \in Pushers, Ring!Add(t)
  PROVE  RingInv'
<1> USE DEF Places, PlacesBeforeTake
<1>1. /\ me \in Mes /\ count \in Nat /\ sequece \in Nat /\ head_index \in Ring!Slots
      /\ PusherHas(t) /\ me[t].pc = "add" /\ UNCHANGED << head_index, sequece, lockers >>
      /\ count' = count + 1 /\ Ring!Goto(t, "lock")
  BY DEF RingInv, RingTypes, Ring!Add, Ring!At
<1>2. /\ me' \in Mes /\ OthersStay(t) /\ me'[t].pc = "lock" /\ me'[t].want = me[t].want
      /\ me'[t].seq = me[t].seq
  BY <1>1, Goes
<1>3. PusherHas(t)'
  BY <1>1, <1>2 DEF PusherHas, Holding
<1>4. Untaken' = Untaken /\ Uncounted' = Uncounted \ {t} /\ t \in Uncounted
  BY <1>1, <1>2 DEF OthersStay, Untaken, Uncounted
<1>5. Cardinality(Uncounted') = Cardinality(Uncounted) - 1
  BY <1>4, ThreadSetsFinite, FS_RemoveElement
<1>6. (count + Cardinality(Uncounted) <= sequece)'
  BY <1>1, <1>5, ThreadSetsFinite DEF RingInv, RingCounts
<1>7. (sequece + Cardinality(Untaken) <= MaxPushes + Cardinality(Pushers) - 1)'
  BY <1>1, <1>4 DEF RingInv, RingCounts
<1> QED BY <1>1, <1>2, <1>3, <1>6, <1>7, QuietStep

(* A slot that pusher t locks, writes or unlocks: nobody else holds it, and *)
(* nobody reads it.                                                         *)
Owned(t, i) ==
  /\ \A u \in Pushers \ {t} : ~Writes(u, i)
  /\ \A u \in Readers : ~(me[u].pc \in Holding /\ me[u].head = i)

LEMMA FreeIsOwned ==
  ASSUME RingInv, NEW t \in Pushers, NEW i \in Ring!Slots, Ring!TryLockForWrite(i)
  PROVE  Owned(t, i)
<1>1. ~lockers[i].writer /\ lockers[i].readers = 0
  BY DEF Ring!TryLockForWrite
<1>2. ReadersOf(i) = {}
  <2>1. Cardinality(ReadersOf(i)) = 0 /\ IsFiniteSet(ReadersOf(i))
    BY <1>1, ThreadSetsFinite DEF RingInv, RingCounts
  <2> QED BY <2>1, FS_EmptySet
<1> QED BY <1>1, <1>2 DEF Owned, RingInv, RingLocks, ReadersOf

LEMMA HeldIsOwned ==
  ASSUME RingInv, NEW t \in Pushers, NEW i \in Ring!Slots, Writes(t, i)
  PROVE  Owned(t, i) /\ lockers[i].writer /\ lockers[i].readers = 0
<1>1. lockers[i].writer /\ \A u \in Pushers : Writes(u, i) => u = t
  BY DEF RingInv, RingLocks
<1>2. \A u \in Readers : ~(me[u].pc \in Holding /\ me[u].head = i)
  BY <1>1 DEF RingInv, RingLocks, ReaderHas
<1>3. ReadersOf(i) = {}
  BY <1>2 DEF ReadersOf
<1>4. lockers[i].readers = 0
  BY <1>3, FS_EmptySet DEF RingInv, RingCounts
<1> QED BY <1>1, <1>2, <1>4 DEF Owned

(* A pusher's step on a slot that is its own.                               *)
LEMMA LoudStep ==
  ASSUME RingInv, NEW t \in Pushers, NEW i \in Ring!Slots, Owned(t, i),
         NEW place \in {"reset", "head", "set", "pushed", "idle"}, Ring!Goto(t, place),
         me[t].pc \in PlacesBeforeTake <=> place \in PlacesBeforeTake, me[t].pc # "add",
         me[t].pc # "idle",
         UNCHANGED << head_index, sequece, count >>,
         lockers' \in Lockers, \A k \in Ring!Slots \ {i} : lockers'[k] = lockers[k],
         lockers'[i].readers = lockers[i].readers,
         place = "reset" => me[t].head = i /\ lockers'[i].writer,
         place \in {"set", "pushed"} => Ring!Slot(t) = i /\ lockers'[i].writer
  PROVE  RingInv'
<1>1. /\ me' \in Mes /\ OthersStay(t) /\ me'[t].pc = place
      /\ me'[t].want = me[t].want /\ me'[t].head = me[t].head
      /\ me'[t].count = me[t].count /\ me'[t].seq = me[t].seq
  <2>1. me \in Mes /\ place \in Places
    BY DEF RingInv, RingTypes, Places, PlacesBeforeTake
  <2> QED BY <2>1, Goes
<1>2. t \notin Readers /\ (\A u \in Readers : me'[u] = me[u]) /\ \A u \in Pushers \ {t} : me'[u] = me[u]
  BY <1>1 DEF OthersStay
<1>3. RingTypes'
  <2>1. PusherHas(t)'
    BY <1>1 DEF RingInv, RingTypes, PusherHas, Holding
  <2> QED BY <1>1, <1>2, <2>1 DEF RingInv, RingTypes, PusherHas
<1>4. RingCounts'
  <2>1. Untaken' = Untaken /\ Uncounted' = Uncounted
    BY <1>1, <1>2 DEF Untaken, Uncounted
  <2>2. \A k \in Ring!Slots : lockers'[k].readers = Cardinality(ReadersOf(k)')
    <3>1. \A k \in Ring!Slots : lockers'[k].readers = lockers[k].readers
      OBVIOUS
    <3> QED BY <1>1, <3>1, ReadersStay DEF RingInv, RingCounts
  <2> QED BY <2>1, <2>2 DEF RingInv, RingCounts
<1>5. RingLocks'
  <2>1. \A k \in Ring!Slots : Writes(t, k)' => k = i /\ lockers'[i].writer
    BY <1>1 DEF Writes, Ring!Slot
  <2>2. \A u \in Pushers \ {t}, k \in Ring!Slots : Writes(u, k)' = Writes(u, k)
    BY <1>2 DEF Writes, Ring!Slot
  <2>3. \A u \in Pushers \ {t} : ~Writes(u, i)
    BY DEF Owned
  <2>4. \A u \in Pushers \ {t}, k \in Ring!Slots : Writes(u, k)' => lockers'[k].writer
    BY <2>2, <2>3 DEF RingInv, RingLocks
  <2>5. \A u \in Readers : ReaderHas(u)'
    <3> SUFFICES ASSUME NEW u \in Readers, me[u].pc \in Holding
                 PROVE  /\ lockers'[me[u].head].no = me[u].seq /\ ~lockers'[me[u].head].writer
                        /\ me[u].pc = "reading" => lockers'[me[u].head].setted
      BY <1>2 DEF ReaderHas
    <3>1. me[u].head # i /\ me[u].head \in Ring!Slots
      BY DEF Owned, RingInv, RingTypes, Mes, Locals
    <3> QED BY <3>1 DEF RingInv, RingLocks, ReaderHas
  <2> QED BY <2>1, <2>2, <2>3, <2>4, <2>5 DEF RingInv, RingLocks
<1> QED BY <1>3, <1>4, <1>5 DEF RingInv

LEMMA WriterChanges ==
  ASSUME lockers \in Lockers, NEW i \in Ring!Slots, NEW b \in BOOLEAN,
         lockers' = [lockers EXCEPT ![i].writer = b]
  PROVE  /\ lockers' \in Lockers /\ \A k \in Ring!Slots \ {i} : lockers'[k] = lockers[k]
         /\ lockers'[i].writer = b /\ lockers'[i].readers = lockers[i].readers
         /\ lockers'[i].setted = lockers[i].setted /\ lockers'[i].info = lockers[i].info
         /\ lockers'[i].no = lockers[i].no
BY DEF Lockers

LEMMA SlotIsSlot ==
  ASSUME RingInv, NEW t \in Pushers \cup Readers
  PROVE  me[t].head \in Ring!Slots /\ Ring!Slot(t) \in Ring!Slots
<1>1. me[t].head \in Ring!Slots /\ me[t].seq \in Int
  BY DEF RingInv, RingTypes, Mes, Locals
<1>2. me[t].seq % Size \in 0..(Size - 1)
  BY <1>1
<1> QED BY <1>1, <1>2 DEF Ring!Slot, Ring!Slots

LEMMA LockEvictedStep ==
  ASSUME RingInv, NEW t \in Pushers, Ring!LockEvicted(t)
  PROVE  RingInv'
<1>1. /\ me[t].pc = "evict" /\ Ring!TryLockForWrite(me[t].head) /\ Ring!Goto(t, "reset")
      /\ lockers' = [lockers EXCEPT ![me[t].head].writer = TRUE]
      /\ UNCHANGED << head_index, sequece, count >> /\ lockers \in Lockers
  BY DEF Ring!LockEvicted, Ring!At, RingInv, RingTypes
<1>2. me[t].head \in Ring!Slots
  BY SlotIsSlot
<1>3. Owned(t, me[t].head)
  BY <1>1, <1>2, FreeIsOwned
<1>4. /\ lockers' \in Lockers /\ \A k \in Ring!Slots \ {me[t].head} : lockers'[k] = lockers[k]
      /\ lockers'[me[t].head].writer /\ lockers'[me[t].head].readers = lockers[me[t].head].readers
  BY <1>1, <1>2, WriterChanges
<1>5. me[t].pc \in PlacesBeforeTake /\ "reset" \in PlacesBeforeTake
  BY <1>1 DEF PlacesBeforeTake
<1> QED BY <1>1, <1>2, <1>3, <1>4, <1>5, LoudStep

LEMMA ResetStep ==
  ASSUME RingInv, NEW t \in Pushers, Ring!Reset(t)
  PROVE  RingInv'
<1>1. /\ me[t].pc = "reset" /\ Ring!Goto(t, "head")
      /\ lockers' = [lockers EXCEPT ![me[t].head] = Ring!Unset]
      /\ UNCHANGED << head_index, sequece, count >> /\ lockers \in Lockers
  BY DEF Ring!Reset, Ring!ResetTo, Ring!At, RingInv, RingTypes
<1>2. me[t].head \in Ring!Slots
  BY SlotIsSlot
<1>3. Owned(t, me[t].head) /\ lockers[me[t].head].readers = 0
  BY <1>1, <1>2, HeldIsOwned DEF Writes
<1>4. /\ lockers' \in Lockers /\ \A k \in Ring!Slots \ {me[t].head} : lockers'[k] = lockers[k]
      /\ lockers'[me[t].head].readers = 0
  BY <1>1, <1>2 DEF Lockers, Ring!Unset, Ring!NoInfo
<1>5. me[t].pc \in PlacesBeforeTake /\ "head" \in PlacesBeforeTake
  BY <1>1 DEF PlacesBeforeTake
<1> QED BY <1>1, <1>2, <1>3, <1>4, <1>5, LoudStep

LEMMA LockSlotStep ==
  ASSUME RingInv, NEW t \in Pushers, Ring!LockSlot(t)
  PROVE  RingInv'
<1> DEFINE i == Ring!Slot(t)
<1>1. /\ me[t].pc = "lock" /\ Ring!TryLockForWrite(i) /\ Ring!Goto(t, "set")
      /\ lockers' = [lockers EXCEPT ![i].writer = TRUE]
      /\ UNCHANGED << head_index, sequece, count >> /\ lockers \in Lockers
  BY DEF Ring!LockSlot, Ring!At, RingInv, RingTypes
<1>2. i \in Ring!Slots
  BY SlotIsSlot
<1>3. Owned(t, i)
  BY <1>1, <1>2, FreeIsOwned
<1>4. /\ lockers' \in Lockers /\ \A k \in Ring!Slots \ {i} : lockers'[k] = lockers[k]
      /\ lockers'[i].writer /\ lockers'[i].readers = lockers[i].readers
  BY <1>1, <1>2, WriterChanges
<1>5. me[t].pc \notin PlacesBeforeTake /\ "set" \notin PlacesBeforeTake
  BY <1>1 DEF PlacesBeforeTake
<1> QED BY <1>1, <1>2, <1>3, <1>4, <1>5, LoudStep

LEMMA SetStep ==
  ASSUME RingInv, NEW t \in Pushers, Ring!Set(t)
  PROVE  RingInv'
<1> DEFINE i == Ring!Slot(t)
<1>1. /\ me[t].pc = "set" /\ Ring!Goto(t, "pushed")
      /\ lockers' = [lockers EXCEPT ![i].setted = TRUE, ![i].no = me[t].seq,
                                    ![i].info = [offset |-> me[t].want, size |-> 1]]
      /\ UNCHANGED << head_index, sequece, count >> /\ lockers \in Lockers
  BY DEF Ring!Set, Ring!At, RingInv, RingTypes
<1>2. i \in Ring!Slots
  BY SlotIsSlot
<1>3. Owned(t, i) /\ lockers[i].writer
  BY <1>1, <1>2, HeldIsOwned DEF Writes
<1>4. [offset |-> me[t].want, size |-> 1] \in [offset : Offsets \cup {0}, size : 0..1]
      /\ me[t].seq \in Int
  BY <1>1 DEF RingInv, RingTypes, PusherHas
<1>5. /\ lockers' \in Lockers /\ \A k \in Ring!Slots \ {i} : lockers'[k] = lockers[k]
      /\ lockers'[i].writer = lockers[i].writer /\ lockers'[i].readers = lockers[i].readers
  <2> DEFINE l == [offset |-> me[t].want, size |-> 1]
             q == [lockers[i] EXCEPT !.setted = TRUE, !.no = me[t].seq, !.info = l]
  <2> HIDE DEF i
  <2>1. lockers' = [lockers EXCEPT ![i] = q]
    BY <1>1
  <2>2. l \in [offset : Offsets \cup {0}, size : 0..1]
    BY <1>4
  <2> HIDE DEF l
  <2>3. /\ q \in [writer : BOOLEAN, readers : Nat, setted : BOOLEAN,
                  info : [offset : Offsets \cup {0}, size : 0..1], no : Int]
        /\ q.writer = lockers[i].writer /\ q.readers = lockers[i].readers
    BY <1>1, <1>2, <1>4, <2>2 DEF Lockers
  <2> HIDE DEF q
  <2>4. lockers \in Lockers /\ i \in Ring!Slots
    BY <1>1, <1>2
  <2>5. lockers' \in Lockers
    BY <2>1, <2>3, <2>4 DEF Lockers
  <2>6. lockers'[i] = q /\ \A k \in Ring!Slots \ {i} : lockers'[k] = lockers[k]
    BY <2>1, <2>4 DEF Lockers
  <2> QED BY <2>3, <2>5, <2>6
<1>6. me[t].pc \notin PlacesBeforeTake /\ "pushed" \notin PlacesBeforeTake
  BY <1>1 DEF PlacesBeforeTake
<1> QED BY <1>1, <1>2, <1>3, <1>5, <1>6, LoudStep

LEMMA UnlockPushStep ==
  ASSUME RingInv, NEW t \in Pushers, Ring!UnlockPush(t)
  PROVE  RingInv'
<1> DEFINE i == Ring!Slot(t)
<1>1. /\ me[t].pc = "pushed" /\ Ring!Goto(t, "idle")
      /\ lockers' = [lockers EXCEPT ![i].writer = FALSE]
      /\ UNCHANGED << head_index, sequece, count >> /\ lockers \in Lockers
  BY DEF Ring!UnlockPush, Ring!At, RingInv, RingTypes
<1>2. i \in Ring!Slots
  BY SlotIsSlot
<1>3. Owned(t, i)
  BY <1>1, <1>2, HeldIsOwned DEF Writes
<1>4. /\ lockers' \in Lockers /\ \A k \in Ring!Slots \ {i} : lockers'[k] = lockers[k]
      /\ lockers'[i].readers = lockers[i].readers
  BY <1>1, <1>2, WriterChanges
<1>5. me[t].pc \notin PlacesBeforeTake /\ "idle" \notin PlacesBeforeTake
  BY <1>1 DEF PlacesBeforeTake
<1> QED BY <1>1, <1>2, <1>3, <1>4, <1>5, LoudStep

(* A reader's step: the slot it locks is not being written, and the pushers *)
(* have what they had.                                                      *)
LEMMA ReaderStep ==
  ASSUME RingInv, NEW t \in Readers, NEW i \in Ring!Slots, OthersStay(t), me' \in Mes,
         me'[t].pc \in Holding \cup {"idle"}, ReaderHas(t)',
         UNCHANGED << head_index, sequece, count >>,
         lockers' \in Lockers, \A k \in Ring!Slots \ {i} : lockers'[k] = lockers[k],
         lockers'[i].setted = lockers[i].setted, lockers'[i].no = lockers[i].no,
         lockers'[i].writer = lockers[i].writer,
         \A k \in Ring!Slots : lockers'[k].readers = Cardinality(ReadersOf(k)')
  PROVE  RingInv'
<1>1. t \notin Pushers /\ (\A u \in Pushers : me'[u] = me[u]) /\ \A u \in Readers \ {t} : me'[u] = me[u]
  BY DEF OthersStay
<1>2. RingTypes'
  BY <1>1 DEF RingInv, RingTypes, PusherHas
<1>3. RingCounts'
  <2>1. Untaken' = Untaken /\ Uncounted' = Uncounted
    BY <1>1 DEF Untaken, Uncounted
  <2> QED BY <2>1 DEF RingInv, RingCounts
<1>4. RingLocks'
  <2>1. \A u \in Pushers, k \in Ring!Slots : Writes(u, k)' = Writes(u, k)
    BY <1>1 DEF Writes, Ring!Slot
  <2>2. \A k \in Ring!Slots : lockers'[k].writer = lockers[k].writer
          /\ lockers'[k].setted = lockers[k].setted /\ lockers'[k].no = lockers[k].no
    OBVIOUS
  <2>3. \A u \in Readers \ {t} : ReaderHas(u)'
    <3> SUFFICES ASSUME NEW u \in Readers \ {t}, me[u].pc \in Holding
                 PROVE  /\ lockers'[me[u].head].no = me[u].seq /\ ~lockers'[me[u].head].writer
                        /\ me[u].pc = "reading" => lockers'[me[u].head].setted
      BY <1>1 DEF ReaderHas
    <3>1. me[u].head \in Ring!Slots
      BY SlotIsSlot
    <3> QED BY <2>2, <3>1 DEF RingInv, RingLocks, ReaderHas
  <2> QED BY <2>1, <2>2, <2>3 DEF RingInv, RingLocks
<1> QED BY <1>2, <1>3, <1>4 DEF RingInv

LEMMA ReadersChange ==
  ASSUME lockers \in Lockers, NEW i \in Ring!Slots, NEW k \in Nat,
         lockers' = [lockers EXCEPT ![i].readers = k]
  PROVE  /\ lockers' \in Lockers /\ \A j \in Ring!Slots \ {i} : lockers'[j] = lockers[j]
         /\ lockers'[i].readers = k /\ lockers'[i].writer = lockers[i].writer
         /\ lockers'[i].setted = lockers[i].setted /\ lockers'[i].info = lockers[i].info
         /\ lockers'[i].no = lockers[i].no
BY DEF Lockers

LEMMA LockAtStep ==
  ASSUME RingInv, NEW t \in Readers, NEW i \in Ring!Slots, Ring!LockAt(t, i)
  PROVE  RingInv'
<1>1. /\ me[t].pc = "idle" /\ ~lockers[i].writer
      /\ lockers' = [lockers EXCEPT ![i].readers = @ + 1]
      /\ me' = [me EXCEPT ![t].pc = "locked", ![t].head = i, ![t].seq = lockers[i].no]
      /\ UNCHANGED << head_index, sequece, count >> /\ lockers \in Lockers /\ me \in Mes
  BY DEF Ring!LockAt, Ring!At, RingInv, RingTypes
<1>2. lockers[i].readers \in Nat /\ lockers[i].no \in Int
  BY <1>1 DEF Lockers
<1>3. lockers' = [lockers EXCEPT ![i].readers = lockers[i].readers + 1]
      /\ lockers[i].readers + 1 \in Nat
  BY <1>1, <1>2
<1>4. /\ lockers' \in Lockers /\ \A j \in Ring!Slots \ {i} : lockers'[j] = lockers[j]
      /\ lockers'[i].readers = lockers[i].readers + 1 /\ lockers'[i].writer = lockers[i].writer
      /\ lockers'[i].setted = lockers[i].setted /\ lockers'[i].no = lockers[i].no
  BY <1>1, <1>2, <1>3, ReadersChange
<1>5. me' \in Mes /\ OthersStay(t) /\ me'[t].pc = "locked" /\ me'[t].head = i
      /\ me'[t].seq = lockers[i].no
  <2>1. PICK no \in Int : no = lockers[i].no
    BY <1>2
  <2>2. t \in Pushers \cup Readers /\ me \in Mes
        /\ me' = [me EXCEPT ![t].pc = "locked", ![t].head = i, ![t].seq = no]
    BY <1>1, <2>1
  <2>3. /\ me' \in Mes /\ OthersStay(t) /\ me'[t].pc = "locked"
        /\ me'[t].head = i /\ me'[t].seq = no
    BY <2>2, Reads
  <2> QED BY <2>1, <2>3
<1>6. ReaderHas(t)'
  BY <1>1, <1>4, <1>5 DEF ReaderHas, Holding
<1>7. \A k \in Ring!Slots : lockers'[k].readers = Cardinality(ReadersOf(k)')
  <2>1. ReadersOf(i)' = ReadersOf(i) \cup {t} /\ t \notin ReadersOf(i)
    BY <1>1, <1>5 DEF ReadersOf, OthersStay, Holding
  <2>2. Cardinality(ReadersOf(i)') = Cardinality(ReadersOf(i)) + 1
    BY <2>1, ThreadSetsFinite, FS_AddElement
  <2>3. \A k \in Ring!Slots \ {i} : ReadersOf(k)' = ReadersOf(k)
    BY <1>1, <1>5 DEF ReadersOf, OthersStay, Holding
  <2> QED BY <1>4, <2>2, <2>3 DEF RingInv, RingCounts
<1>8. me'[t].pc \in Holding \cup {"idle"}
  BY <1>5 DEF Holding
<1> QED BY <1>1, <1>4, <1>5, <1>6, <1>7, <1>8, ReaderStep

LEMMA SettedStep ==
  ASSUME RingInv, NEW t \in Readers, Ring!Setted(t)
  PROVE  RingInv'
<1>0. PICK i \in Ring!Slots : i = me[t].head
  BY SlotIsSlot
<1> DEFINE place == IF lockers[i].setted THEN "reading" ELSE "refused"
<1>1. /\ me[t].pc = "locked" /\ Ring!Goto(t, place)
      /\ UNCHANGED << head_index, sequece, count, lockers >> /\ lockers \in Lockers /\ me \in Mes
  BY <1>0 DEF Ring!Setted, Ring!At, RingInv, RingTypes
<1>2. place \in Holding /\ place \in Places /\ (place = "reading" => lockers[i].setted)
  BY DEF Holding, Places
<1> HIDE DEF place
<1>3. me' \in Mes /\ OthersStay(t) /\ me'[t].pc = place /\ me'[t].head = i /\ me'[t].seq = me[t].seq
  BY <1>0, <1>1, <1>2, Goes
<1>4. ReaderHas(t)'
  <2>1. me[t].pc \in Holding
    BY <1>1 DEF Holding
  <2> QED BY <1>0, <1>1, <1>2, <1>3, <2>1 DEF RingInv, RingLocks, ReaderHas
<1>5. \A k \in Ring!Slots : lockers'[k].readers = Cardinality(ReadersOf(k)')
  <2>1. \A k \in Ring!Slots : ReadersOf(k)' = ReadersOf(k)
    BY <1>0, <1>1, <1>2, <1>3 DEF ReadersOf, OthersStay, Holding
  <2> QED BY <1>1, <2>1 DEF RingInv, RingCounts
<1> QED BY <1>1, <1>2, <1>3, <1>4, <1>5, ReaderStep

LEMMA ReleaseStep ==
  ASSUME RingInv, NEW t \in Readers, Ring!Refuse(t) \/ Ring!UnlockAt(t)
  PROVE  RingInv'
<1>0. PICK i \in Ring!Slots : i = me[t].head
  BY SlotIsSlot
<1>1. /\ me[t].pc \in Holding /\ Ring!Goto(t, "idle")
      /\ lockers' = [lockers EXCEPT ![i].readers = @ - 1]
      /\ UNCHANGED << head_index, sequece, count >> /\ lockers \in Lockers /\ me \in Mes
  BY <1>0 DEF Ring!Refuse, Ring!UnlockAt, Ring!ReleaseReadLock, Ring!At, RingInv, RingTypes, Holding
<1>3. t \in ReadersOf(i)
  BY <1>0, <1>1 DEF ReadersOf
<1>4. lockers[i].readers - 1 \in Nat
  <2>1. Cardinality(ReadersOf(i)) # 0
    BY <1>3, ThreadSetsFinite, FS_EmptySet
  <2> QED BY <2>1, ThreadSetsFinite DEF RingInv, RingCounts
<1>5. /\ lockers' \in Lockers /\ \A j \in Ring!Slots \ {i} : lockers'[j] = lockers[j]
      /\ lockers'[i].readers = lockers[i].readers - 1 /\ lockers'[i].writer = lockers[i].writer
      /\ lockers'[i].setted = lockers[i].setted /\ lockers'[i].no = lockers[i].no
  <2>1. lockers' = [lockers EXCEPT ![i].readers = lockers[i].readers - 1]
    BY <1>1
  <2> QED BY <1>1, <1>4, <2>1, ReadersChange
<1>6. me' \in Mes /\ OthersStay(t) /\ me'[t].pc = "idle" /\ me'[t].head = i
  <2>1. "idle" \in Places
    BY DEF Places
  <2> QED BY <1>0, <1>1, <2>1, Goes
<1>7. ReaderHas(t)'
  BY <1>6 DEF ReaderHas, Holding
<1>8. \A k \in Ring!Slots : lockers'[k].readers = Cardinality(ReadersOf(k)')
  <2>1. ReadersOf(i)' = ReadersOf(i) \ {t}
    BY <1>0, <1>1, <1>6 DEF ReadersOf, OthersStay, Holding
  <2>2. Cardinality(ReadersOf(i)') = Cardinality(ReadersOf(i)) - 1
    BY <1>3, <2>1, ThreadSetsFinite, FS_RemoveElement
  <2>3. \A k \in Ring!Slots \ {i} : ReadersOf(k)' = ReadersOf(k)
    BY <1>0, <1>1, <1>6 DEF ReadersOf, OthersStay, Holding
  <2> QED BY <1>5, <2>2, <2>3 DEF RingInv, RingCounts
<1> QED BY <1>1, <1>5, <1>6, <1>7, <1>8, ReaderStep

(* Every step keeps it.                                                     *)
LEMMA RingInvStep == RingInv /\ [Ring!Next]_(Ring!vars) => RingInv'
<1> SUFFICES ASSUME RingInv, [Ring!Next]_(Ring!vars) PROVE RingInv'
  OBVIOUS
<1>1. CASE \E t \in Pushers :
             Ring!Push(t) \/ Ring!UnlockPush(t) \/ \E o \in Offsets : Ring!LockPush(t, o)
  BY <1>1, LockPushStep, LoadStep, SubtractStep, AdvanceStep, LockEvictedStep, ResetStep,
     TakeSequenceStep, AddStep, LockSlotStep, SetStep, UnlockPushStep
     DEF Ring!Push, Ring!Pop
<1>2. CASE \E t \in Readers : Ring!Read(t) \/ \E i \in Ring!Slots : Ring!LockAt(t, i)
  BY <1>2, SettedStep, ReleaseStep, LockAtStep DEF Ring!Read
<1>3. CASE UNCHANGED Ring!vars
  <2>1. UNCHANGED << head_index, sequece, count, lockers, me >>
    BY <1>3 DEF Ring!vars
  <2> QED BY <2>1 DEF RingInv, RingTypes, RingCounts, RingLocks, PusherHas, ReaderHas,
                      Untaken, Uncounted, ReadersOf, Writes, Ring!Slot
<1> QED BY <1>1, <1>2, <1>3 DEF Ring!Next

(* Two cardinalities of MCThreads and LockerQueue are the same.             *)
LEMMA RingTypeSafe ==
  ASSUME RingInv
  PROVE  Ring!TypeOK
<1>1. /\ Ring!Cardinality(Pushers) = Cardinality(Pushers)
      /\ Ring!Cardinality(Readers) = Cardinality(Readers)
  BY DEF Ring!Cardinality, Cardinality, Ring!IsFiniteSet, IsFiniteSet
<1>2. sequece \in 0..(MaxPushes + Cardinality(Pushers) - 1) /\ count \in 0..sequece
  BY ThreadSetsFinite DEF RingInv, RingTypes, RingCounts
<1>3. \A i \in Ring!Slots : lockers[i].readers \in 0..Cardinality(Readers)
  BY ThreadSetsFinite DEF RingInv, RingCounts
<1>4. lockers \in [Ring!Slots ->
        [writer : BOOLEAN, readers : 0..Cardinality(Readers), setted : BOOLEAN,
         info : [offset : Offsets \cup {0}, size : 0..1], no : Int]]
  BY <1>3 DEF RingInv, RingTypes, Lockers
<1>5. \A t \in Pushers \cup Readers : me[t].head \in Ring!Slots
  BY SlotIsSlot
<1>6. head_index \in Ring!Slots
  BY DEF RingInv, RingTypes
<1> QED BY <1>1, <1>2, <1>4, <1>5, <1>6 DEF Ring!TypeOK, Ring!Threads

(* What the invariant says of the properties.                               *)
LEMMA RingSafe ==
  ASSUME RingInv
  PROVE  Ring!HolderUndisturbed
<1>1. \A t \in Readers : me[t].pc \in {"locked", "reading", "refused"} =>
        LET l == lockers[me[t].head] IN
          /\ l.no = me[t].seq /\ ~l.writer
          /\ Ring!At(t, "reading") => l.setted
  BY DEF RingInv, RingLocks, ReaderHas, Ring!At, Holding
<1>2. \A t, u \in Pushers :
        t # u /\ Ring!At(t, "pushed") /\ Ring!At(u, "pushed") => Ring!Slot(t) # Ring!Slot(u)
  BY SlotIsSlot DEF RingInv, RingLocks, Writes, Ring!At
<1> QED BY <1>1, <1>2 DEF Ring!HolderUndisturbed

-----------------------------------------------------------------------------
(* The ring of lockers with one pusher. *)

PlaceOf == me[Alone].pc

(* The numbers of the first element in the ring, and of the one behind the  *)
(* last, wherever the pusher is.                                            *)
FirstIn ==
  IF PlaceOf \in {"advance", "evict", "reset", "add"} THEN sequece - count - 1 ELSE sequece - count
NextIn == IF PlaceOf \in {"add", "lock", "set"} THEN sequece - 1 ELSE sequece

(* The set slots hold the elements from first to before next.               *)
Holds(first, next) ==
  /\ first \in Nat /\ next \in Nat /\ first <= next /\ next - first <= Size
  /\ \A m \in first..(next - 1) : lockers[m % Size].setted /\ lockers[m % Size].no = m
  /\ \A i \in Ring!Slots :
       lockers[i].setted => \E m \in first..(next - 1) : i = m % Size

(* What the pusher knows, place by place, and where the head is.            *)
AloneKnows ==
  /\ PlaceOf \in {"sequence", "take", "add", "lock", "set"} => NextIn - FirstIn < Size
  /\ PlaceOf \in {"subtract", "advance", "evict", "reset"} => FirstIn < NextIn
  /\ head_index = (IF PlaceOf \in {"evict", "reset"} THEN FirstIn + 1 ELSE FirstIn) % Size
  /\ PlaceOf \in {"count", "test", "subtract", "advance", "evict", "reset", "sequence"} =>
       me[Alone].head = FirstIn % Size
  /\ PlaceOf \in {"test", "subtract"} => me[Alone].count = count
  /\ PlaceOf = "take" => me[Alone].seq = sequece
  /\ PlaceOf \in {"add", "lock", "set", "pushed"} => me[Alone].seq = sequece - 1
  /\ PlaceOf = "sequence" /\ count > 0 => ~Ring!InTheWay(Alone)

AloneInv ==
  /\ \A t \in Pushers \ {Alone} : me[t].pc = "idle"
  /\ Holds(FirstIn, NextIn)
  /\ AloneKnows

(* The invariant holds at first.                                            *)
LEMMA AloneInvInit == Ring!Init => AloneInv
<1> SUFFICES ASSUME Ring!Init PROVE AloneInv
  OBVIOUS
<1>1. /\ \A t \in Pushers : me[t].pc = "idle"
      /\ \A i \in Ring!Slots : lockers[i].setted = FALSE
      /\ head_index = 0 /\ sequece = 0 /\ count = 0
  BY DEF Ring!Init, Ring!Threads, Ring!Idle, Ring!Unset
<1>2. FirstIn = 0 /\ NextIn = 0
  BY <1>1 DEF FirstIn, NextIn, PlaceOf
<1>3. 0 % Size = 0
  OBVIOUS
<1> QED BY <1>1, <1>2, <1>3 DEF AloneInv, Holds, AloneKnows, PlaceOf

(* The window stays where the slots keep what they have.                    *)
LEMMA WindowStays ==
  ASSUME RingInv, AloneInv, FirstIn' = FirstIn, NextIn' = NextIn,
         \A i \in Ring!Slots : lockers'[i].setted = lockers[i].setted /\ lockers'[i].no = lockers[i].no
  PROVE  Holds(FirstIn, NextIn)'
<1>1. Holds(FirstIn, NextIn)
  BY DEF AloneInv
<1>2. \A m \in FirstIn..(NextIn - 1) : m % Size \in Ring!Slots
  <2> SUFFICES ASSUME NEW m \in FirstIn..(NextIn - 1) PROVE m % Size \in Ring!Slots
    OBVIOUS
  <2>1. m \in Int
    BY <1>1 DEF Holds
  <2> QED BY <2>1 DEF Ring!Slots
<1> QED BY <1>1, <1>2 DEF Holds

(* Steps of readers.                                                        *)
LEMMA AloneReaderStep ==
  ASSUME RingInv, AloneInv, NEW t \in Readers, me' \in Mes, OthersStay(t),
         UNCHANGED << head_index, sequece, count >>,
         \A i \in Ring!Slots : /\ lockers'[i].setted = lockers[i].setted
                               /\ lockers'[i].no = lockers[i].no
                               /\ lockers'[i].info = lockers[i].info
  PROVE  AloneInv'
<1>1. t \notin Pushers /\ \A u \in Pushers : me'[u] = me[u]
  BY DEF OthersStay
<1>2. PlaceOf' = PlaceOf /\ FirstIn' = FirstIn /\ NextIn' = NextIn
  BY <1>1 DEF PlaceOf, FirstIn, NextIn
<1>3. Ring!InTheWay(Alone)' = Ring!InTheWay(Alone)
  <2>1. me[Alone].head \in Ring!Slots
    BY SlotIsSlot
  <2> QED BY <1>1, <2>1 DEF Ring!InTheWay
<1> QED BY <1>1, <1>2, <1>3, WindowStays DEF AloneInv, AloneKnows

(* Where the counters are, in terms of the window.                          *)
LEMMA WindowCounts ==
  ASSUME RingInv, AloneInv
  PROVE  /\ FirstIn \in Nat /\ NextIn \in Nat /\ sequece \in Nat /\ count \in Nat
         /\ PlaceOf \notin {"advance", "evict", "reset", "lock", "set"} => count = NextIn - FirstIn
BY DEF RingInv, RingTypes, AloneInv, Holds, FirstIn, NextIn, PlaceOf

(* Steps of the pusher that leave the lockers, and those that only lock.    *)
LEMMA AloneQuietStep ==
  ASSUME RingInv, AloneInv, me' \in Mes, OthersStay(Alone), FirstIn' = FirstIn, NextIn' = NextIn,
         \A i \in Ring!Slots : lockers'[i].setted = lockers[i].setted /\ lockers'[i].no = lockers[i].no,
         AloneKnows'
  PROVE  AloneInv'
<1>1. \A t \in Pushers \ {Alone} : me'[t] = me[t]
  BY DEF OthersStay
<1> QED BY <1>1, WindowStays DEF AloneInv

LEMMA AlonePops ==
  ASSUME RingInv, AloneInv,
         \/ \E o \in Offsets : Ring!LockPush(Alone, o)
         \/ Ring!LoadHead(Alone) \/ Ring!LoadCount(Alone) \/ Ring!Test(Alone)
  PROVE  AloneInv'
<1> USE DEF Places, PlacesBeforeTake
<1>1. me \in Mes /\ head_index \in Ring!Slots
  BY DEF RingInv, RingTypes
<1>2. UNCHANGED << head_index, sequece, count, lockers >>
  BY DEF Ring!LockPush, Ring!LoadHead, Ring!LoadCount, Ring!Test
<1>3. FirstIn \in Nat /\ NextIn \in Nat /\ sequece \in Nat /\ count \in Nat
  BY WindowCounts
<1>4. AloneKnows
  BY DEF AloneInv
<1>5. CASE \E o \in Offsets : Ring!LockPush(Alone, o)
  <2>1. me' \in Mes /\ OthersStay(Alone) /\ PlaceOf = "idle" /\ PlaceOf' = "head"
    BY <1>1, <1>5, KeepsWant DEF Ring!LockPush, Ring!At, PlaceOf
  <2>2. FirstIn' = FirstIn /\ NextIn' = NextIn
    BY <1>2, <2>1 DEF FirstIn, NextIn
  <2>3. AloneKnows'
    BY <1>2, <1>4, <2>1, <2>2 DEF AloneKnows
  <2> QED BY <1>2, <2>1, <2>2, <2>3, AloneQuietStep
<1>6. CASE Ring!LoadHead(Alone)
  <2>1. /\ me' \in Mes /\ OthersStay(Alone) /\ PlaceOf = "head" /\ PlaceOf' = "count"
        /\ me'[Alone].head = head_index
    BY <1>1, <1>6, KeepsHead DEF Ring!LoadHead, Ring!At, PlaceOf
  <2>2. FirstIn' = FirstIn /\ NextIn' = NextIn
    BY <1>2, <2>1 DEF FirstIn, NextIn
  <2>3. AloneKnows'
    BY <1>2, <1>4, <2>1, <2>2 DEF AloneKnows
  <2> QED BY <1>2, <2>1, <2>2, <2>3, AloneQuietStep
<1>7. CASE Ring!LoadCount(Alone)
  <2>1. /\ me' \in Mes /\ OthersStay(Alone) /\ PlaceOf = "count" /\ PlaceOf' = "test"
        /\ me'[Alone].head = me[Alone].head /\ me'[Alone].count = count
    BY <1>1, <1>3, <1>7, KeepsCount DEF Ring!LoadCount, Ring!At, PlaceOf
  <2>2. FirstIn' = FirstIn /\ NextIn' = NextIn
    BY <1>2, <2>1 DEF FirstIn, NextIn
  <2>3. AloneKnows'
    BY <1>2, <1>4, <2>1, <2>2 DEF AloneKnows
  <2> QED BY <1>2, <2>1, <2>2, <2>3, AloneQuietStep
<1>8. CASE Ring!Test(Alone)
  <2>1. /\ me' \in Mes /\ OthersStay(Alone) /\ PlaceOf = "test"
        /\ PlaceOf' = IF me[Alone].count # 0 /\ Ring!MustEvict(Alone) THEN "subtract" ELSE "sequence"
        /\ me'[Alone].head = me[Alone].head /\ me'[Alone].count = me[Alone].count
        /\ me'[Alone].want = me[Alone].want
    BY <1>1, <1>8, Goes DEF Ring!Test, Ring!At, PlaceOf
  <2>2. FirstIn' = FirstIn /\ NextIn' = NextIn
    BY <1>2, <2>1 DEF FirstIn, NextIn
  <2>3. me[Alone].count = count /\ count = NextIn - FirstIn /\ NextIn - FirstIn <= Size
    <3>1. Holds(FirstIn, NextIn)
      BY DEF AloneInv
    <3> QED BY <1>4, <2>1, <3>1, WindowCounts DEF AloneKnows, Holds
  <2>4. Ring!InTheWay(Alone)' = Ring!InTheWay(Alone)
    BY <1>2, <2>1 DEF Ring!InTheWay
  <2>5. CASE me[Alone].count # 0 /\ Ring!MustEvict(Alone)
    <3>1. FirstIn < NextIn
      BY <1>3, <2>3, <2>5
    <3> QED BY <1>2, <1>4, <2>1, <2>2, <2>3, <2>5, <3>1, AloneQuietStep DEF AloneKnows
  <2>6. CASE ~(me[Alone].count # 0 /\ Ring!MustEvict(Alone))
    <3>1. NextIn - FirstIn < Size /\ (count > 0 => ~Ring!InTheWay(Alone))
      BY <1>3, <2>3, <2>6 DEF Ring!MustEvict
    <3>2. AloneKnows'
      BY <1>2, <1>4, <2>1, <2>2, <2>4, <2>6, <3>1 DEF AloneKnows
    <3> QED BY <1>2, <2>1, <2>2, <3>2, AloneQuietStep
  <2> QED BY <2>5, <2>6
<1> QED BY <1>5, <1>6, <1>7, <1>8

LEMMA AloneEvicts ==
  ASSUME RingInv, AloneInv,
         Ring!Subtract(Alone) \/ Ring!Advance(Alone) \/ Ring!LockEvicted(Alone)
  PROVE  AloneInv'
<1> USE DEF Places, PlacesBeforeTake
<1>1. me \in Mes /\ head_index \in Ring!Slots
  BY DEF RingInv, RingTypes
<1>2. FirstIn \in Nat /\ NextIn \in Nat /\ sequece \in Nat /\ count \in Nat
  BY WindowCounts
<1>3. AloneKnows
  BY DEF AloneInv
<1>4. CASE Ring!Subtract(Alone)
  <2>1. PlaceOf = "subtract" /\ me[Alone].count = count
    BY <1>3, <1>4 DEF Ring!Subtract, Ring!At, PlaceOf, AloneKnows
  <2>2. count' = count - 1 /\ Ring!Goto(Alone, "advance") /\ UNCHANGED << head_index, sequece, lockers >>
    BY <1>4, <2>1 DEF Ring!Subtract
  <2>3. me' \in Mes /\ OthersStay(Alone) /\ PlaceOf' = "advance" /\ me'[Alone].head = me[Alone].head
    BY <1>1, <2>2, Goes DEF PlaceOf
  <2>4. FirstIn' = FirstIn /\ NextIn' = NextIn
    BY <1>2, <2>1, <2>2, <2>3 DEF FirstIn, NextIn
  <2>5. AloneKnows'
    BY <1>3, <2>1, <2>2, <2>3, <2>4 DEF AloneKnows
  <2> QED BY <2>2, <2>3, <2>4, <2>5, AloneQuietStep
<1>5. CASE Ring!Advance(Alone)
  <2>1. PlaceOf = "advance" /\ me[Alone].head = head_index /\ head_index = FirstIn % Size
    BY <1>3, <1>5 DEF Ring!Advance, Ring!At, PlaceOf, AloneKnows
  <2>2. /\ head_index' = (me[Alone].head + 1) % Size /\ Ring!Goto(Alone, "evict")
        /\ UNCHANGED << sequece, count, lockers >>
    BY <1>5, <2>1 DEF Ring!Advance, Ring!NextHead
  <2>3. me' \in Mes /\ OthersStay(Alone) /\ PlaceOf' = "evict" /\ me'[Alone].head = me[Alone].head
    BY <1>1, <2>2, Goes DEF PlaceOf
  <2>4. FirstIn' = FirstIn /\ NextIn' = NextIn
    BY <1>2, <2>1, <2>2, <2>3 DEF FirstIn, NextIn
  <2>5. head_index' = (FirstIn + 1) % Size
    BY <1>2, <2>1, <2>2, ModAdd
  <2>6. AloneKnows'
    BY <1>3, <2>1, <2>2, <2>3, <2>4, <2>5 DEF AloneKnows
  <2> QED BY <2>2, <2>3, <2>4, <2>6, AloneQuietStep
<1>6. CASE Ring!LockEvicted(Alone)
  <2>1. /\ PlaceOf = "evict" /\ Ring!Goto(Alone, "reset")
        /\ lockers' = [lockers EXCEPT ![me[Alone].head].writer = TRUE]
        /\ UNCHANGED << head_index, sequece, count >> /\ lockers \in Lockers
    BY <1>6 DEF Ring!LockEvicted, Ring!At, PlaceOf, RingInv, RingTypes
  <2>2. me' \in Mes /\ OthersStay(Alone) /\ PlaceOf' = "reset" /\ me'[Alone].head = me[Alone].head
    BY <1>1, <2>1, Goes DEF PlaceOf
  <2>3. FirstIn' = FirstIn /\ NextIn' = NextIn
    BY <1>2, <2>1, <2>2 DEF FirstIn, NextIn
  <2>4. AloneKnows'
    BY <1>3, <2>1, <2>2, <2>3 DEF AloneKnows
  <2>5. \A i \in Ring!Slots : lockers'[i].setted = lockers[i].setted /\ lockers'[i].no = lockers[i].no
    <3>1. me[Alone].head \in Ring!Slots
      BY SlotIsSlot
    <3> QED BY <2>1, <3>1, WriterChanges
  <2> QED BY <2>2, <2>3, <2>4, <2>5, AloneQuietStep
<1> QED BY <1>4, <1>5, <1>6

(* The element at the head goes: the window begins with the next one, which *)
(* no other slot holds.                                                     *)
LEMMA AloneResets ==
  ASSUME RingInv, AloneInv, Ring!Reset(Alone)
  PROVE  AloneInv'
<1> USE DEF Places, PlacesBeforeTake
<1>1. /\ PlaceOf = "reset" /\ Ring!Goto(Alone, "head")
      /\ lockers' = [lockers EXCEPT ![me[Alone].head] = Ring!Unset]
      /\ UNCHANGED << head_index, sequece, count >> /\ lockers \in Lockers /\ me \in Mes
  BY DEF Ring!Reset, Ring!ResetTo, Ring!At, PlaceOf, RingInv, RingTypes
<1>2. FirstIn \in Nat /\ NextIn \in Nat /\ sequece \in Nat /\ count \in Nat
  BY WindowCounts
<1>3. /\ FirstIn < NextIn /\ me[Alone].head = FirstIn % Size /\ head_index = (FirstIn + 1) % Size
      /\ Holds(FirstIn, NextIn)
  BY <1>1 DEF AloneInv, AloneKnows
<1>4. me' \in Mes /\ OthersStay(Alone) /\ PlaceOf' = "head"
  BY <1>1, Goes DEF PlaceOf
<1>5. FirstIn' = FirstIn + 1 /\ NextIn' = NextIn
  BY <1>1, <1>2, <1>4 DEF FirstIn, NextIn
<1> DEFINE h == FirstIn % Size
<1>6. h \in Ring!Slots
  BY <1>3, SlotIsSlot
<1>7. ~lockers'[h].setted /\ \A i \in Ring!Slots \ {h} : lockers'[i] = lockers[i]
  BY <1>1, <1>3, <1>6 DEF Lockers, Ring!Unset
<1>8. \A m \in (FirstIn + 1)..(NextIn - 1) : m % Size # h /\ m % Size \in Ring!Slots
  <2> SUFFICES ASSUME NEW m \in (FirstIn + 1)..(NextIn - 1)
               PROVE  m % Size # h /\ m % Size \in Ring!Slots
    OBVIOUS
  <2>1. m \in Int /\ FirstIn < m /\ m - FirstIn < Size
    BY <1>2, <1>3 DEF Holds
  <2>2. FirstIn % Size # m % Size
    <3>1. FirstIn \in Int /\ Size \in Nat \ {0}
      BY <1>2
    <3> QED BY <2>1, <3>1, ModApart, Zenon
  <2>3. m % Size \in 0..(Size - 1)
    BY <2>1, DivMod
  <2> QED BY <2>2, <2>3 DEF Ring!Slots
<1>9. Holds(FirstIn, NextIn)'
  <2>1. FirstIn' \in Nat /\ NextIn' \in Nat /\ FirstIn' <= NextIn' /\ NextIn' - FirstIn' <= Size
    BY <1>2, <1>3, <1>5 DEF Holds
  <2>2. \A m \in FirstIn'..(NextIn' - 1) : lockers'[m % Size].setted /\ lockers'[m % Size].no = m
    <3> SUFFICES ASSUME NEW m \in (FirstIn + 1)..(NextIn - 1)
                 PROVE  lockers'[m % Size].setted /\ lockers'[m % Size].no = m
      BY <1>5
    <3>1. m \in FirstIn..(NextIn - 1)
      BY <1>2
    <3>2. lockers'[m % Size] = lockers[m % Size]
      BY <1>7, <1>8
    <3> QED BY <1>3, <3>1, <3>2 DEF Holds
  <2>3. \A i \in Ring!Slots :
          lockers'[i].setted => \E m \in FirstIn'..(NextIn' - 1) : i = m % Size
    <3> SUFFICES ASSUME NEW i \in Ring!Slots, lockers'[i].setted
                 PROVE  \E m \in (FirstIn + 1)..(NextIn - 1) : i = m % Size
      BY <1>5
    <3>1. i # h /\ lockers[i].setted
      BY <1>7
    <3>2. PICK m \in FirstIn..(NextIn - 1) : i = m % Size
      BY <1>3, <3>1 DEF Holds
    <3>3. m # FirstIn
      BY <3>1, <3>2
    <3>4. m \in (FirstIn + 1)..(NextIn - 1)
      BY <1>2, <3>2, <3>3
    <3> QED BY <3>2, <3>4
  <2> QED BY <2>1, <2>2, <2>3 DEF Holds
<1>10. AloneKnows'
  BY <1>1, <1>3, <1>4, <1>5 DEF AloneKnows
<1>11. \A t \in Pushers \ {Alone} : me'[t] = me[t]
  BY <1>4 DEF OthersStay
<1> QED BY <1>9, <1>10, <1>11 DEF AloneInv

LEMMA AloneTakes ==
  ASSUME RingInv, AloneInv,
         \/ Ring!LoadSequence(Alone) \/ Ring!TakeSequence(Alone) \/ Ring!Add(Alone)
         \/ Ring!LockSlot(Alone) \/ Ring!UnlockPush(Alone)
  PROVE  AloneInv'
<1> USE DEF Places, PlacesBeforeTake
<1>1. me \in Mes /\ head_index \in Ring!Slots /\ lockers \in Lockers
  BY DEF RingInv, RingTypes
<1>2. FirstIn \in Nat /\ NextIn \in Nat /\ sequece \in Nat /\ count \in Nat
  BY WindowCounts
<1>3. AloneKnows
  BY DEF AloneInv
<1>4. CASE Ring!LoadSequence(Alone)
  <2>1. /\ PlaceOf = "sequence" /\ Ring!Keep(Alone, "take", "seq", sequece)
        /\ UNCHANGED << head_index, sequece, count, lockers >>
    BY <1>4 DEF Ring!LoadSequence, Ring!At, PlaceOf
  <2>2. me' \in Mes /\ OthersStay(Alone) /\ PlaceOf' = "take" /\ me'[Alone].seq = sequece
    BY <1>1, <1>2, <2>1, KeepsSeq DEF PlaceOf
  <2>3. FirstIn' = FirstIn /\ NextIn' = NextIn
    BY <2>1, <2>2 DEF FirstIn, NextIn
  <2>4. AloneKnows'
    BY <1>3, <2>1, <2>2, <2>3 DEF AloneKnows
  <2> QED BY <2>1, <2>2, <2>3, <2>4, AloneQuietStep
<1>5. CASE Ring!TakeSequence(Alone)
  <2>1. PlaceOf = "take" /\ me[Alone].seq = sequece
    BY <1>3, <1>5 DEF Ring!TakeSequence, Ring!At, PlaceOf, AloneKnows
  <2>2. /\ sequece' = sequece + 1 /\ Ring!Goto(Alone, "add")
        /\ UNCHANGED << head_index, count, lockers >>
    BY <1>5, <2>1 DEF Ring!TakeSequence
  <2>3. me' \in Mes /\ OthersStay(Alone) /\ PlaceOf' = "add" /\ me'[Alone].seq = sequece
    BY <1>1, <2>1, <2>2, Goes DEF PlaceOf
  <2>4. FirstIn' = FirstIn /\ NextIn' = NextIn
    BY <1>2, <2>1, <2>2, <2>3 DEF FirstIn, NextIn
  <2>5. AloneKnows'
    BY <1>2, <1>3, <2>1, <2>2, <2>3, <2>4 DEF AloneKnows
  <2> QED BY <2>2, <2>3, <2>4, <2>5, AloneQuietStep
<1>6. CASE Ring!Add(Alone)
  <2>1. /\ PlaceOf = "add" /\ count' = count + 1 /\ Ring!Goto(Alone, "lock")
        /\ UNCHANGED << head_index, sequece, lockers >>
    BY <1>6 DEF Ring!Add, Ring!At, PlaceOf
  <2>2. me' \in Mes /\ OthersStay(Alone) /\ PlaceOf' = "lock" /\ me'[Alone].seq = me[Alone].seq
    BY <1>1, <2>1, Goes DEF PlaceOf
  <2>3. FirstIn' = FirstIn /\ NextIn' = NextIn
    BY <1>2, <2>1, <2>2 DEF FirstIn, NextIn
  <2>4. AloneKnows'
    BY <1>3, <2>1, <2>2, <2>3 DEF AloneKnows
  <2> QED BY <2>1, <2>2, <2>3, <2>4, AloneQuietStep
<1>7. CASE Ring!LockSlot(Alone)
  <2>1. /\ PlaceOf = "lock" /\ Ring!Goto(Alone, "set")
        /\ lockers' = [lockers EXCEPT ![Ring!Slot(Alone)].writer = TRUE]
        /\ UNCHANGED << head_index, sequece, count >>
    BY <1>7 DEF Ring!LockSlot, Ring!At, PlaceOf
  <2>2. me' \in Mes /\ OthersStay(Alone) /\ PlaceOf' = "set" /\ me'[Alone].seq = me[Alone].seq
    BY <1>1, <2>1, Goes DEF PlaceOf
  <2>3. FirstIn' = FirstIn /\ NextIn' = NextIn
    BY <2>1, <2>2 DEF FirstIn, NextIn
  <2>4. AloneKnows'
    BY <1>3, <2>1, <2>2, <2>3 DEF AloneKnows
  <2>5. \A i \in Ring!Slots : lockers'[i].setted = lockers[i].setted /\ lockers'[i].no = lockers[i].no
    <3>1. Ring!Slot(Alone) \in Ring!Slots
      BY SlotIsSlot
    <3> QED BY <1>1, <2>1, <3>1, WriterChanges
  <2> QED BY <2>2, <2>3, <2>4, <2>5, AloneQuietStep
<1>8. CASE Ring!UnlockPush(Alone)
  <2>1. /\ PlaceOf = "pushed" /\ Ring!Goto(Alone, "idle")
        /\ lockers' = [lockers EXCEPT ![Ring!Slot(Alone)].writer = FALSE]
        /\ UNCHANGED << head_index, sequece, count >>
    BY <1>8 DEF Ring!UnlockPush, Ring!At, PlaceOf
  <2>2. me' \in Mes /\ OthersStay(Alone) /\ PlaceOf' = "idle"
    BY <1>1, <2>1, Goes DEF PlaceOf
  <2>3. FirstIn' = FirstIn /\ NextIn' = NextIn
    BY <2>1, <2>2 DEF FirstIn, NextIn
  <2>4. AloneKnows'
    BY <1>3, <2>1, <2>2, <2>3 DEF AloneKnows
  <2>5. \A i \in Ring!Slots : lockers'[i].setted = lockers[i].setted /\ lockers'[i].no = lockers[i].no
    <3>1. Ring!Slot(Alone) \in Ring!Slots
      BY SlotIsSlot
    <3> QED BY <1>1, <2>1, <3>1, WriterChanges
  <2> QED BY <2>2, <2>3, <2>4, <2>5, AloneQuietStep
<1> QED BY <1>4, <1>5, <1>6, <1>7, <1>8

(* The new element goes behind the last: no slot of the window is its.      *)
LEMMA AloneSets ==
  ASSUME RingInv, AloneInv, Ring!Set(Alone)
  PROVE  AloneInv'
<1> USE DEF Places, PlacesBeforeTake
<1> DEFINE i == NextIn % Size
<1>1. PlaceOf = "set" /\ Ring!Goto(Alone, "pushed") /\ UNCHANGED << head_index, sequece, count >>
      /\ lockers \in Lockers /\ me \in Mes
  BY DEF Ring!Set, Ring!At, PlaceOf, RingInv, RingTypes
<1>2. FirstIn \in Nat /\ NextIn \in Nat /\ sequece \in Nat /\ count \in Nat
  BY WindowCounts
<1>3. /\ NextIn - FirstIn < Size /\ me[Alone].seq = NextIn /\ NextIn = sequece - 1
      /\ head_index = FirstIn % Size /\ Holds(FirstIn, NextIn)
  BY <1>1 DEF AloneInv, AloneKnows, NextIn
<1>4. /\ lockers' = [lockers EXCEPT ![i].setted = TRUE, ![i].no = NextIn,
                                    ![i].info = [offset |-> me[Alone].want, size |-> 1]]
  BY <1>3 DEF Ring!Set, Ring!Slot
<1>5. i \in Ring!Slots
  BY <1>2, DivMod DEF Ring!Slots
<1>6. /\ lockers'[i].setted /\ lockers'[i].no = NextIn
      /\ \A k \in Ring!Slots \ {i} : lockers'[k] = lockers[k]
  <2> HIDE DEF i
  <2> QED BY <1>1, <1>4, <1>5 DEF Lockers
<1>7. me' \in Mes /\ OthersStay(Alone) /\ PlaceOf' = "pushed" /\ me'[Alone].seq = me[Alone].seq
  BY <1>1, Goes DEF PlaceOf
<1>8. FirstIn' = FirstIn /\ NextIn' = NextIn + 1
  BY <1>1, <1>2, <1>7 DEF FirstIn, NextIn
<1>9. \A m \in FirstIn..(NextIn - 1) : m % Size # i /\ m % Size \in Ring!Slots
  <2> SUFFICES ASSUME NEW m \in FirstIn..(NextIn - 1)
               PROVE  m % Size # i /\ m % Size \in Ring!Slots
    OBVIOUS
  <2>1. m \in Int /\ m < NextIn /\ NextIn - m < Size
    BY <1>2, <1>3
  <2>2. m % Size # NextIn % Size
    <3>1. NextIn \in Int /\ Size \in Nat \ {0}
      BY <1>2
    <3> QED BY <2>1, <3>1, ModApart, Zenon
  <2>3. m % Size \in 0..(Size - 1)
    BY <2>1, DivMod
  <2> QED BY <2>2, <2>3 DEF Ring!Slots
<1>10. Holds(FirstIn, NextIn)'
  <2>1. FirstIn' \in Nat /\ NextIn' \in Nat /\ FirstIn' <= NextIn' /\ NextIn' - FirstIn' <= Size
    BY <1>2, <1>3, <1>8 DEF Holds
  <2>2. \A m \in FirstIn'..(NextIn' - 1) : lockers'[m % Size].setted /\ lockers'[m % Size].no = m
    <3> HIDE DEF i
    <3>0. FirstIn'..(NextIn' - 1) = FirstIn..NextIn
      <4>1. NextIn' - 1 = NextIn
        BY <1>2, <1>8
      <4> QED BY <1>8, <4>1
    <3> SUFFICES ASSUME NEW m \in FirstIn..NextIn
                 PROVE  lockers'[m % Size].setted /\ lockers'[m % Size].no = m
      BY <3>0, Zenon
    <3> USE DEF i
    <3>1. CASE m = NextIn
      BY <1>6, <3>1
    <3>2. CASE m # NextIn
      <4>1. m \in FirstIn..(NextIn - 1)
        BY <1>2, <3>2
      <4>2. lockers'[m % Size] = lockers[m % Size]
        BY <1>6, <1>9, <4>1
      <4> QED BY <1>3, <4>1, <4>2 DEF Holds
    <3> QED BY <3>1, <3>2
  <2>3. \A k \in Ring!Slots :
          lockers'[k].setted => \E m \in FirstIn'..(NextIn' - 1) : k = m % Size
    <3> SUFFICES ASSUME NEW k \in Ring!Slots, lockers'[k].setted
                 PROVE  \E m \in FirstIn..NextIn : k = m % Size
      <4>1. NextIn' - 1 = NextIn
        BY <1>2, <1>8
      <4> QED BY <1>8, <4>1
    <3>1. CASE k = i
      BY <1>2, <1>3, <3>1 DEF Holds
    <3>2. CASE k # i
      <4>1. lockers[k].setted
        BY <1>6, <3>2
      <4>2. PICK m \in FirstIn..(NextIn - 1) : k = m % Size
        BY <1>3, <4>1 DEF Holds
      <4> QED BY <1>2, <4>2
    <3> QED BY <3>1, <3>2
  <2> QED BY <2>1, <2>2, <2>3 DEF Holds
<1>11. AloneKnows'
  BY <1>1, <1>2, <1>3, <1>7, <1>8 DEF AloneKnows
<1>12. \A t \in Pushers \ {Alone} : me'[t] = me[t]
  BY <1>7 DEF OthersStay
<1> QED BY <1>10, <1>11, <1>12 DEF AloneInv

(* Every step keeps it.                                                     *)
LEMMA AloneInvStep ==
  ASSUME RingInv, AloneInv, [Ring!Next]_(Ring!vars), \A t \in Pushers \ {Alone} : me'[t] = me[t]
  PROVE  AloneInv'
<1>1. ASSUME NEW t \in Pushers \ {Alone},
             Ring!Push(t) \/ Ring!UnlockPush(t) \/ \E o \in Offsets : Ring!LockPush(t, o)
      PROVE  FALSE
  <2>1. me[t].pc = "idle" /\ me'[t].pc = "idle" /\ me \in Mes
    BY DEF AloneInv, RingInv, RingTypes
  <2>2. PICK o \in Offsets : Ring!LockPush(t, o)
    BY <1>1, <2>1
       DEF Ring!Push, Ring!Pop, Ring!LoadHead, Ring!LoadCount, Ring!Test, Ring!Subtract,
           Ring!Advance, Ring!LockEvicted, Ring!Reset, Ring!LoadSequence, Ring!TakeSequence,
           Ring!Add, Ring!LockSlot, Ring!Set, Ring!UnlockPush, Ring!At
  <2>3. me'[t].pc = "head"
    BY <2>1, <2>2, KeepsWant DEF Ring!LockPush, Places, PlacesBeforeTake
  <2> QED BY <2>1, <2>3
<1>2. CASE Ring!Push(Alone) \/ Ring!UnlockPush(Alone) \/ \E o \in Offsets : Ring!LockPush(Alone, o)
  BY <1>2, AlonePops, AloneEvicts, AloneResets, AloneTakes, AloneSets DEF Ring!Push, Ring!Pop
<1>3. ASSUME NEW t \in Readers, NEW i \in Ring!Slots, Ring!LockAt(t, i)
      PROVE  AloneInv'
  <2>1. /\ me' = [me EXCEPT ![t].pc = "locked", ![t].head = i, ![t].seq = lockers[i].no]
        /\ lockers' = [lockers EXCEPT ![i].readers = @ + 1]
        /\ UNCHANGED << head_index, sequece, count >>
    BY <1>3 DEF Ring!LockAt
  <2>2. me \in Mes /\ lockers \in Lockers /\ lockers[i].no \in Int
    BY DEF RingInv, RingTypes, Lockers
  <2>3. me' \in Mes /\ OthersStay(t)
    BY <2>1, <2>2, Reads
  <2>4. \A k \in Ring!Slots : /\ lockers'[k].setted = lockers[k].setted
                              /\ lockers'[k].no = lockers[k].no
                              /\ lockers'[k].info = lockers[k].info
    BY <2>1, <2>2 DEF Lockers
  <2> QED BY <2>1, <2>3, <2>4, AloneReaderStep
<1>4. ASSUME NEW t \in Readers, Ring!Refuse(t) \/ Ring!UnlockAt(t)
      PROVE  AloneInv'
  <2>1. /\ Ring!Goto(t, "idle") /\ lockers' = [lockers EXCEPT ![me[t].head].readers = @ - 1]
        /\ UNCHANGED << head_index, sequece, count >>
    BY <1>4 DEF Ring!Refuse, Ring!UnlockAt, Ring!ReleaseReadLock
  <2>2. me \in Mes /\ lockers \in Lockers /\ "idle" \in Places /\ me[t].head \in Ring!Slots
    BY SlotIsSlot DEF RingInv, RingTypes, Places
  <2>3. me' \in Mes /\ OthersStay(t)
    BY <2>1, <2>2, Goes
  <2>4. \A k \in Ring!Slots : /\ lockers'[k].setted = lockers[k].setted
                              /\ lockers'[k].no = lockers[k].no
                              /\ lockers'[k].info = lockers[k].info
    BY <2>1, <2>2 DEF Lockers
  <2> QED BY <2>1, <2>3, <2>4, AloneReaderStep
<1>5. ASSUME NEW t \in Readers, Ring!Setted(t)
      PROVE  AloneInv'
  <2>1. PICK place \in Places : Ring!Goto(t, place)
    BY <1>5 DEF Ring!Setted, Places, Holding
  <2>2. me' \in Mes /\ OthersStay(t)
    BY <2>1, Goes DEF RingInv, RingTypes
  <2>3. UNCHANGED << head_index, sequece, count, lockers >>
    BY <1>5 DEF Ring!Setted
  <2> QED BY <2>2, <2>3, AloneReaderStep
<1>6. CASE UNCHANGED Ring!vars
  <2>1. UNCHANGED << head_index, sequece, count, lockers, me >>
    BY <1>6 DEF Ring!vars
  <2> QED BY <2>1 DEF AloneInv, AloneKnows, Holds, PlaceOf, FirstIn, NextIn, Ring!InTheWay
<1> QED BY <1>1, <1>2, <1>3, <1>4, <1>5, <1>6 DEF Ring!Next, Ring!Read

(* What the invariant says of the properties.                               *)
LEMMA AloneSafe ==
  ASSUME RingInv, AloneInv
  PROVE  Ring!RingInOrder /\ Ring!RoomAfterPop
<1>1. FirstIn \in Nat /\ NextIn \in Nat /\ sequece \in Nat /\ count \in Nat /\ Holds(FirstIn, NextIn)
  BY WindowCounts DEF AloneInv
<1>2. Ring!RoomAfterPop
  <2> SUFFICES ASSUME PlaceOf = "sequence"
               PROVE  count < Size /\ (count > 0 => ~Ring!InTheWay(Alone))
    BY DEF Ring!RoomAfterPop, Ring!At, PlaceOf, AloneInv
  <2> QED BY WindowCounts DEF AloneInv, AloneKnows
<1>3. Ring!RingInOrder
  <2> SUFFICES ASSUME PlaceOf \in {"idle", "pushed"}
               PROVE  /\ { i \in Ring!Slots : lockers[i].setted } =
                           { (head_index + k) % Size : k \in 0..(count - 1) }
                      /\ \A k \in 0..(count - 1) :
                           lockers[(head_index + k) % Size].no = sequece - count + k
    BY DEF Ring!RingInOrder, Ring!Between, PlaceOf
  <2>1. /\ FirstIn = sequece - count /\ NextIn = FirstIn + count /\ head_index = FirstIn % Size
    BY <1>1 DEF AloneInv, AloneKnows, FirstIn, NextIn
  <2>2. \A k \in 0..(count - 1) :
          /\ (head_index + k) % Size = (FirstIn + k) % Size /\ FirstIn + k \in FirstIn..(NextIn - 1)
          /\ (head_index + k) % Size \in Ring!Slots
    <3> SUFFICES ASSUME NEW k \in 0..(count - 1)
                 PROVE  /\ (head_index + k) % Size = (FirstIn + k) % Size
                        /\ FirstIn + k \in FirstIn..(NextIn - 1)
                        /\ (head_index + k) % Size \in Ring!Slots
      OBVIOUS
    <3>1. FirstIn \in Int /\ k \in Int /\ FirstIn + k \in Int
      BY <1>1
    <3>2. (head_index + k) % Size = (FirstIn + k) % Size
      BY <2>1, <3>1, ModAdd
    <3>3. FirstIn + k \in FirstIn..(NextIn - 1)
      BY <1>1, <2>1
    <3>4. (FirstIn + k) % Size \in 0..(Size - 1)
      BY <3>1, DivMod
    <3> QED BY <3>2, <3>3, <3>4 DEF Ring!Slots
  <2>3. \A k \in 0..(count - 1) :
          lockers[(head_index + k) % Size].setted
          /\ lockers[(head_index + k) % Size].no = sequece - count + k
    BY <1>1, <2>1, <2>2 DEF Holds
  <2>4. ASSUME NEW i \in Ring!Slots, lockers[i].setted
        PROVE  \E k \in 0..(count - 1) : i = (head_index + k) % Size
    <3>1. PICK m \in FirstIn..(NextIn - 1) : i = m % Size
      BY <1>1, <2>4 DEF Holds
    <3>2. m - FirstIn \in 0..(count - 1) /\ FirstIn + (m - FirstIn) = m
      BY <1>1, <2>1
    <3>3. (head_index + (m - FirstIn)) % Size = (FirstIn + (m - FirstIn)) % Size
      BY <2>2, <3>2
    <3> QED BY <3>1, <3>2, <3>3
  <2> QED BY <2>2, <2>3, <2>4
<1> QED BY <1>2, <1>3

-----------------------------------------------------------------------------
(* The parallel algorithms. *)

(* The blocks before the last chunk, and their size.                        *)
Block == IF size \div part_num > 0 THEN size \div part_num ELSE 1
Blocks == IF size \div part_num > 0 THEN part_num - 1 ELSE size

(* Where chunk f begins and ends.                                           *)
From(f) == (f - 1) * Block
To(f) == IF f = Blocks + 1 /\ algorithm = "foreach" THEN size ELSE f * Block

(* Chunk f has called the function on e.                                    *)
Called(f, e) ==
  From(f) <= e /\ (e < futures[f].pos \/ (f \in thrown /\ e = futures[f].pos))

ChunkInv(f) ==
  /\ futures[f].end = To(f) /\ futures[f].pos \in From(f)..To(f)
  /\ f \in thrown => futures[f].pos < To(f)

BeforeLaunch ==
  /\ begin = 0 /\ last = 0 /\ block_size = 0
  /\ futures = << >> /\ waited = 0

Launched ==
  /\ part_num > 0 /\ block_size = Block /\ last = Blocks * Block
  /\ IF pc = "launch"
       THEN Len(futures) <= Blocks /\ begin = Len(futures) * Block
       ELSE Len(futures) = Blocks + 1 /\ begin = last

(* What the caller knows of the chunks it has waited for.                   *)
CallerKnows ==
  /\ \A f \in 1..waited : Parallel!Done(f)
  /\ algorithm = "reduce" /\ pc \in {"wait", "returned"} => \A f \in 1..waited : f \notin thrown
  /\ pc = "launch" => waited = 0
  /\ pc = "returned" => waited = Len(futures)
  /\ pc = "threw" => \A f \in 1..Len(futures) : Parallel!Done(f)

CallTypes ==
  /\ algorithm \in {"foreach", "reduce"}
  /\ size \in 0..MaxSize /\ bad \in 0..size /\ part_num \in 0..MaxParts
  /\ futures \in Seq([pos : Nat, end : Nat])
  /\ thrown \subseteq 1..Len(futures) /\ waited \in 0..Len(futures)
  /\ pc \in {"divide", "launch", "wait", "unwind", "trapped", "returned", "threw"}
  /\ visits \in [0..size -> 0..1]

ParallelInv ==
  /\ CallTypes
  /\ IF pc \in {"divide", "trapped"} THEN BeforeLaunch ELSE Launched
  /\ \A f \in 1..Len(futures) : ChunkInv(f)
  /\ CallerKnows
  /\ \A e \in 0..size : visits[e] = 1 <=> \E f \in 1..Len(futures) : Called(f, e)

(* Multiplication is monotone.                                              *)
LEMMA TimesMonotone ==
  ASSUME NEW a \in Nat, NEW b \in Nat, NEW c \in Nat, a <= b
  PROVE  a * c \in Nat /\ b * c \in Nat /\ a * c <= b * c
<1>1. (b - a) * c >= 0 /\ b * c = a * c + (b - a) * c
  OBVIOUS
<1>2. a * c \in Nat /\ b * c \in Nat
  OBVIOUS
<1> QED BY <1>1, <1>2

(* The blocks lie in the range, and a block behind them takes one element   *)
(* more at most.                                                            *)
LEMMA BlocksFit ==
  ASSUME size \in Nat, part_num \in Nat, part_num > 0
  PROVE  /\ Block \in Nat \ {0} /\ Blocks \in Nat /\ Block <= size + 1
         /\ Blocks * Block \in Nat /\ Blocks * Block <= size
         /\ Blocks * Block + Block <= size + 1
         /\ size < part_num => Block = 1 /\ Blocks = size
         /\ size >= part_num => Blocks * Block + Block = size - (size % part_num)
<1> DEFINE q == size \div part_num
           r == size % part_num
<1>1. q \in Int /\ r \in 0..(part_num - 1) /\ size = part_num * q + r
  BY DivMod
<1> HIDE DEF q, r
<1>2. q >= 0
  <2> SUFFICES ASSUME q <= -1 PROVE FALSE
    BY <1>1
  <2>1. part_num * (q + 1) <= 0 /\ part_num * q = part_num * (q + 1) - part_num
    BY <1>1
  <2> QED BY <1>1, <2>1
<1>3. CASE q > 0
  <2>1. Block = q /\ Blocks = part_num - 1
    BY <1>3 DEF Block, Blocks, q
  <2>2. part_num * q = (part_num - 1) * q + q /\ (part_num - 1) * q >= 0
    BY <1>1, <1>3
  <2>3. size >= part_num
    <3>1. part_num * (q - 1) >= 0 /\ part_num * q = part_num * (q - 1) + part_num
      BY <1>1, <1>3
    <3> QED BY <1>1, <3>1
  <2>4. Blocks * Block = (part_num - 1) * q
    BY <2>1
  <2>5. Block + Blocks * Block = size - r
    BY <1>1, <2>1, <2>2, <2>4
  <2> QED BY <1>1, <1>3, <2>1, <2>2, <2>3, <2>4, <2>5 DEF r
<1>4. CASE q = 0
  <2>1. Block = 1 /\ Blocks = size /\ size < part_num
    BY <1>1, <1>4 DEF Block, Blocks, q
  <2> QED BY <2>1
<1> QED BY <1>1, <1>2, <1>3, <1>4

(* Chunks lie behind one another.                                           *)
LEMMA ChunksLie ==
  ASSUME size \in Nat, part_num \in Nat, part_num > 0, NEW f \in 1..(Blocks + 1)
  PROVE  /\ From(f) \in Nat /\ To(f) \in Nat /\ From(f) <= To(f) /\ To(f) <= size + 1
         /\ algorithm = "foreach" => To(f) <= size
         /\ f <= Blocks => To(f) = f * Block
         /\ \A g \in 1..(Blocks + 1) : f < g => To(f) <= From(g)
<1>1. /\ Block \in Nat \ {0} /\ Blocks \in Nat /\ Blocks * Block \in Nat /\ Blocks * Block <= size
      /\ Blocks * Block + Block <= size + 1 /\ f \in Nat /\ f - 1 \in Nat /\ f - 1 <= Blocks
  BY BlocksFit
<1>2. From(f) \in Nat /\ From(f) <= Blocks * Block
  BY <1>1, TimesMonotone DEF From
<1>3. f * Block = From(f) + Block
  BY <1>1 DEF From
<1>4. f <= Blocks => f * Block <= Blocks * Block
  BY <1>1, TimesMonotone
<1>5. /\ To(f) \in Nat /\ From(f) <= To(f) /\ To(f) <= size + 1
      /\ algorithm = "foreach" => To(f) <= size
      /\ f <= Blocks => To(f) = f * Block
  <2>1. CASE f = Blocks + 1 /\ algorithm = "foreach"
    BY <1>1, <1>2, <2>1 DEF To
  <2>2. CASE ~(f = Blocks + 1 /\ algorithm = "foreach")
    <3>1. To(f) = From(f) + Block
      BY <1>3, <2>2 DEF To
    <3>2. CASE f <= Blocks
      BY <1>1, <1>2, <1>3, <1>4, <3>1, <3>2
    <3>3. CASE f = Blocks + 1
      BY <1>1, <1>2, <1>3, <2>2, <3>1, <3>3
    <3> QED BY <1>1, <3>2, <3>3
  <2> QED BY <2>1, <2>2
<1>6. ASSUME NEW g \in 1..(Blocks + 1), f < g PROVE To(f) <= From(g)
  <2>1. f <= Blocks /\ g - 1 \in Nat /\ f <= g - 1
    BY <1>1, <1>6
  <2>2. f * Block <= (g - 1) * Block
    BY <1>1, <2>1, TimesMonotone
  <2> QED BY <1>5, <2>1, <2>2 DEF From
<1> QED BY <1>2, <1>5, <1>6

(* The invariant holds at first.                                            *)
LEMMA ParallelInvInit == Parallel!Init => ParallelInv
<1> SUFFICES ASSUME Parallel!Init PROVE ParallelInv
  OBVIOUS
<1>1. Len(<< >>) = 0 /\ << >> \in Seq([pos : Nat, end : Nat])
  OBVIOUS
<1>2. futures = << >> /\ Len(futures) = 0
  BY <1>1 DEF Parallel!Init
<1> QED BY <1>1, <1>2 DEF Parallel!Init, ParallelInv, CallTypes, BeforeLaunch, CallerKnows

(* While the call and its chunks stay, so does what was called.             *)
LEMMA ChunksStay ==
  ASSUME ParallelInv, UNCHANGED << algorithm, size, bad, part_num, futures, thrown, visits >>
  PROVE  /\ Block' = Block /\ Blocks' = Blocks
         /\ \A f \in 1..Len(futures) : ChunkInv(f)'
         /\ \A e \in 0..size : visits'[e] = 1 <=> \E f \in 1..Len(futures') : Called(f, e)'
<1>1. /\ Block' = Block /\ Blocks' = Blocks
      /\ \A f : From(f)' = From(f) /\ To(f)' = To(f)
  BY DEF Block, Blocks, From, To
<1>2. \A f : ChunkInv(f)' = ChunkInv(f)
  BY <1>1 DEF ChunkInv
<1>3. \A f, e : Called(f, e)' = Called(f, e)
  BY <1>1 DEF Called
<1> QED BY <1>1, <1>2, <1>3 DEF ParallelInv

LEMMA DivideStep ==
  ASSUME ParallelInv, Parallel!Trap \/ Parallel!Divide
  PROVE  ParallelInv'
<1>1. /\ pc = "divide" /\ UNCHANGED << algorithm, size, bad, part_num, begin, futures, thrown, visits, waited >>
      /\ BeforeLaunch /\ CallTypes /\ Len(futures) = 0
  BY DEF Parallel!Trap, Parallel!Divide, Parallel!call, Parallel!chunks, Parallel!cut,
         ParallelInv, BeforeLaunch
<1>2. CASE Parallel!Trap
  <2>1. pc' = "trapped" /\ UNCHANGED << last, block_size >>
    BY <1>2 DEF Parallel!Trap, Parallel!cut
  <2> QED BY <1>1, <2>1, ChunksStay DEF ParallelInv, CallTypes, CallerKnows, BeforeLaunch
<1>3. CASE Parallel!Divide
  <2>1. pc' = "launch" /\ part_num > 0 /\ part_num \in Nat /\ size \in Nat
    BY <1>1, <1>3 DEF Parallel!Divide, CallTypes
  <2>2. /\ Block \in Nat \ {0} /\ Blocks \in Nat
    BY <2>1, BlocksFit
  <2>3. block_size' = Block /\ last' = Blocks * Block
    <3>1. CASE size \div part_num > 0
      BY <1>3, <3>1 DEF Parallel!Divide, Parallel!LastBlock, Block, Blocks
    <3>2. CASE ~(size \div part_num > 0)
      <4>1. block_size' = 1 /\ last' = size /\ Block = 1 /\ Blocks = size
        BY <1>3, <3>2 DEF Parallel!Divide, Block, Blocks
      <4> QED BY <2>1, <4>1
    <3> QED BY <3>1, <3>2
  <2>4. begin' = Len(futures') * Block /\ Len(futures') <= Blocks
    BY <1>1, <2>2 DEF BeforeLaunch
  <2>5. Launched'
    BY <1>1, <2>1, <2>3, <2>4, ChunksStay DEF Launched
  <2> QED BY <1>1, <2>1, <2>5, ChunksStay DEF ParallelInv, CallTypes, CallerKnows, BeforeLaunch
<1> QED BY <1>2, <1>3

(* A new chunk has called nothing yet.                                      *)
LEMMA NewChunk ==
  ASSUME ParallelInv, pc = "launch", pc' \in {"launch", "wait"},
         Len(futures) <= Blocks,
         Parallel!Async(From(Len(futures) + 1), To(Len(futures) + 1)),
         UNCHANGED << algorithm, size, bad, part_num, thrown, visits, waited >>,
         Launched'
  PROVE  ParallelInv'
<1>0. PICK n1 \in Nat : n1 = Len(futures) + 1
  <2>1. Len(futures) \in Nat
    BY DEF ParallelInv, CallTypes
  <2> QED BY <2>1
<1> DEFINE c == [pos |-> From(n1), end |-> To(n1)]
<1>1. /\ size \in Nat /\ part_num \in Nat /\ part_num > 0 /\ Len(futures) \in Nat
      /\ futures \in Seq([pos : Nat, end : Nat]) /\ waited = 0
  BY DEF ParallelInv, CallTypes, Launched, CallerKnows
<1>2. n1 \in 1..(Blocks + 1)
  BY <1>0, <1>1, BlocksFit
<1>3. From(n1) \in Nat /\ To(n1) \in Nat /\ From(n1) <= To(n1)
  BY <1>1, <1>2, ChunksLie
<1>4. c \in [pos : Nat, end : Nat] /\ c.pos = From(n1) /\ c.end = To(n1)
  BY <1>3
<1>5. futures' = Append(futures, c)
  BY <1>0 DEF Parallel!Async
<1>6. /\ futures' \in Seq([pos : Nat, end : Nat]) /\ Len(futures') = n1 /\ futures'[n1] = c
      /\ \A f \in 1..Len(futures) : futures'[f] = futures[f]
  <2> HIDE DEF c
  <2> QED BY <1>0, <1>1, <1>4, <1>5
<1>7. n1 \notin thrown
  BY <1>0, <1>1 DEF ParallelInv, CallTypes
<1>8. /\ Block' = Block /\ Blocks' = Blocks
      /\ \A f : From(f)' = From(f) /\ To(f)' = To(f)
  BY DEF Block, Blocks, From, To
<1>9. \A f \in 1..Len(futures') : ChunkInv(f)'
  <2>1. \A f \in 1..Len(futures) : ChunkInv(f)'
    BY <1>6, <1>8 DEF ChunkInv, ParallelInv
  <2>2. ChunkInv(n1)'
    <3>1. futures'[n1].end = To(n1) /\ futures'[n1].pos \in From(n1)..To(n1)
      BY <1>3, <1>4, <1>6
    <3> QED BY <1>6, <1>7, <1>8, <3>1 DEF ChunkInv
  <2> QED BY <1>0, <1>1, <1>6, <2>1, <2>2
<1>10. \A e \in 0..size : ~Called(n1, e)' /\ \A f \in 1..Len(futures) : Called(f, e)' = Called(f, e)
  <2> SUFFICES ASSUME NEW e \in 0..size
               PROVE  /\ ~(From(n1) <= e /\ (e < futures'[n1].pos \/ (n1 \in thrown /\ e = futures'[n1].pos)))
                      /\ \A f \in 1..Len(futures) : Called(f, e)' = Called(f, e)
    BY <1>6, <1>8 DEF Called
  <2>1. ~(From(n1) <= e /\ e < futures'[n1].pos)
    BY <1>3, <1>4, <1>6
  <2>2. \A f \in 1..Len(futures) : Called(f, e)' = Called(f, e)
    BY <1>6, <1>8 DEF Called
  <2> QED BY <1>7, <2>1, <2>2
<1>11. \A e \in 0..size : visits'[e] = 1 <=> \E f \in 1..Len(futures') : Called(f, e)'
  <2>1. 1..Len(futures') = (1..Len(futures)) \cup {n1}
    BY <1>0, <1>1, <1>6
  <2> QED BY <1>10, <2>1 DEF ParallelInv
<1>12. CallTypes'
  BY <1>0, <1>1, <1>6 DEF ParallelInv, CallTypes
<1>13. CallerKnows'
  BY <1>1 DEF CallerKnows
<1> QED BY <1>9, <1>11, <1>12, <1>13 DEF ParallelInv

LEMMA LaunchStep ==
  ASSUME ParallelInv, Parallel!Launch \/ Parallel!LaunchLast
  PROVE  ParallelInv'
<1>1. /\ pc = "launch" /\ Launched /\ size \in Nat /\ part_num \in Nat /\ part_num > 0
      /\ Len(futures) \in Nat /\ futures \in Seq([pos : Nat, end : Nat])
      /\ Len(futures) <= Blocks /\ begin = Len(futures) * Block /\ last = Blocks * Block
      /\ block_size = Block
      /\ UNCHANGED << algorithm, size, bad, part_num, thrown, visits, waited, last, block_size >>
  BY DEF Parallel!Launch, Parallel!LaunchLast, Parallel!call, Parallel!cut, ParallelInv,
         CallTypes, Launched
<1>2. Block \in Nat \ {0} /\ Blocks \in Nat
  BY <1>1, BlocksFit
<1>3. From(Len(futures) + 1) = begin
  BY <1>1 DEF From
<1>4. Block' = Block /\ Blocks' = Blocks
  BY <1>1 DEF Block, Blocks
<1>5. (Len(futures) + 1) * Block = begin + Block
  BY <1>1, <1>2
<1>6. CASE Parallel!Launch
  <2>1. pc' = "launch" /\ begin # last /\ begin' = begin + Block
        /\ Parallel!Async(begin, begin + Block)
    BY <1>1, <1>6 DEF Parallel!Launch, Parallel!End
  <2>2. Len(futures) < Blocks
    BY <1>1, <1>2, <2>1
  <2>3. To(Len(futures) + 1) = begin + Block
    BY <1>1, <1>2, <1>5, <2>2 DEF To
  <2>4. Len(futures') = Len(futures) + 1
    BY <1>1, <2>1 DEF Parallel!Async
  <2>5. Launched'
    BY <1>1, <1>2, <1>4, <1>5, <2>1, <2>2, <2>4 DEF Launched
  <2> QED BY <1>1, <1>3, <2>1, <2>3, <2>5, NewChunk
<1>7. CASE Parallel!LaunchLast
  <2>1. pc' = "wait" /\ begin = last /\ begin' = begin
        /\ Parallel!Async(begin, Parallel!LastEnd)
    BY <1>7 DEF Parallel!LaunchLast, Parallel!cut
  <2>2. Len(futures) = Blocks
    <3> SUFFICES ASSUME Len(futures) < Blocks PROVE FALSE
      BY <1>1, <1>2
    <3>1. (Len(futures) + 1) * Block <= Blocks * Block
      BY <1>1, <1>2, TimesMonotone
    <3>2. Blocks * Block \in Nat
      BY <1>1, BlocksFit
    <3> QED BY <1>1, <1>2, <1>5, <2>1, <3>1, <3>2
  <2>3. To(Len(futures) + 1) = Parallel!LastEnd
    BY <1>1, <1>2, <1>5, <2>2 DEF To, Parallel!LastEnd
  <2>4. Len(futures') = Len(futures) + 1
    BY <1>1, <2>1 DEF Parallel!Async
  <2>5. Launched'
    BY <1>1, <1>2, <1>4, <2>1, <2>2, <2>4 DEF Launched
  <2> QED BY <1>1, <1>3, <2>1, <2>3, <2>5, NewChunk
<1> QED BY <1>6, <1>7

LEMMA WaitStep ==
  ASSUME ParallelInv, Parallel!Wait \/ Parallel!Return \/ Parallel!Unwind
  PROVE  ParallelInv'
<1>1. /\ UNCHANGED << algorithm, size, bad, part_num, begin, last, block_size, futures, thrown, visits >>
      /\ pc \in {"wait", "unwind"} /\ pc' \in {"wait", "unwind", "returned", "threw"}
      /\ Launched /\ CallTypes /\ Len(futures) \in Nat /\ waited \in Nat
  BY DEF Parallel!Wait, Parallel!Return, Parallel!Unwind, Parallel!call, Parallel!chunks,
         Parallel!cut, ParallelInv, CallTypes
<1>2. Launched'
  BY <1>1, ChunksStay DEF Launched
<1>3. DOMAIN futures = 1..Len(futures)
  BY DEF ParallelInv, CallTypes
<1>4. \A f : Parallel!Done(f)' = Parallel!Done(f)
  BY <1>1 DEF Parallel!Done
<1>5. waited' \in 0..Len(futures) /\ CallerKnows'
  <2>1. CASE Parallel!Wait
    <3>1. /\ waited < Len(futures) /\ waited' = waited + 1 /\ Parallel!Done(waited + 1)
          /\ pc' = (IF Parallel!Rethrow(waited + 1) THEN "unwind" ELSE "wait") /\ pc = "wait"
      BY <2>1 DEF Parallel!Wait, Parallel!Ready
    <3>2. \A f \in 1..(waited + 1) : Parallel!Done(f)
      BY <1>1, <3>1 DEF ParallelInv, CallerKnows
    <3>3. algorithm = "reduce" /\ pc' = "wait" => \A f \in 1..(waited + 1) : f \notin thrown
      BY <1>1, <3>1 DEF ParallelInv, CallerKnows, Parallel!Rethrow
    <3> QED BY <1>1, <1>4, <3>1, <3>2, <3>3 DEF CallerKnows
  <2>2. CASE Parallel!Return
    BY <1>1, <1>4, <2>2 DEF Parallel!Return, ParallelInv, CallerKnows, CallTypes
  <2>3. CASE Parallel!Unwind
    BY <1>1, <1>3, <1>4, <2>3 DEF Parallel!Unwind, Parallel!Ready, ParallelInv, CallerKnows, CallTypes
  <2> QED BY <2>1, <2>2, <2>3
<1>6. CallTypes'
  BY <1>1, <1>5 DEF CallTypes
<1> QED BY <1>1, <1>2, <1>5, <1>6, ChunksStay DEF ParallelInv

(* A call has launched at most one chunk for each block and one more.       *)
LEMMA LaunchedFit ==
  ASSUME Launched, size \in Nat, part_num \in Nat, Len(futures) \in Nat
  PROVE  part_num > 0 /\ Blocks \in Nat /\ Len(futures) <= Blocks + 1
<1>1. part_num > 0 /\ (Len(futures) <= Blocks \/ Len(futures) = Blocks + 1)
  <2>1. part_num > 0
    BY DEF Launched
  <2>2. CASE pc = "launch"
    <3>1. Len(futures) <= Blocks
      BY <2>2, Zenon DEF Launched
    <3> QED BY <2>1, <3>1
  <2>3. CASE pc # "launch"
    <3>1. Len(futures) = Blocks + 1
      BY <2>3, Zenon DEF Launched
    <3> QED BY <2>1, <3>1
  <2> QED BY <2>2, <2>3
<1>2. Blocks \in Nat
  BY <1>1, BlocksFit
<1> QED BY <1>1, <1>2

(* A chunk is alone with the element it is at.                              *)
LEMMA NobodyThere ==
  ASSUME ParallelInv, NEW f \in 1..Len(futures), ~Parallel!Done(f)
  PROVE  /\ futures[f].pos \in 0..size /\ From(f) <= futures[f].pos /\ futures[f].pos < To(f)
         /\ futures[f].end = To(f) /\ From(f) \in Nat /\ To(f) \in Nat /\ f \notin thrown
         /\ \A g \in 1..Len(futures) : ~Called(g, futures[f].pos)
<1>1. /\ Launched /\ size \in Nat /\ part_num \in Nat /\ part_num > 0
      /\ Len(futures) \in Nat /\ futures \in Seq([pos : Nat, end : Nat])
  <2>1. Len(futures) # 0
    OBVIOUS
  <2>2. Len(<< >>) = 0
    OBVIOUS
  <2> QED BY <2>1, <2>2 DEF ParallelInv, CallTypes, BeforeLaunch, Launched
<1>2. Blocks \in Nat /\ Len(futures) <= Blocks + 1
  BY <1>1, LaunchedFit
<1>3. \A g \in 1..Len(futures) :
        /\ g \in 1..(Blocks + 1) /\ From(g) \in Nat /\ To(g) \in Nat /\ To(g) <= size + 1
        /\ \A h \in 1..Len(futures) : g < h => To(g) <= From(h)
  <2>1. 1..Len(futures) \subseteq 1..(Blocks + 1)
    BY <1>1, <1>2
  <2>2. \A g \in 1..(Blocks + 1) :
          /\ From(g) \in Nat /\ To(g) \in Nat /\ To(g) <= size + 1
          /\ \A h \in 1..(Blocks + 1) : g < h => To(g) <= From(h)
    BY <1>1, ChunksLie
  <2> QED BY <2>1, <2>2
<1>4. \A g \in 1..Len(futures) :
        /\ futures[g].pos \in From(g)..To(g) /\ futures[g].end = To(g)
        /\ g \in thrown => futures[g].pos < To(g)
  BY DEF ParallelInv, ChunkInv
<1>5. f \notin thrown /\ futures[f].pos # To(f)
  BY <1>4 DEF Parallel!Done
<1>6. futures[f].pos \in 0..size /\ From(f) <= futures[f].pos /\ futures[f].pos < To(f)
  <2>1. From(f) \in Nat /\ To(f) \in Nat /\ To(f) <= size + 1 /\ futures[f].pos \in From(f)..To(f)
    BY <1>3, <1>4
  <2> QED BY <1>1, <1>5, <2>1
<1>7. ASSUME NEW g \in 1..Len(futures), Called(g, futures[f].pos) PROVE FALSE
  <2>1. From(g) <= futures[f].pos /\ futures[f].pos < To(g)
    <3>1. From(g) \in Nat /\ To(g) \in Nat /\ futures[g].pos \in From(g)..To(g)
          /\ (g \in thrown => futures[g].pos < To(g))
      BY <1>3, <1>4
    <3> QED BY <1>6, <1>7, <3>1 DEF Called
  <2>2. g # f
    BY <1>5, <1>6, <1>7 DEF Called
  <2>3. CASE g < f
    BY <1>3, <1>6, <2>1, <2>3
  <2>4. CASE f < g
    BY <1>3, <1>6, <2>1, <2>4
  <2> QED BY <2>2, <2>3, <2>4
<1> QED BY <1>3, <1>4, <1>5, <1>6, <1>7

LEMMA VisitStep ==
  ASSUME ParallelInv, NEW f, Parallel!Visit(f)
  PROVE  ParallelInv'
<1>1. /\ f \in 1..Len(futures) /\ ~Parallel!Done(f)
      /\ UNCHANGED << algorithm, size, bad, part_num, begin, last, block_size, waited, pc >>
      /\ futures \in Seq([pos : Nat, end : Nat]) /\ Len(futures) \in Nat
  <2>1. futures \in Seq([pos : Nat, end : Nat]) /\ Len(futures) \in Nat
        /\ DOMAIN futures = 1..Len(futures)
    BY DEF ParallelInv, CallTypes
  <2> QED BY <2>1 DEF Parallel!Visit, Parallel!call, Parallel!cut
<1>2. PICK e : e = futures[f].pos
  OBVIOUS
<1>3. /\ e \in 0..size /\ From(f) <= e /\ e < To(f) /\ futures[f].end = To(f)
      /\ From(f) \in Nat /\ To(f) \in Nat /\ f \notin thrown /\ \A g \in 1..Len(futures) : ~Called(g, e)
  BY <1>1, <1>2, NobodyThere
<1>4. /\ visits' = [visits EXCEPT ![e] = @ + 1]
      /\ \/ e = bad /\ thrown' = thrown \cup {f} /\ UNCHANGED futures
         \/ futures' = [futures EXCEPT ![f].pos = @ + 1] /\ UNCHANGED thrown
  BY <1>2 DEF Parallel!Visit
<1>5. /\ futures' \in Seq([pos : Nat, end : Nat]) /\ Len(futures') = Len(futures)
      /\ \A g \in 1..Len(futures) : g # f => futures'[g] = futures[g]
      /\ futures'[f].end = To(f)
      /\ \/ futures'[f].pos = e /\ thrown' = thrown \cup {f}
         \/ futures'[f].pos = e + 1 /\ thrown' = thrown
  <2>1. CASE e = bad /\ thrown' = thrown \cup {f} /\ UNCHANGED futures
    BY <1>1, <1>2, <1>3, <2>1
  <2>2. CASE futures' = [futures EXCEPT ![f].pos = @ + 1] /\ UNCHANGED thrown
    <3> DEFINE q == [futures[f] EXCEPT !.pos = e + 1]
    <3>1. futures' = [futures EXCEPT ![f] = q]
      BY <1>2, <2>2
    <3>2. q \in [pos : Nat, end : Nat] /\ q.pos = e + 1 /\ q.end = To(f)
      <4>1. futures[f] \in [pos : Nat, end : Nat]
        BY <1>1, ElementsOf
      <4>2. e + 1 \in Nat
        BY <1>3
      <4> QED BY <1>3, <4>1, <4>2
    <3> HIDE DEF q
    <3>3. /\ futures' \in Seq([pos : Nat, end : Nat]) /\ Len(futures') = Len(futures)
          /\ futures'[f] = q /\ \A g \in 1..Len(futures) : g # f => futures'[g] = futures[g]
      BY <1>1, <3>1, <3>2
    <3> QED BY <2>2, <3>2, <3>3
  <2> QED BY <1>4, <2>1, <2>2
<1>6. /\ Block' = Block /\ Blocks' = Blocks
      /\ \A g : From(g)' = From(g) /\ To(g)' = To(g)
  BY <1>1 DEF Block, Blocks, From, To
<1>7. \A g \in 1..Len(futures') : ChunkInv(g)'
  <2>1. \A g \in 1..Len(futures) : ChunkInv(g)
    BY DEF ParallelInv
  <2>2. ASSUME NEW g \in 1..Len(futures), g # f PROVE ChunkInv(g)'
    <3>1. ChunkInv(g) /\ futures'[g] = futures[g] /\ (g \in thrown' <=> g \in thrown)
      BY <1>5, <2>1, <2>2
    <3> QED BY <1>6, <3>1 DEF ChunkInv
  <2>3. ChunkInv(f)'
    <3>1. e \in Int /\ e < To(f) /\ From(f) <= e
      BY <1>3
    <3>2. CASE futures'[f].pos = e /\ thrown' = thrown \cup {f}
      BY <1>3, <1>5, <1>6, <3>1, <3>2 DEF ChunkInv
    <3>3. CASE futures'[f].pos = e + 1 /\ thrown' = thrown
      BY <1>3, <1>5, <1>6, <3>1, <3>3 DEF ChunkInv
    <3> QED BY <1>5, <3>2, <3>3
  <2> QED BY <1>5, <2>2, <2>3
<1>8. \A x \in 0..size : \A g \in 1..Len(futures) :
        Called(g, x)' <=> Called(g, x) \/ (g = f /\ x = e)
  <2> SUFFICES ASSUME NEW x \in 0..size, NEW g \in 1..Len(futures)
               PROVE  Called(g, x)' <=> Called(g, x) \/ (g = f /\ x = e)
    OBVIOUS
  <2>1. CASE g # f
    <3>1. futures'[g] = futures[g] /\ (g \in thrown' <=> g \in thrown)
      BY <1>5, <2>1
    <3> QED BY <1>6, <2>1, <3>1 DEF Called
  <2>2. CASE g = f
    <3>1. e \in Int /\ x \in Int /\ (e < x + 1 <=> e <= x) /\ (x < e + 1 <=> x < e \/ x = e)
      BY <1>3
    <3>2. x = e => From(f) <= x
      BY <1>3
    <3>3. f \notin thrown /\ futures[f].pos = e
      BY <1>2, <1>3
    <3>4. Called(f, x) <=> From(f) <= x /\ x < e
      BY <3>3 DEF Called
    <3>5. Called(f, x)' <=> From(f) <= x /\ (x < e \/ x = e)
      <4>1. CASE futures'[f].pos = e /\ thrown' = thrown \cup {f}
        BY <1>6, <4>1 DEF Called
      <4>2. CASE futures'[f].pos = e + 1 /\ thrown' = thrown
        BY <1>6, <3>1, <3>3, <4>2 DEF Called
      <4> QED BY <1>5, <4>1, <4>2
    <3> QED BY <2>2, <3>2, <3>4, <3>5
  <2> QED BY <2>1, <2>2
<1>9. visits \in [0..size -> 0..1] /\ visits[e] = 0
  <2>1. visits \in [0..size -> 0..1] /\ visits[e] # 1
    BY <1>3 DEF ParallelInv, CallTypes
  <2> QED BY <1>3, <2>1
<1>10. /\ visits' \in [0..size -> 0..1] /\ visits'[e] = 1
       /\ \A x \in 0..size : x # e => visits'[x] = visits[x]
  BY <1>3, <1>4, <1>9
<1>11. \A x \in 0..size' : visits'[x] = 1 <=> \E g \in 1..Len(futures') : Called(g, x)'
  BY <1>1, <1>5, <1>8, <1>10 DEF ParallelInv
<1>12. CallTypes'
  BY <1>1, <1>5, <1>10 DEF ParallelInv, CallTypes
<1>13. CallerKnows'
  <2>1. \A g \in 1..Len(futures) : Parallel!Done(g) =>
          g # f /\ Parallel!Done(g)' /\ (g \in thrown' <=> g \in thrown)
    <3> SUFFICES ASSUME NEW g \in 1..Len(futures), Parallel!Done(g)
                 PROVE  g # f /\ Parallel!Done(g)' /\ (g \in thrown' <=> g \in thrown)
      OBVIOUS
    <3>1. g # f
      BY <1>1
    <3>2. futures'[g] = futures[g] /\ (g \in thrown' <=> g \in thrown)
      BY <1>5, <3>1
    <3> QED BY <3>1, <3>2 DEF Parallel!Done
  <2>2. waited \in 0..Len(futures)
    BY DEF ParallelInv, CallTypes
  <2>3. CallerKnows
    BY DEF ParallelInv
  <2>4. \A g \in 1..waited : g \in 1..Len(futures)
    BY <1>1, <2>2
  <2>5. \A g \in 1..waited : Parallel!Done(g)' /\ (g \in thrown' <=> g \in thrown)
    BY <2>1, <2>3, <2>4 DEF CallerKnows
  <2> QED BY <1>1, <1>5, <2>1, <2>3, <2>5 DEF CallerKnows
<1>14. IF pc' \in {"divide", "trapped"} THEN BeforeLaunch' ELSE Launched'
  <2>1. pc \notin {"divide", "trapped"}
    <3>1. Len(futures) # 0
      BY <1>1
    <3>2. Len(<< >>) = 0
      OBVIOUS
    <3> QED BY <3>1, <3>2 DEF ParallelInv, BeforeLaunch
  <2> QED BY <1>1, <1>5, <1>6, <2>1 DEF ParallelInv, Launched
<1> QED BY <1>7, <1>11, <1>12, <1>13, <1>14 DEF ParallelInv

(* Every step keeps it.                                                     *)
LEMMA ParallelInvStep == ParallelInv /\ [Parallel!Next]_(Parallel!vars) => ParallelInv'
<1> SUFFICES ASSUME ParallelInv, [Parallel!Next]_(Parallel!vars) PROVE ParallelInv'
  OBVIOUS
<1>1. CASE Parallel!Caller
  BY <1>1, DivideStep, LaunchStep, WaitStep DEF Parallel!Caller
<1>2. CASE \E f \in Parallel!Chunks : Parallel!Visit(f)
  BY <1>2, VisitStep
<1>3. CASE UNCHANGED Parallel!vars
  <2>1. UNCHANGED << algorithm, size, bad, part_num, begin, last, block_size, futures, thrown,
                     visits, waited, pc >>
    BY <1>3 DEF Parallel!vars, Parallel!call, Parallel!cut, Parallel!chunks
  <2>2. (Launched <=> Launched') /\ (BeforeLaunch <=> BeforeLaunch') /\ (CallTypes <=> CallTypes')
        /\ (CallerKnows <=> CallerKnows')
    BY <2>1, ChunksStay DEF Launched, BeforeLaunch, CallTypes, CallerKnows, Parallel!Done
  <2> QED BY <2>1, <2>2, ChunksStay DEF ParallelInv
<1> QED BY <1>1, <1>2, <1>3 DEF Parallel!Next

(* The first chunk that ends behind an element has it.                      *)
LEMMA ChunkFound ==
  ASSUME ParallelInv, Launched, pc # "launch",
         NEW e \in Nat, e < To(Blocks + 1)
  PROVE  \E f \in 1..Len(futures) : From(f) <= e /\ e < To(f)
<1> DEFINE S == { f \in 1..(Blocks + 1) : e < To(f) }
<1>1. /\ size \in Nat /\ part_num \in Nat /\ part_num > 0 /\ Len(futures) = Blocks + 1
      /\ Blocks \in Nat
  BY BlocksFit DEF ParallelInv, CallTypes, Launched
<1>2. S \subseteq Nat /\ Blocks + 1 \in S
  BY <1>1
<1>3. PICK f \in S : \A g \in S : f <= g
  <2> HIDE DEF S
  <2> QED BY <1>2, LeastExists
<1>4. f \in 1..(Blocks + 1) /\ e < To(f)
  OBVIOUS
<1>5. From(f) <= e
  <2>1. CASE f = 1
    BY <1>1, <2>1, BlocksFit DEF From
  <2>2. CASE f # 1
    <3>1. f - 1 \in 1..Blocks /\ f - 1 \in 1..(Blocks + 1)
      BY <1>1, <1>4, <2>2
    <3>2. To(f - 1) = (f - 1) * Block /\ To(f - 1) \in Nat
      BY <1>1, <3>1, ChunksLie
    <3>3. f - 1 \notin S
      BY <1>1, <1>3, <1>4
    <3>4. ~(e < To(f - 1))
      BY <3>1, <3>3
    <3> QED BY <3>2, <3>4 DEF From
  <2> QED BY <2>1, <2>2
<1> QED BY <1>1, <1>4, <1>5

(* What a call that returns without an exception of a chunk has called: all *)
(* elements before the end of the last chunk.                               *)
LEMMA ReturnedCalled ==
  ASSUME ParallelInv, pc = "returned"
  PROVE  /\ Launched /\ size \in Nat /\ part_num \in Nat /\ part_num > 0
         /\ \A e \in 0..size :
              /\ visits[e] = 1 => e < To(Blocks + 1)
              /\ e < To(Blocks + 1) =>
                   \E f \in 1..Len(futures) : From(f) <= e /\ e < To(f)
                     /\ (visits[e] = 1 \/ (f \in thrown /\ e \in futures[f].pos..(futures[f].end - 1)))
<1>1. /\ Launched /\ size \in Nat /\ part_num \in Nat /\ part_num > 0 /\ Blocks \in Nat
      /\ Len(futures) = Blocks + 1 /\ waited = Len(futures)
  BY BlocksFit DEF ParallelInv, CallTypes, Launched, CallerKnows
<1>2. \A f \in 1..Len(futures) :
        /\ From(f) \in Nat /\ To(f) \in Nat /\ To(f) <= To(Blocks + 1) /\ To(Blocks + 1) \in Nat
        /\ futures[f].end = To(f) /\ futures[f].pos \in From(f)..To(f)
        /\ f \in thrown => futures[f].pos < To(f)
        /\ f \in thrown \/ futures[f].pos = To(f)
  <2> SUFFICES ASSUME NEW f \in 1..(Blocks + 1)
               PROVE  /\ From(f) \in Nat /\ To(f) \in Nat /\ To(f) <= To(Blocks + 1)
                      /\ To(Blocks + 1) \in Nat
                      /\ futures[f].end = To(f) /\ futures[f].pos \in From(f)..To(f)
                      /\ f \in thrown => futures[f].pos < To(f)
                      /\ f \in thrown \/ futures[f].pos = To(f)
    BY <1>1
  <2>1. ChunkInv(f) /\ Parallel!Done(f)
    BY <1>1 DEF ParallelInv, CallerKnows
  <2>2. Blocks + 1 \in 1..(Blocks + 1)
    BY <1>1
  <2>3. /\ From(f) \in Nat /\ To(f) \in Nat
        /\ From(Blocks + 1) \in Nat /\ To(Blocks + 1) \in Nat /\ From(Blocks + 1) <= To(Blocks + 1)
        /\ f < Blocks + 1 => To(f) <= From(Blocks + 1)
    BY <1>1, <2>2, ChunksLie
  <2>4. To(f) <= To(Blocks + 1)
    BY <1>1, <2>3
  <2> QED BY <2>1, <2>3, <2>4 DEF ChunkInv, Parallel!Done
<1>3. ASSUME NEW e \in 0..size, visits[e] = 1 PROVE e < To(Blocks + 1)
  <2>1. PICK f \in 1..Len(futures) : Called(f, e)
    BY <1>3 DEF ParallelInv
  <2> QED BY <1>1, <1>2, <2>1 DEF Called
<1>4. ASSUME NEW e \in 0..size, e < To(Blocks + 1)
      PROVE  \E f \in 1..Len(futures) : From(f) <= e /\ e < To(f)
               /\ (visits[e] = 1 \/ (f \in thrown /\ e \in futures[f].pos..(futures[f].end - 1)))
  <2>1. PICK f \in 1..Len(futures) : From(f) <= e /\ e < To(f)
    BY <1>1, <1>4, ChunkFound
  <2>2. CASE e < futures[f].pos
    <3>1. Called(f, e)
      BY <2>1, <2>2 DEF Called
    <3>2. visits[e] = 1
      BY <3>1 DEF ParallelInv
    <3> QED BY <2>1, <3>2
  <2>3. CASE ~(e < futures[f].pos)
    <3>1. futures[f].pos \in Int /\ To(f) \in Int /\ futures[f].end = To(f)
      BY <1>2
    <3>2. f \in thrown
      BY <1>2, <2>1, <2>3
    <3>3. e \in futures[f].pos..(futures[f].end - 1)
      BY <2>1, <2>3, <3>1
    <3> QED BY <2>1, <3>2, <3>3
  <2> QED BY <2>2, <2>3
<1> QED BY <1>1, <1>3, <1>4

(* What the invariant says of the properties.                               *)
LEMMA ParallelSafe ==
  ASSUME ParallelInv
  PROVE  /\ Parallel!NoChunkOutlivesCall /\ Parallel!VisitedOnce /\ Parallel!ForeachCovers
         /\ Parallel!ReduceOmitsRemainder /\ Parallel!ReduceReportsThrow
<1>1. /\ size \in Nat /\ bad \in 0..size /\ part_num \in Nat /\ DOMAIN futures = 1..Len(futures)
      /\ Len(futures) \in Nat /\ thrown \subseteq 1..Len(futures)
      /\ visits \in [0..size -> 0..1]
  BY DEF ParallelInv, CallTypes
<1>2. Parallel!NoChunkOutlivesCall
  BY <1>1 DEF Parallel!NoChunkOutlivesCall, ParallelInv, CallerKnows
<1>3. Parallel!VisitedOnce
  BY <1>1 DEF Parallel!VisitedOnce, Parallel!Elements
<1>4. Parallel!ReduceReportsThrow
  <2> SUFFICES ASSUME algorithm = "reduce", pc = "returned" PROVE thrown = {}
    BY DEF Parallel!ReduceReportsThrow
  <2>1. \A f \in 1..Len(futures) : f \notin thrown
    BY DEF ParallelInv, CallerKnows
  <2> QED BY <1>1, <2>1
<1>5. Parallel!ForeachCovers
  <2> SUFFICES ASSUME algorithm = "foreach"
               PROVE  /\ visits[size] = 0
                      /\ pc = "returned" =>
                           \A e \in 0..(size - 1) :
                             visits[e] = 1 \/ \E f \in thrown : e \in futures[f].pos..(futures[f].end - 1)
    BY DEF Parallel!ForeachCovers, Parallel!Elements
  <2>1. visits[size] = 0
    <3> SUFFICES ASSUME visits[size] = 1 PROVE FALSE
      BY <1>1
    <3>1. PICK f \in 1..Len(futures) : Called(f, size)
      BY <1>1 DEF ParallelInv
    <3>2. Launched
      <4>1. Len(futures) # 0
        BY <1>1
      <4>2. Len(<< >>) = 0
        OBVIOUS
      <4> QED BY <4>1, <4>2 DEF ParallelInv, BeforeLaunch
    <3>3. part_num > 0 /\ f \in 1..(Blocks + 1)
      <4>1. part_num > 0 /\ Blocks \in Nat /\ Len(futures) <= Blocks + 1
        BY <1>1, <3>2, LaunchedFit
      <4> QED BY <1>1, <4>1
    <3>4. From(f) \in Nat /\ To(f) \in Nat /\ To(f) <= size
      BY <1>1, <3>3, ChunksLie
    <3>5. futures[f].pos \in From(f)..To(f) /\ (f \in thrown => futures[f].pos < To(f))
      BY DEF ParallelInv, ChunkInv
    <3> QED BY <1>1, <3>1, <3>4, <3>5 DEF Called
  <2>2. ASSUME pc = "returned", NEW e \in 0..(size - 1)
        PROVE  visits[e] = 1 \/ \E f \in thrown : e \in futures[f].pos..(futures[f].end - 1)
    <3>1. To(Blocks + 1) = size
      BY DEF To
    <3>2. e \in 0..size /\ e < size
      BY <1>1
    <3> QED BY <2>2, <3>1, <3>2, ReturnedCalled
  <2> QED BY <2>1, <2>2
<1>6. Parallel!ReduceOmitsRemainder
  <2> SUFFICES ASSUME algorithm = "reduce", pc = "returned"
               PROVE  /\ \A e \in 0..(size - 1) :
                           visits[e] = 1 <=> size < part_num \/ e < size - (size % part_num)
                      /\ visits[size] = 1 <=> size < part_num
    BY DEF Parallel!ReduceOmitsRemainder, Parallel!Elements
  <2>1. part_num > 0 /\ thrown = {}
    BY <1>4, ReturnedCalled DEF Parallel!ReduceReportsThrow
  <2>2. \A e \in 0..size : visits[e] = 1 <=> e < To(Blocks + 1)
    BY <2>1, ReturnedCalled
  <2>3. To(Blocks + 1) = Blocks * Block + Block
    <3>1. To(Blocks + 1) = (Blocks + 1) * Block
      BY DEF To
    <3>2. Block \in Nat /\ Blocks \in Nat
      BY <1>1, <2>1, BlocksFit
    <3> QED BY <3>1, <3>2
  <2>4. size \in 0..size /\ 0..(size - 1) \subseteq 0..size
    BY <1>1
  <2>5. CASE size < part_num
    <3>1. To(Blocks + 1) = size + 1
      BY <1>1, <2>1, <2>3, <2>5, BlocksFit
    <3> QED BY <1>1, <2>2, <2>4, <2>5, <3>1
  <2>6. CASE ~(size < part_num)
    <3>1. To(Blocks + 1) = size - (size % part_num) /\ size % part_num \in 0..(part_num - 1)
      BY <1>1, <2>1, <2>3, <2>6, BlocksFit, DivMod
    <3>2. ~(size < To(Blocks + 1))
      BY <1>1, <3>1
    <3> QED BY <2>2, <2>4, <2>6, <3>1, <3>2
  <2> QED BY <2>5, <2>6
<1> QED BY <1>2, <1>3, <1>4, <1>5, <1>6

(* What the invariant says of the properties.                               *)
LEMMA ParallelTypeSafe ==
  ASSUME ParallelInv
  PROVE  Parallel!TypeOK
<1>1. /\ size \in Nat /\ size \in 0..MaxSize /\ part_num \in Nat
      /\ DOMAIN futures = 1..Len(futures) /\ Len(futures) \in Nat
      /\ futures \in Seq([pos : Nat, end : Nat])
  BY DEF ParallelInv, CallTypes
<1>2. begin \in 0..size /\ last \in 0..size /\ block_size \in 0..(MaxSize + 1)
  <2>1. CASE BeforeLaunch
    BY <1>1, <2>1 DEF BeforeLaunch
  <2>2. CASE Launched
    <3>1. /\ part_num > 0 /\ Block \in Nat /\ Blocks \in Nat /\ Block <= size + 1
          /\ Blocks * Block \in Nat /\ Blocks * Block <= size
      BY <1>1, <2>2, BlocksFit DEF Launched
    <3>2. begin \in Nat /\ begin <= Blocks * Block
      <4>1. CASE pc = "launch"
        BY <1>1, <2>2, <3>1, <4>1, TimesMonotone DEF Launched
      <4>2. CASE pc # "launch"
        BY <2>2, <3>1, <4>2 DEF Launched
      <4> QED BY <4>1, <4>2
    <3>3. last = Blocks * Block /\ block_size = Block
      BY <2>2 DEF Launched
    <3> QED BY <1>1, <3>1, <3>2, <3>3
  <2> QED BY <2>1, <2>2 DEF ParallelInv
<1>3. \A f \in DOMAIN futures : futures[f] \in [pos : 0..(size + 1), end : 0..(size + 1)]
  <2> SUFFICES ASSUME NEW f \in 1..Len(futures)
               PROVE  futures[f] \in [pos : 0..(size + 1), end : 0..(size + 1)]
    BY <1>1
  <2>1. Launched
    <3>1. Len(futures) # 0
      BY <1>1
    <3>2. Len(<< >>) = 0
      OBVIOUS
    <3> QED BY <3>1, <3>2 DEF ParallelInv, BeforeLaunch
  <2>2. part_num > 0 /\ Blocks \in Nat /\ f \in 1..(Blocks + 1)
    <3>1. part_num > 0 /\ Blocks \in Nat /\ Len(futures) <= Blocks + 1
      BY <1>1, <2>1, LaunchedFit
    <3> QED BY <1>1, <3>1
  <2>3. From(f) \in Nat /\ To(f) \in Nat /\ To(f) <= size + 1
    BY <1>1, <2>2, ChunksLie
  <2>4. futures[f].end = To(f) /\ futures[f].pos \in From(f)..To(f)
    BY DEF ParallelInv, ChunkInv
  <2>5. futures[f].pos \in 0..(size + 1) /\ futures[f].end \in 0..(size + 1)
    BY <1>1, <2>3, <2>4
  <2>6. futures[f] \in [pos : Nat, end : Nat]
    BY <1>1, ElementsOf
  <2> QED BY <2>5, <2>6
<1>4. visits \in [0..size -> Nat]
  BY DEF ParallelInv, CallTypes
<1>5. /\ algorithm \in {"foreach", "reduce"} /\ bad \in 0..size /\ part_num \in 0..MaxParts
      /\ thrown \subseteq DOMAIN futures /\ waited \in 0..Len(futures)
      /\ pc \in {"divide", "launch", "wait", "unwind", "trapped", "returned", "threw"}
  BY <1>1 DEF ParallelInv, CallTypes
<1> QED BY <1>1, <1>2, <1>3, <1>4, <1>5 DEF Parallel!TypeOK, Parallel!Ended

-----------------------------------------------------------------------------
(* All of them. *)

Inv ==
  /\ SingletonInv /\ ChainInv /\ RingInv
  /\ part = "Ring" => AloneInv
  /\ part = "Group" => GroupInv
  /\ part = "Parallel" => ParallelInv

(* The invariant holds at first.                                            *)
LEMMA InvInit == Init => Inv
<1> SUFFICES ASSUME Init PROVE Inv
  OBVIOUS
<1>1. SingletonInv /\ ChainInv /\ RingInv /\ AloneInv
  BY SingletonInvInit, ChainInvInit, RingInvInit, AloneInvInit DEF Init
<1> QED BY <1>1, GroupInvInit, ParallelInvInit DEF Init, Inv

(* A step of one component is a step or a stutter of each of them.          *)
LEMMA StepOfParts ==
  ASSUME [Next]_vars
  PROVE  /\ [OneCreator!Next]_(OneCreator!vars) /\ [Chain!Next]_(Chain!vars)
         /\ [Ring!Next]_(Ring!vars)
         /\ part' = part
         /\ part = "Ring" => \A t \in Pushers \ {Alone} : me'[t] = me[t]
         /\ part = "Group" => [Group!Next]_(Group!vars)
         /\ part = "Parallel" => [Parallel!Next]_(Parallel!vars)
<1> USE DEF OneCreator!vars, Chain!vars, Ring!vars, Group!vars, Parallel!vars, Parallel!call,
            Parallel!cut, Parallel!chunks, forParallel, forGroup, forTask, forLocker, forSingleton
<1>1. CASE InParallel(Parallel!Next)
  BY <1>1 DEF InParallel
<1>2. CASE InGroup(Group!Next)
  BY <1>2 DEF InGroup
<1>3. CASE InTask(Chain!Next)
  BY <1>3 DEF InTask
<1>4. CASE InRing(Ring!Next /\ Allowed)
  BY <1>4 DEF InRing, Allowed, Idlers
<1>5. CASE InSingleton(OneCreator!Next)
  BY <1>5 DEF InSingleton
<1>6. CASE UNCHANGED vars
  BY <1>6 DEF vars
<1> QED BY <1>1, <1>2, <1>3, <1>4, <1>5, <1>6 DEF Next

(* Every step keeps it.                                                     *)
LEMMA InvStep == Inv /\ [Next]_vars => Inv'
<1> SUFFICES ASSUME Inv, [Next]_vars PROVE Inv'
  OBVIOUS
<1>1. SingletonInv' /\ ChainInv' /\ RingInv' /\ part' = part
  BY StepOfParts, SingletonInvStep, ChainInvStep, RingInvStep DEF Inv
<1>2. part = "Ring" => AloneInv'
  BY StepOfParts, AloneInvStep DEF Inv
<1>3. part = "Group" => GroupInv'
  BY StepOfParts, GroupInvStep DEF Inv
<1>4. part = "Parallel" => ParallelInv'
  BY StepOfParts, ParallelInvStep DEF Inv
<1> QED BY <1>1, <1>2, <1>3, <1>4 DEF Inv

(* So it holds in every behaviour.                                          *)
LEMMA InvHolds == Spec => []Inv
BY InvInit, InvStep, PTL DEF Spec

(* Everything is of its type, in particular: an iterator stays in the range *)
(* or one behind it, sequece_ is overrun by one number for each pusher but  *)
(* one, and a slot counts no more readers than there are.                   *)
THEOREM ThreadsTypeCorrect == Spec => []TypeOK
<1>1. Inv => TypeOK
  <2> SUFFICES ASSUME Inv PROVE TypeOK
    OBVIOUS
  <2>1. Chain!TypeOK /\ OneCreator!TypeOK
    BY DEF Inv, ChainInv, SingletonInv
  <2>2. Ring!TypeOK
    BY RingTypeSafe DEF Inv
  <2>3. part = "Group" => Group!TypeOK
    BY DEF Inv, GroupInv
  <2>4. part = "Parallel" => Parallel!TypeOK
    BY ParallelTypeSafe DEF Inv
  <2> QED BY <2>1, <2>2, <2>3, <2>4 DEF TypeOK
<1> QED BY <1>1, InvHolds, PTL

(* No chunk and no task runs on when the call that started it is over: the  *)
(* caller has waited for each future, or the destructor of the future did   *)
(* (task_group.hpp).                                                        *)
THEOREM NothingOutlivesCallHolds == Spec => []NothingOutlivesCall
<1>1. Inv => NothingOutlivesCall
  BY ParallelSafe, GroupSafe DEF Inv, NothingOutlivesCall
<1> QED BY <1>1, InvHolds, PTL

(* What a call that returns has done, for every length of the range and     *)
(* every number of processors: ParallelForeach has covered it, and          *)
(* ParallelReduce has left out just the remainder of the division.          *)
THEOREM ReturnsCompleteHolds == Spec => []ReturnsComplete
<1>1. Inv => ReturnsComplete
  BY ParallelSafe, GroupSafe DEF Inv, ReturnsComplete
<1> QED BY <1>1, InvHolds, PTL

(* A chain that Get or Wait runs in its statement calls no continuation     *)
(* that has ended, and a function belongs to one task (task.hpp).           *)
THEOREM ChainsSoundHolds == Spec => []ChainsSound
<1>1. Inv => ChainsSound
  BY ChainSafe DEF Inv
<1> QED BY <1>1, InvHolds, PTL

(* The ring's slots keep what their readers locked, whatever the pushers    *)
(* do; with one pusher it holds the last elements in order, whatever the    *)
(* size, the offsets and the number of pushes (locker_queue.h).             *)
THEOREM RingSoundHolds == Spec => []RingSound
<1>1. Inv => RingSound
  <2> SUFFICES ASSUME Inv PROVE RingSound
    OBVIOUS
  <2>1. Ring!HolderUndisturbed
    BY RingSafe DEF Inv
  <2>2. part = "Ring" => Ring!RingInOrder /\ Ring!RoomAfterPop
    BY AloneSafe DEF Inv
  <2> QED BY <2>1, <2>2 DEF RingSound
<1> QED BY <1>1, InvHolds, PTL

(* One creator makes one object at a time, and is never given null or an    *)
(* object that is gone, whatever the other threads read (singleton.hpp).    *)
THEOREM OneObjectHolds == Spec => OneObject
<1>1. Inv => OneCreator!OneObject /\ OneCreator!NeverDangles /\ OneCreator!DestroyedForGood
  BY SingletonSafe DEF Inv
<1>2. Inv /\ [Next]_vars =>
        [ \A t \in {Creator} \cap {Creator} :
            stage[t] = "return" /\ stage'[t] = "idle" => mine'[t] \in alive ]_(OneCreator!vars)
  <2> SUFFICES ASSUME Inv, [Next]_vars, stage[Creator] = "return", stage'[Creator] = "idle"
               PROVE  mine'[Creator] \in alive
    OBVIOUS
  <2> QED BY StepOfParts, SingletonLive DEF Inv
<1>3. Spec => [](OneCreator!OneObject /\ OneCreator!NeverDangles /\ OneCreator!DestroyedForGood)
  BY <1>1, InvHolds, PTL
<1>4. Spec => OneCreator!CreatorGetsLive
  BY <1>2, InvHolds, PTL DEF Spec, OneCreator!CreatorGetsLive
<1> QED BY <1>3, <1>4 DEF OneObject

=============================================================================
