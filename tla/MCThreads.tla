----------------------------- MODULE MCThreads -----------------------------
(* What is called by, or calls for, several threads, for TLC: the parallel  *)
(* algorithms, groups of tasks, tasks, the locked ring and the singleton.   *)
(* A behaviour is one of the component that part names; the variables of    *)
(* the others stay as they are.                                             *)
EXTENDS Integers, Sequences, FiniteSets

CONSTANTS
  MaxSize, MaxParts,                 \* bounds of the parallel algorithms
  MaxTasks,                          \* bound of groups
  Variables, MaxFuncs, MaxJobs,      \* tasks, and bounds of what they run;
  MaxDone,                           \* and one of functions and jobs together
  Pushers, Readers, Size, Offsets,   \* of the ring
  Alone, Absent,                     \* the one pusher of "Ring", and the readers
                                     \* that "Shared" does without
  MaxPushes, MaxShared,              \* bounds of pushes, and of those of "Shared"
  Callers, Creator, Objects,         \* of the singleton
  Null

ASSUME ThreadsAssumption ==
  /\ MaxSize \in Nat /\ MaxParts \in Nat
  /\ MaxTasks \in Nat
  /\ MaxFuncs \in Nat /\ MaxJobs \in Nat
  /\ IsFiniteSet(Pushers) /\ IsFiniteSet(Readers) /\ Pushers \cap Readers = {}
  /\ Size \in Nat \ {0} /\ Offsets \subseteq Nat
  /\ Alone \in Pushers /\ MaxPushes \in Nat
  /\ Creator \in Callers /\ Null \notin Objects

VARIABLES
  part,
  pc,                                               \* the next two
  algorithm, size, bad, part_num, begin, last, block_size, futures,
  thrown, waited, visits,                           \* ParallelAlgorithms
  algo, n, valued, fut, calls, got, at,             \* TaskGroup
  fun, made, temps, dead, job, waiting,             \* Task
  head_index, sequece, count, lockers, me,          \* LockerQueue
  instance, alive, deleted, mine, stage             \* Singleton; its pc

forParallel == << algorithm, size, bad, part_num, begin, last, block_size,
                  futures, thrown, waited, visits >>
forGroup == << algo, n, valued, fut, calls, got, at >>
forTask == << fun, made, temps, dead, job, waiting >>
forLocker == << head_index, sequece, count, lockers, me >>
forSingleton == << instance, alive, deleted, mine, stage >>
vars == << part, pc, forParallel, forGroup, forTask, forLocker, forSingleton >>

Parallel == INSTANCE ParallelAlgorithms
Group == INSTANCE TaskGroup
Chain == INSTANCE Task WITH Tasks <- Variables
Ring == INSTANCE LockerQueue
OneCreator == INSTANCE Singleton WITH
  Threads <- Callers, Creators <- {Creator}, Destroyers <- {Creator}, pc <- stage

NoParallel ==
  /\ algorithm = Null /\ size = Null /\ bad = Null /\ part_num = Null
  /\ begin = Null /\ last = Null /\ block_size = Null /\ futures = Null
  /\ thrown = Null /\ waited = Null /\ visits = Null
NoGroup == /\ algo = Null /\ n = Null /\ valued = Null /\ fut = Null
           /\ calls = Null /\ got = Null /\ at = Null

Init ==
  /\ Chain!Init /\ Ring!Init /\ OneCreator!Init
  /\ \/ part = "Parallel" /\ Parallel!Init /\ NoGroup
     \/ part = "Group" /\ Group!Init /\ NoParallel
     \/ /\ part \in {"Task", "Ring", "Shared", "Singleton"}
        /\ NoParallel /\ NoGroup /\ pc = Null

InParallel(A) ==
  /\ part = "Parallel" /\ A
  /\ UNCHANGED << part, forGroup, forTask, forLocker, forSingleton >>
InGroup(A) ==
  /\ part = "Group" /\ A
  /\ UNCHANGED << part, forParallel, forTask, forLocker, forSingleton >>
InTask(A) ==
  /\ part = "Task" /\ A /\ made' + Len(job') <= MaxDone
  /\ UNCHANGED << part, pc, forParallel, forGroup, forLocker, forSingleton >>
InRing(A) ==
  /\ part \in {"Ring", "Shared"} /\ A
  /\ UNCHANGED << part, pc, forParallel, forGroup, forTask, forSingleton >>
InSingleton(A) ==
  /\ part = "Singleton" /\ A
  /\ UNCHANGED << part, pc, forParallel, forGroup, forTask, forLocker >>

(* The ring has one pusher and all readers; or all pushers and some of the  *)
(* readers, and then fewer pushes, which have one offset.                   *)
Idlers == IF part = "Ring" THEN Pushers \ {Alone} ELSE Absent

Allowed ==
  /\ \A t \in Idlers : me'[t] = me[t]
  /\ part = "Shared" => \A t \in Pushers :
       me[t].pc = "idle" /\ me'[t].pc # "idle" => sequece < MaxShared /\ me'[t].want = 1

Next ==
  \/ InParallel(Parallel!Next)
  \/ InGroup(Group!Next)
  \/ InTask(Chain!Next)
  \/ InRing(Ring!Next /\ Allowed)
  \/ InSingleton(OneCreator!Next)

(* The fairness of each component.                                          *)
Fairness ==
  /\ WF_vars(InParallel(Parallel!Caller))
  /\ \A f \in Parallel!Chunks : WF_vars(InParallel(Parallel!Visit(f)))
  /\ WF_vars(InGroup(Group!Caller))
  /\ \A i \in Group!Tasks : WF_vars(InGroup(Group!Thread(i)))
  /\ WF_vars(InTask(Chain!Return))
  /\ \A j \in 1..MaxJobs : WF_vars(InTask(j \in Chain!Jobs /\ Chain!Step(j)))
  /\ \A t \in Pushers :
       WF_vars(InRing(Ring!Push(t))) /\ WF_vars(InRing(Ring!UnlockPush(t)))
  /\ \A t \in Readers : WF_vars(InRing(Ring!Read(t)))

Spec == Init /\ [][Next]_vars /\ Fairness

-----------------------------------------------------------------------------
(* Properties: those of the components. *)

(* Type invariant.                                                          *)
TypeOK ==
  /\ Chain!TypeOK /\ Ring!TypeOK /\ OneCreator!TypeOK
  /\ part = "Parallel" => Parallel!TypeOK
  /\ part = "Group" => Group!TypeOK

(* The callers' functions are referred to by the chunks and tasks: none of  *)
(* them runs on when the call is over, also when it throws at the first     *)
(* exception, and when WhenAny has its result.                              *)
NothingOutlivesCall ==
  /\ part = "Parallel" => Parallel!NoChunkOutlivesCall
  /\ part = "Group" => Group!NoTaskOutlivesCall

(* What a call that returns has done.  ParallelForeach has visited all of   *)
(* the range once, but for what is behind an exception; ParallelReduce has  *)
(* left out the remainder of a division, and tells of exceptions; WhenAll   *)
(* and a group have run every task; WhenAny names a task that has ended.    *)
ReturnsComplete ==
  /\ part = "Parallel" =>
       /\ Parallel!VisitedOnce /\ Parallel!ForeachCovers
       /\ Parallel!ReduceOmitsRemainder /\ Parallel!ReduceReportsThrow
  /\ part = "Group" => Group!ReturnsComplete /\ Group!AnyNamesWinner

(* A function belongs to one task, and a Get or Wait in the statement of    *)
(* the Then that made its chain calls no continuation that has ended.       *)
ChainsSound == Chain!SoundWhileWaiting /\ Chain!OneOwner

(* A slot that is being read keeps the element that its reader locked, and  *)
(* one that is being written is written by one pusher, also when two        *)
(* pushers have made the counters lose touch with the slots.  With one      *)
(* pusher the counted slots hold the last elements, in order, and a push    *)
(* that goes in has evicted what was in its way.                            *)
RingSound ==
  /\ Ring!HolderUndisturbed
  /\ part = "Ring" => Ring!RingInOrder /\ Ring!RoomAfterPop

(* Where one thread creates and destroys the singleton, there is never a    *)
(* second object, none survives its destruction, and the creator is never   *)
(* given null or an object that is gone; the other threads may be.          *)
OneObject ==
  /\ [](OneCreator!OneObject /\ OneCreator!NeverDangles /\ OneCreator!DestroyedForGood)
  /\ OneCreator!CreatorGetsLive

(* Every call ends: of the parallel algorithms; of a group, WhenAll, and    *)
(* WhenAny if it has a task with a thread; Get and Wait of a task; and a    *)
(* push, when readers stop coming.                                          *)
CallsEnd ==
  /\ part = "Parallel" => Parallel!Terminates
  /\ part = "Group" => Group!Terminates
  /\ Chain!CallsReturn
  /\ Ring!PushCompletes

=============================================================================
