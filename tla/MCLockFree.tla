----------------------------- MODULE MCLockFree -----------------------------
(* The lock-free containers, for TLC: a behaviour is one of the container   *)
(* that part names.  The variables they have in common are shared; those    *)
(* that the container does not have stay Null.                              *)
EXTENDS Integers, Sequences, FiniteSets, TLC

CONSTANTS
  Threads, Nodes, Values, Null,
  Dummy,               \* one more node, for the queue
  MaxPops, MaxCount,   \* bounds of the containers
  MaxHazards, MaxExits

ASSUME LockFreeAssumption ==
  /\ Null \notin Nodes \cup Values \cup Threads \cup {Dummy}
  /\ IsFiniteSet(Threads) /\ IsFiniteSet(Nodes) /\ Dummy \notin Nodes
  /\ {MaxHazards, MaxPops, MaxCount} \subseteq Nat \ {0} /\ MaxExits \in Nat

VARIABLES
  part,
  head, alive, pops, out, empties,
  next, data, pc, old,
  internal, ptr,                                \* RefCountStack
  id, pointer, nodes_to_reclaim, self, exits,   \* HazardStack
  to_be_deleted, threads_in_pop, claimed, process,   \* ThreadCountStack
  new, below,                                   \* SharedptrStack
  tail, node, me, lost, emptyAt                 \* LockFreeQueue

forRefCount == << internal, ptr >>
forHazard == << id, pointer, nodes_to_reclaim, self, exits >>
forThreadCount == << to_be_deleted, threads_in_pop, claimed, process >>
forSharedptr == << new, below >>
forQueue == << tail, node, me, lost, emptyAt >>
linked == << next, data >>
stepping == << pc, old >>
vars == << part, head, alive, pops, out, empties, linked, stepping,
           forRefCount, forHazard, forThreadCount, forSharedptr, forQueue >>

RefCount == INSTANCE RefCountStack
Hazard == INSTANCE HazardStack
ThreadCount == INSTANCE ThreadCountStack WITH MaxPops <- MaxPops + 1
Sharedptr == INSTANCE SharedptrStack
Queue == INSTANCE LockFreeQueue WITH
  Nodes <- Nodes \cup {Dummy}, MaxPops <- MaxPops - 1

NoRefCount == internal = Null /\ ptr = Null
NoHazard == /\ id = Null /\ pointer = Null /\ nodes_to_reclaim = Null
            /\ self = Null /\ exits = Null
NoThreadCount == to_be_deleted = Null /\ threads_in_pop = Null /\ claimed = Null /\ process = Null
NoSharedptr == new = Null /\ below = Null
NoQueue == tail = Null /\ node = Null /\ me = Null /\ lost = Null /\ emptyAt = Null

Init ==
  \/ /\ part = "RefCount" /\ RefCount!Init
     /\ NoHazard /\ NoThreadCount /\ NoSharedptr /\ NoQueue
  \/ /\ part = "Hazard" /\ Hazard!Init /\ pc = Null /\ old = Null
     /\ NoRefCount /\ NoThreadCount /\ NoSharedptr /\ NoQueue
  \/ /\ part = "ThreadCount" /\ ThreadCount!Init
     /\ NoRefCount /\ NoHazard /\ NoSharedptr /\ NoQueue
  \/ /\ part = "Sharedptr" /\ Sharedptr!Init /\ alive = Null
     /\ NoRefCount /\ NoHazard /\ NoThreadCount /\ NoQueue
  \/ /\ part = "Queue" /\ Queue!Init
     /\ next = Null /\ data = Null /\ pc = Null /\ old = Null
     /\ NoRefCount /\ NoHazard /\ NoThreadCount /\ NoSharedptr

Next == UNCHANGED part /\
  \/ /\ part = "RefCount" /\ RefCount!Next
     /\ UNCHANGED << forHazard, forThreadCount, forSharedptr, forQueue >>
  \/ /\ part = "Hazard" /\ Hazard!Next
     /\ UNCHANGED << stepping, forRefCount, forThreadCount, forSharedptr, forQueue >>
  \/ /\ part = "ThreadCount" /\ ThreadCount!Next
     /\ UNCHANGED << forRefCount, forHazard, forSharedptr, forQueue >>
  \/ /\ part = "Sharedptr" /\ Sharedptr!Next
     /\ UNCHANGED << alive, forRefCount, forHazard, forThreadCount, forQueue >>
  \/ /\ part = "Queue" /\ Queue!Next
     /\ UNCHANGED << linked, stepping, forRefCount, forHazard, forThreadCount, forSharedptr >>

Spec == Init /\ [][Next]_vars

Symmetry == Permutations(Threads) \cup Permutations(Nodes)
              \cup Permutations(Values)

-----------------------------------------------------------------------------
(* Properties: those of the containers. *)

(* Type invariant.                                                          *)
TypeOK ==
  CASE part = "RefCount"    -> RefCount!TypeOK
    [] part = "Hazard"      -> Hazard!TypeOK
    [] part = "ThreadCount" -> ThreadCount!TypeOK
    [] part = "Sharedptr"   -> Sharedptr!TypeOK
    [] part = "Queue"       -> Queue!TypeOK

(* No node is deleted while it is linked, or while a call will still        *)
(* dereference it, link it or delete it.                                    *)
NoUseAfterDelete ==
  CASE part = "RefCount"    -> RefCount!NoUseAfterDelete
    [] part = "Hazard"      -> Hazard!NoUseAfterDelete
    [] part = "ThreadCount" -> ThreadCount!NoUseAfterDelete
    [] part = "Queue"       -> Queue!NoUseAfterDelete
    [] OTHER                -> TRUE

(* Every allocated node will be deleted, and by one thread.  Where nodes    *)
(* wait for their deletion, each is linked, on the list that all share, or  *)
(* with one thread; where they are counted, those that are left when no     *)
(* call is in progress are linked.  But LockFreeQueue keeps for ever the    *)
(* nodes on which a pop found it empty.                                     *)
EveryNodeHasOwner ==
  CASE part = "RefCount"    -> RefCount!NoLeak
    [] part = "Hazard"      -> Hazard!OneOwner
    [] part = "ThreadCount" -> ThreadCount!OneOwner
    [] part = "Queue"       -> Queue!LeaksOnlyEmptyPops
    [] OTHER                -> TRUE

(* What the deletions rely on adds up.  The two counts of a node of         *)
(* RefCountStack are, together, the number of its users; threads_in_pop of  *)
(* ThreadCountStack is that of the threads that may hold a node.            *)
CountsAddUp ==
  CASE part = "RefCount"    -> RefCount!CountsAddUp
    [] part = "ThreadCount" -> ThreadCount!CountsThreads
    [] OTHER                -> TRUE

(* A slot of HazardStack announces what its one owner has in hand: nothing  *)
(* between pops, or a node would be kept for ever, and nothing of a former  *)
(* owner, whose last stores come late.                                      *)
SlotsHandedOver == part = "Hazard" => Hazard!SlotsHandedOver

(* The stacks are linearizable: an exchange that finds in head what was     *)
(* read before links or unlinks the right node, whatever came between and   *)
(* even when the address was deleted and allocated again.                   *)
ImplementsLifo ==
  /\ CASE part = "RefCount"    -> RefCount!Lifo!Init
       [] part = "Hazard"      -> Hazard!Lifo!Init
       [] part = "ThreadCount" -> ThreadCount!Lifo!Init
       [] part = "Sharedptr"   -> Sharedptr!Lifo!Init
       [] OTHER                -> TRUE
  /\ [][ CASE part = "RefCount"    -> [RefCount!Lifo!Next]_(RefCount!Lifo!stackVars)
           [] part = "Hazard"      -> [Hazard!Lifo!Next]_(Hazard!Lifo!stackVars)
           [] part = "ThreadCount" -> [ThreadCount!Lifo!Next]_(ThreadCount!Lifo!stackVars)
           [] part = "Sharedptr"   -> [Sharedptr!Lifo!Next]_(Sharedptr!Lifo!stackVars)
           [] OTHER                -> TRUE ]_vars

(* Pushes and pops of LockFreeQueue are linearizable to a first-in-first-   *)
(* out queue, but for the pushes that store their element in a node already *)
(* popped.                                                                  *)
ImplementsFifo ==
  /\ part = "Queue" => Queue!Fifo!Init
  /\ [][ part = "Queue" => [Queue!Fifo!Next]_(Queue!Fifo!queueVars) ]_vars

=============================================================================
