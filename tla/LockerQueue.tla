---------------------------- MODULE LockerQueue ----------------------------
(***************************************************************************)
(* LockerQueue of include/locker_queue.h: a ring of lockers in shared      *)
(* memory.  A push evicts elements at the head, takes the next slot, and   *)
(* holds its write lock until UnlockPush; LockAt reads a slot under its    *)
(* read lock.  One step is one operation on head_index_, sequece_, count_  *)
(* or a locker.  The lockers' class is not in the repository: it is        *)
(* modelled as its name and its use here say.                              *)
(***************************************************************************)
EXTENDS Integers, FiniteSets

CONSTANTS
  Pushers, Readers,   \* the threads
  Size,               \* the number of lockers
  Offsets,            \* locked_offset of what is pushed; its size is 1
  MaxPushes           \* bound: values of sequece_

VARIABLES
  head_index, sequece, count,
  lockers,   \* each slot's locks, whether it is set, and its info; no is a
             \* history variable, the sequence number of the push that set it
  me         \* each thread's place and local variables

vars == << head_index, sequece, count, lockers, me >>

Threads == Pushers \cup Readers
Slots == 0..(Size - 1)

NoInfo == [offset |-> 0, size |-> 0]
Unset == [writer |-> FALSE, readers |-> 0, setted |-> FALSE, info |-> NoInfo, no |-> -1]

Idle == [pc |-> "idle", want |-> 0, head |-> 0, count |-> 0, seq |-> 0]

Init ==
  /\ head_index = 0 /\ sequece = 0 /\ count = 0
  /\ lockers = [i \in Slots |-> Unset]
  /\ me = [t \in Threads |-> Idle]

(* A step of thread t from one place to another, with its locals changed.   *)
At(t, place) == me[t].pc = place
Goto(t, place) == me' = [me EXCEPT ![t].pc = place]
Keep(t, place, field, value) == me' = [me EXCEPT ![t].pc = place, ![t][field] = value]

LockPush(t, offset) ==
  /\ At(t, "idle") /\ sequece < MaxPushes
  /\ Keep(t, "head", "want", offset)
  /\ UNCHANGED << head_index, sequece, count, lockers >>

LoadHead(t) ==
  /\ At(t, "head") /\ Keep(t, "count", "head", head_index)
  /\ UNCHANGED << head_index, sequece, count, lockers >>

LoadCount(t) ==
  /\ At(t, "count") /\ Keep(t, "test", "count", count)
  /\ UNCHANGED << head_index, sequece, count, lockers >>

(* The element at the head begins at the new offset or behind it.           *)
InTheWay(t) ==
  LET info == lockers[me[t].head].info IN
    info.offset >= me[t].want /\ info.offset + info.size > me[t].want

MustEvict(t) == me[t].count = Size \/ InTheWay(t)

(* The locker is read without its lock. *)
Test(t) ==
  /\ At(t, "test")
  /\ Goto(t, IF me[t].count # 0 /\ MustEvict(t) THEN "subtract" ELSE "sequence")
  /\ UNCHANGED << head_index, sequece, count, lockers >>

Subtract(t) ==
  /\ At(t, "subtract")
  /\ IF count = me[t].count
       THEN count' = count - 1 /\ Goto(t, "advance")
       ELSE Keep(t, "test", "count", count) /\ UNCHANGED count
  /\ UNCHANGED << head_index, sequece, lockers >>

NextHead(t) == (me[t].head + 1) % Size

(* When another thread has moved the head, count is tested and subtracted   *)
(* from again.                                                              *)
Advance(t) ==
  /\ At(t, "advance")
  /\ IF head_index = me[t].head
       THEN head_index' = NextHead(t) /\ Goto(t, "evict")
       ELSE Keep(t, "count", "head", head_index) /\ UNCHANGED head_index
  /\ UNCHANGED << sequece, count, lockers >>

TryLockForWrite(i) == ~lockers[i].writer /\ lockers[i].readers = 0

LockEvicted(t) ==
  /\ At(t, "evict") /\ TryLockForWrite(me[t].head)
  /\ lockers' = [lockers EXCEPT ![me[t].head].writer = TRUE]
  /\ Goto(t, "reset")
  /\ UNCHANGED << head_index, sequece, count >>

ResetTo == Unset

Reset(t) ==
  /\ At(t, "reset")
  /\ lockers' = [lockers EXCEPT ![me[t].head] = ResetTo]
  /\ Goto(t, "head")
  /\ UNCHANGED << head_index, sequece, count >>

LoadSequence(t) ==
  /\ At(t, "sequence") /\ Keep(t, "take", "seq", sequece)
  /\ UNCHANGED << head_index, sequece, count, lockers >>

TakeSequence(t) ==
  /\ At(t, "take")
  /\ IF sequece = me[t].seq
       THEN sequece' = sequece + 1 /\ Goto(t, "add")
       ELSE Keep(t, "take", "seq", sequece) /\ UNCHANGED sequece
  /\ UNCHANGED << head_index, count, lockers >>

Add(t) ==
  /\ At(t, "add")
  /\ count' = count + 1
  /\ Goto(t, "lock")
  /\ UNCHANGED << head_index, sequece, lockers >>

Slot(t) == me[t].seq % Size

LockSlot(t) ==
  /\ At(t, "lock") /\ TryLockForWrite(Slot(t))
  /\ lockers' = [lockers EXCEPT ![Slot(t)].writer = TRUE]
  /\ Goto(t, "set")
  /\ UNCHANGED << head_index, sequece, count >>

Set(t) ==
  /\ At(t, "set")
  /\ lockers' = [lockers EXCEPT ![Slot(t)].setted = TRUE, ![Slot(t)].no = me[t].seq,
                   ![Slot(t)].info = [offset |-> me[t].want, size |-> 1]]
  /\ Goto(t, "pushed")
  /\ UNCHANGED << head_index, sequece, count >>

(* The client unlocks the index it was given, once. *)
UnlockPush(t) ==
  /\ At(t, "pushed")
  /\ lockers' = [lockers EXCEPT ![Slot(t)].writer = FALSE]
  /\ Goto(t, "idle")
  /\ UNCHANGED << head_index, sequece, count >>

(* A slot that is being written is refused at once, and nothing changes.  A *)
(* slot that is not set is refused when its read lock has been taken.       *)
LockAt(t, i) ==
  /\ At(t, "idle") /\ ~lockers[i].writer
  /\ lockers' = [lockers EXCEPT ![i].readers = @ + 1]
  /\ me' = [me EXCEPT ![t].pc = "locked", ![t].head = i, ![t].seq = lockers[i].no]
  /\ UNCHANGED << head_index, sequece, count >>

Setted(t) ==
  /\ At(t, "locked")
  /\ Goto(t, IF lockers[me[t].head].setted THEN "reading" ELSE "refused")
  /\ UNCHANGED << head_index, sequece, count, lockers >>

ReleaseReadLock(t) ==
  /\ lockers' = [lockers EXCEPT ![me[t].head].readers = @ - 1]
  /\ Goto(t, "idle")
  /\ UNCHANGED << head_index, sequece, count >>

Refuse(t) == At(t, "refused") /\ ReleaseReadLock(t)

UnlockAt(t) == At(t, "reading") /\ ReleaseReadLock(t)

(* What a reader that has a read lock does next. *)
Read(t) == Setted(t) \/ Refuse(t) \/ UnlockAt(t)

Pop(t) == LoadHead(t) \/ LoadCount(t) \/ Test(t) \/ Subtract(t) \/ Advance(t)
            \/ LockEvicted(t) \/ Reset(t)

Push(t) == Pop(t) \/ LoadSequence(t) \/ TakeSequence(t) \/ Add(t)
             \/ LockSlot(t) \/ Set(t)

Next ==
  \/ \E t \in Pushers : Push(t) \/ UnlockPush(t) \/ \E o \in Offsets : LockPush(t, o)
  \/ \E t \in Readers : Read(t) \/ \E i \in Slots : LockAt(t, i)

(* Threads go on, and clients unlock what they have locked.  Fairness is    *)
(* weak: a pusher polls the write lock, and sleeps in between, so it gets   *)
(* one that stays free, and may miss one that is free now and then.         *)
Spec == /\ Init /\ [][Next]_vars
        /\ \A t \in Pushers : WF_vars(Push(t)) /\ WF_vars(UnlockPush(t))
        /\ \A t \in Readers : WF_vars(Read(t))

-----------------------------------------------------------------------------
(* Properties. *)

(* Type invariant. *)
TypeOK ==
  /\ head_index \in Slots
  /\ sequece \in 0..(MaxPushes + Cardinality(Pushers) - 1) /\ count \in 0..sequece
  /\ lockers \in [Slots -> [writer : BOOLEAN, readers : 0..Cardinality(Readers),
        setted : BOOLEAN, info : [offset : Offsets \cup {0}, size : 0..1], no : Int]]
  /\ \A t \in Threads : me[t].head \in Slots

(* A thread that has the read lock of a slot finds there, until it unlocks  *)
(* it, what was there when it locked it, and that is an element when it has *)
(* been told so; a thread that writes is alone.                             *)
HolderUndisturbed ==
  /\ \A t \in Readers : me[t].pc \in {"locked", "reading", "refused"} =>
       LET l == lockers[me[t].head] IN
         /\ l.no = me[t].seq /\ ~l.writer
         /\ At(t, "reading") => l.setted
  /\ \A t, u \in Pushers :
       t # u /\ At(t, "pushed") /\ At(u, "pushed") => Slot(t) # Slot(u)

Between(t) == me[t].pc \in {"idle", "pushed"}

(* With one pusher: between its pushes, the elements are in the count_      *)
(* slots from head_index_ on, in the order they were pushed, up to the last.*)
RingInOrder == (\A t \in Pushers : Between(t)) =>
  /\ { i \in Slots : lockers[i].setted } = { (head_index + k) % Size : k \in 0..(count - 1) }
  /\ \A k \in 0..(count - 1) : lockers[(head_index + k) % Size].no = sequece - count + k

(* With one pusher: a push that goes in has room, and the element at the    *)
(* head is not in its way.                                                  *)
RoomAfterPop == \A t \in Pushers : At(t, "sequence") =>
  count < Size /\ (count > 0 => ~InTheWay(t))

(* When readers stop coming, every push is completed.  Readers that go on   *)
(* coming, one of them is enough, may be in the slot each time that a       *)
(* pusher tries its write lock.  The bound on pushes leaves out the same of *)
(* other pushers.                                                           *)
ReadersStop == <>[][\A t \in Readers, i \in Slots : ~LockAt(t, i)]_vars

PushCompletes == ReadersStop => \A t \in Pushers : ~Between(t) ~> Between(t)

=============================================================================
