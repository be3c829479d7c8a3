------------------------------- MODULE Events -------------------------------
(***************************************************************************)
(* Events<Func> of include/events.hpp: a map from keys to observers, and a *)
(* Notify that walks it while the observers it calls may themselves        *)
(* connect, disconnect, notify or throw.  One thread runs: frames is the   *)
(* stack of Notify calls in progress, each at the observer it has called.  *)
(***************************************************************************)
EXTENDS Integers, Sequences

CONSTANTS
  MaxKey,        \* bound: how many observers are ever connected
  MaxNotifies    \* bound: how many calls of Notify there are

VARIABLES
  observer_id,   \* observer_id_: the key of the next observer
  connections,   \* connections_: the keys of the observers in the map
  frames,        \* the calls of Notify in progress, the innermost first
  notifies,      \* how many calls of Notify have begun
  lost           \* a loop stood on an element that was erased

vars == << observer_id, connections, frames, notifies, lost >>

Start == -1      \* a loop that has called nobody yet

Init ==
  /\ observer_id = 0
  /\ connections = {}
  /\ frames = << >>
  /\ notifies = 0 /\ lost = FALSE

(* at: the element the loop stands on; called: history. *)
Frame == [at |-> Start, called |-> {}]

(* The code outside, or the observer that was called last, may act. *)
MayAct == ~lost /\ (frames # << >> => frames[1].at # Start)

PreIncremented == observer_id'

NewKey == observer_id

Connect ==
  /\ MayAct /\ observer_id < MaxKey
  /\ observer_id' = observer_id + 1
  /\ connections' = connections \cup {NewKey}
  /\ UNCHANGED << frames, notifies, lost >>

Disconnect(key) ==
  /\ MayAct
  /\ connections' = connections \ {key}
  /\ UNCHANGED << observer_id, frames, notifies, lost >>

Notify ==
  /\ MayAct /\ notifies < MaxNotifies
  /\ notifies' = notifies + 1
  /\ frames' = << Frame >> \o frames
  /\ UNCHANGED << observer_id, connections, lost >>

(* Slip: the loop stays where it is. *)
AfterAgain(f) == { k \in connections : k >= f.at }

After(f) == { k \in connections : k > f.at }

(* An observer returns, and the loop goes on from the element it stands on. *)
(* When that was erased, what the loop and the observer's own call do is    *)
(* undefined: the model ends there.                                         *)
Erased(f) == f.at # Start /\ f.at \notin connections

Step ==
  /\ ~lost /\ frames # << >>
  /\ UNCHANGED << observer_id, connections, notifies >>
  /\ \/ /\ Erased(frames[1])
        /\ lost' = TRUE
        /\ UNCHANGED frames
     \/ /\ ~Erased(frames[1]) /\ After(frames[1]) # {}
        /\ \E k \in After(frames[1]) :
             /\ \A j \in After(frames[1]) : k <= j
             /\ frames' = [frames EXCEPT ![1] = [at |-> k, called |-> @.called \cup {k}]]
        /\ UNCHANGED lost
     \/ /\ ~Erased(frames[1]) /\ After(frames[1]) = {}
        /\ frames' = Tail(frames)
        /\ UNCHANGED lost

(* An observer throws: Notify is left, and the observer that called it, or  *)
(* the code outside, catches or throws in turn.                             *)
Throw ==
  /\ MayAct /\ frames # << >>
  /\ frames' = Tail(frames)
  /\ UNCHANGED << observer_id, connections, notifies, lost >>

Next == Connect \/ Notify \/ Step \/ Throw
          \/ \E key \in 0..(MaxKey - 1) : Disconnect(key)

(* The thread goes on: an observer that was called returns or throws. *)
Spec == Init /\ [][Next]_vars /\ WF_vars(Step)

-----------------------------------------------------------------------------
(* Properties. *)

(* Type invariant. *)
TypeOK ==
  /\ observer_id \in 0..MaxKey
  /\ connections \subseteq 0..(observer_id - 1)
  /\ frames \in Seq([at : Start..(observer_id - 1),
                     called : SUBSET (0..(observer_id - 1))])
  /\ notifies \in 0..MaxNotifies
  /\ lost \in BOOLEAN

(* A Notify that returns has called every observer that is connected then,  *)
(* also those connected meanwhile, whatever the observers connected,        *)
(* disconnected and notified on the way.                                    *)
CallsConnected ==
  Step /\ frames' = Tail(frames) => connections \subseteq frames[1].called

(* Keys are not reused: no observer gets the notification that began before *)
(* another one left under the same key.                                     *)
CalledInTurn ==
  [][ \A k \in connections' \ connections :
        \A i \in 1..Len(frames) : k \notin frames[i].called ]_vars

=============================================================================
