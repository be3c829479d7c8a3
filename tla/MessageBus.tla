----------------------------- MODULE MessageBus -----------------------------
(***************************************************************************)
(* MessageBus of include/message_bus.hpp: a multimap from keys, a topic    *)
(* and the type of a function, to receivers.  SendReq walks the range of a *)
(* key while the receivers it calls may attach, remove, send or throw.     *)
(* One thread runs.  SendReq does not call AnyCast but only names it,      *)
(* which does not compile: it is read as the call it is in IocContainer.   *)
(***************************************************************************)
EXTENDS Naturals, Sequences, FiniteSets

CONSTANTS
  Type,          \* the function type of each key; keys are in the map's order
  MaxReceivers,  \* bound: how many receivers are ever attached
  MaxSends       \* bound: how many calls of SendReq there are

Keys == DOMAIN Type

VARIABLES
  map,      \* map_: the receivers in the map, numbered as they were attached
  key,      \* the key each of them was attached under
  frames,   \* the calls of SendReq in progress, the innermost first
  sends,    \* how many calls of SendReq have begun
  lost      \* a loop used an iterator whose element was erased

vars == << map, key, frames, sends, lost >>

End == 0    \* map_.end()

Init ==
  /\ map = {} /\ key = << >>
  /\ frames = << >> /\ sends = 0 /\ lost = FALSE

(* A new element comes behind those of its key. *)
Precedes(i, j) == key[i] < key[j] \/ (key[i] = key[j] /\ i < j)

FirstOf(S) ==
  IF S = {} THEN End ELSE CHOOSE i \in S : \A j \in S \ {i} : Precedes(i, j)

(* Slip: the range goes to the end of the map. *)
NoBound(k) == End

LowerBound(k) == FirstOf({ i \in map : key[i] >= k })
UpperBound(k) == FirstOf({ i \in map : key[i] > k })

(* The code outside, or the receiver that was called last, may act. *)
MayAct == ~lost /\ (frames # << >> => frames[1].inside)

Number == Len(key) + 1

Attach(k) ==
  /\ MayAct /\ Len(key) < MaxReceivers
  /\ key' = Append(key, k)
  /\ map' = map \cup {Number}
  /\ UNCHANGED << frames, sends, lost >>

Remove(k) ==
  /\ MayAct
  /\ map' = { i \in map : key[i] # k }
  /\ UNCHANGED << key, frames, sends, lost >>

(* called and born are history: who was called, and how many receivers had  *)
(* been attached when the call began.                                       *)
SendReq(k) ==
  /\ MayAct /\ sends < MaxSends
  /\ sends' = sends + 1
  /\ frames' = << [req |-> k, it |-> LowerBound(k), end |-> UpperBound(k),
                   inside |-> FALSE, called |-> {}, born |-> Len(key)] >> \o frames
  /\ UNCHANGED << map, key, lost >>

Erased(i) == i # End /\ i \notin map

Dangling(f) == f.inside /\ (Erased(f.it) \/ Erased(f.end))

Increment(f) == FirstOf({ i \in map : Precedes(f.it, i) })

Position(f) == IF f.inside THEN Increment(f) ELSE f.it

(* A receiver returns, and the loop goes on.  What it does with an iterator *)
(* that is no longer valid is undefined: the model ends there.              *)
Lose ==
  /\ ~lost /\ frames # << >> /\ Dangling(frames[1])
  /\ lost' = TRUE
  /\ UNCHANGED << map, key, frames, sends >>

Leave == frames' = Tail(frames)

Step ==
  /\ ~lost /\ frames # << >> /\ ~Dangling(frames[1])
  /\ LET f == frames[1]
         i == Position(f)
     IN  IF i = f.end \/ Type[key[i]] # Type[f.req]
           THEN Leave      \* returned, or AnyCast threw bad_cast
           ELSE frames' = [frames EXCEPT ![1] =
                  [f EXCEPT !.it = i, !.inside = TRUE, !.called = @ \cup {i}]]
  /\ UNCHANGED << map, key, sends, lost >>

(* A receiver throws: SendReq is left, and whoever called it catches or     *)
(* throws in turn.                                                          *)
Throw ==
  /\ MayAct /\ frames # << >>
  /\ Leave
  /\ UNCHANGED << map, key, sends, lost >>

Next ==
  \/ \E k \in Keys : Attach(k) \/ Remove(k) \/ SendReq(k)
  \/ Lose \/ Step \/ Throw

(* The thread goes on: a receiver that was called returns or throws. *)
Spec == Init /\ [][Next]_vars /\ WF_vars(Lose \/ Step)

-----------------------------------------------------------------------------
(* Properties. *)

(* Type invariant. *)
TypeOK ==
  /\ key \in Seq(Keys) /\ Len(key) <= MaxReceivers
  /\ map \subseteq 1..Len(key)
  /\ frames \in Seq([req : Keys, it : 0..Len(key), end : 0..Len(key),
        inside : BOOLEAN, called : SUBSET (1..Len(key)), born : 0..Len(key)])
  /\ sends \in 0..MaxSends /\ lost \in BOOLEAN

Of(k) == { i \in map : key[i] = k }

(* A SendReq that returns has called everybody who is attached to its key   *)
(* then, also those attached meanwhile, unless it had gone on to a stranger *)
(* before they came.                                                        *)
CallsAttached ==
  Step /\ Leave /\ Position(frames[1]) = frames[1].end =>
    LET f == frames[1] IN
    \A i \in Of(f.req) \ f.called :
      \E s \in f.called : key[s] # f.req /\ s < i

(* The end of the range is fixed when SendReq begins: a receiver attached   *)
(* by another to a key behind the message's, and before the range's end, is *)
(* visited too, and called if it has the type.  Nobody else is.             *)
StrangersInside ==
  Step /\ frames # << >> =>
    LET f == frames[1]
        i == Position(f)
    IN  i = f.end \/ key[i] = f.req \/ (key[i] > f.req /\ i > f.born)

=============================================================================
