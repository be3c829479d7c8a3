---------------------------- MODULE MCCallbacks ----------------------------
(* What one thread is called back by, for TLC: events, the message bus,     *)
(* commands, aspects and scope guards.  A behaviour is one of the component *)
(* that part names; the variables of the others stay as they are.           *)
EXTENDS Integers, Sequences, FiniteSets

CONSTANTS
  MaxKey, MaxNotifies,             \* bounds of events
  Type, MaxReceivers, MaxSends,    \* keys of the message bus, and its bounds
  Variables, Cmd,                  \* of the client of a command
  MaxAspects,                      \* bound of aspects
  Guards, Functions, Empty,        \* of scope guards
  Null

ASSUME CallbacksAssumption ==
  /\ MaxKey \in Nat /\ MaxNotifies \in Nat
  /\ DOMAIN Type \subseteq Nat /\ MaxReceivers \in Nat /\ MaxSends \in Nat
  /\ Cmd \notin Variables
  /\ MaxAspects \in Nat
  /\ Empty \notin Functions

VARIABLES
  part,
  frames, lost,                              \* the next two
  observer_id, connections, notifies,        \* Events
  map, key, sends,                           \* MessageBus
  scope, fun, statement, ended, stray,       \* Command
  n, has, rvalue, byvalue, at, whole, log,   \* Aspect
  guard, given, dismissed, runs              \* ScopeGuard

forEvents == << observer_id, connections, notifies >>
forBus == << map, key, sends >>
forLoops == << frames, lost, forEvents, forBus >>
forCommand == << scope, fun, statement, ended, stray >>
forAspect == << n, has, rvalue, byvalue, at, whole, log >>
forGuards == << guard, given, dismissed, runs >>
vars == << part, forLoops, forCommand, forAspect, forGuards >>

(* Two topics of one function type, and a key of another type behind them.  *)
TwoTopicsAndAnother == << "f", "f", "g" >>

Observers == INSTANCE Events
Bus == INSTANCE MessageBus
Wrapped == INSTANCE Command
Aspects == INSTANCE Aspect
Scopes == INSTANCE ScopeGuard

NoAspect == /\ n = Null /\ has = Null /\ rvalue = Null /\ byvalue = Null
            /\ at = Null /\ whole = Null /\ log = Null

Init ==
  /\ part \in {"Events", "MessageBus", "Command", "Aspect", "ScopeGuard"}
  /\ Observers!Init /\ Bus!Init /\ Wrapped!Init /\ Scopes!Init
  /\ IF part = "Aspect" THEN Aspects!Init ELSE NoAspect

InEvents(A) == /\ part = "Events" /\ A
               /\ UNCHANGED << part, forBus, forCommand, forAspect, forGuards >>
InBus(A) == /\ part = "MessageBus" /\ A
            /\ UNCHANGED << part, forEvents, forCommand, forAspect, forGuards >>

Next ==
  \/ InEvents(Observers!Next)
  \/ InBus(Bus!Next)
  \/ part = "Command" /\ Wrapped!Next /\ UNCHANGED << part, forLoops, forAspect, forGuards >>
  \/ part = "Aspect" /\ Aspects!Next /\ UNCHANGED << part, forLoops, forCommand, forGuards >>
  \/ part = "ScopeGuard" /\ Scopes!Next /\ UNCHANGED << part, forLoops, forCommand, forAspect >>

(* The thread goes on: an observer or receiver returns or throws.           *)
Spec == /\ Init /\ [][Next]_vars
        /\ WF_vars(InEvents(Observers!Step)) /\ WF_vars(InBus(Bus!Lose \/ Bus!Step))

-----------------------------------------------------------------------------
(* Properties: those of the components. *)

(* Type invariant.                                                          *)
TypeOK ==
  /\ part = "Events" => Observers!TypeOK
  /\ part = "MessageBus" => Bus!TypeOK
  /\ part = "Aspect" => Aspects!TypeOK
  /\ Wrapped!TypeOK /\ Scopes!TypeOK

(* A Notify or SendReq that returns has called everybody who is connected,  *)
(* or attached to the key, by then, whatever those whom it called did; keys *)
(* of observers are not reused, so nobody gets a notification from before;  *)
(* and strangers are called only if they came inside the range of a key     *)
(* that the call had fixed.  A call does not return when it is lost: an     *)
(* observer that disconnects itself, or a receiver that removes an element  *)
(* the loop stands on or ends at, leaves it with no defined way on.         *)
CallsEverybody ==
  /\ [][ part = "Events" => Observers!CallsConnected ]_vars
  /\ Observers!CalledInTurn
  /\ [][ part = "MessageBus" => Bus!CallsAttached ]_vars
  /\ [][ part = "MessageBus" => Bus!StrangersInside ]_vars

(* A function given to a guard is run once, dismissed, or still due in one  *)
(* guard, however guards are moved.  An Invoke that returns has called the  *)
(* function, and every Before and After, once and in the order of brackets; *)
(* the first that takes an rvalue by value leaves nothing to the others.    *)
CallsOnce ==
  /\ Scopes!RunsOnce
  /\ part = "Aspect" => Aspects!Bracketed /\ Aspects!FirstTakerLeavesNothing

(* A command may be executed at any time if it was wrapped with variables   *)
(* declared before it: only a temporary, or a variable that goes before the *)
(* command, leaves its closure astray.                                      *)
StraysOnlyInside == Wrapped!StraysOnlyInside

(* A Notify or SendReq ends when those that it calls do, also when they     *)
(* connect or attach others, of whom there is a bounded number; or it is    *)
(* lost, with an iterator to an element that was erased.                    *)
LoopsEnd == frames # << >> ~> frames = << >> \/ lost

=============================================================================
