------------------------------ MODULE Command ------------------------------
(***************************************************************************)
(* CommCommand<R> of include/command.hpp: Wrap keeps a closure on what it  *)
(* is given, by reference but for a pointer to a member, and Excecute      *)
(* calls it.  The client declares variables and the command in one scope   *)
(* after another, and passes variables and temporaries to Wrap.            *)
(***************************************************************************)
EXTENDS Naturals, Sequences

CONSTANTS
  Variables,   \* what the client declares, once each
  Cmd          \* the command

VARIABLES
  scope,       \* what has been declared and is alive, in that order
  fun,         \* fun_: whether it is set, and what it refers to
  statement,   \* the temporaries that were last wrapped are still alive
  ended,       \* what was declared and has ended
  stray        \* Excecute called a closure on what had ended

vars == << scope, fun, statement, ended, stray >>

Unset == [set |-> FALSE, refs |-> {}, temps |-> FALSE, inner |-> {}]

Init ==
  /\ scope = << >> /\ fun = Unset
  /\ statement = FALSE /\ ended = {} /\ stray = FALSE

Alive == { scope[i] : i \in 1..Len(scope) }

Declare(x) ==
  /\ ~statement /\ x \notin Alive \cup ended
  /\ scope' = Append(scope, x)
  /\ UNCHANGED << fun, statement, ended, stray >>

AfterEnd(x) == IF x = Cmd THEN Unset ELSE fun

EndScope ==
  /\ ~statement /\ scope # << >>
  /\ LET x == scope[Len(scope)] IN
       /\ scope' = SubSeq(scope, 1, Len(scope) - 1)
       /\ ended' = IF x = Cmd THEN ended ELSE ended \cup {x}
       /\ fun' = AfterEnd(x)
  /\ UNCHANGED << statement, stray >>

(* history: what comes after the command, and so goes before it. *)
Inner == { x \in Alive : \E i, j \in 1..Len(scope) : i < j /\ scope[i] = Cmd /\ scope[j] = x }

(* The closure keeps references to variables and temporaries alike. *)
Wrap(refs, temps) ==
  /\ Cmd \in Alive /\ refs \subseteq Alive \ {Cmd}
  /\ fun' = [set |-> TRUE, refs |-> refs, temps |-> temps, inner |-> refs \cap Inner]
  /\ statement' = TRUE
  /\ UNCHANGED << scope, ended, stray >>

(* The end of the full expression that called Wrap. *)
EndStatement ==
  /\ statement /\ statement' = FALSE
  /\ UNCHANGED << scope, fun, ended, stray >>

(* Slip: parameters of Wrap that it takes by value, as Lazy's constructor  *)
(* does, are captured by reference.                                         *)
OnParameters == fun.set

Dangling == (fun.temps /\ ~statement) \/ ~(fun.refs \subseteq Alive)

(* An empty fun_ throws. *)
Excecute ==
  /\ Cmd \in Alive /\ fun.set
  /\ stray' = (stray \/ Dangling)
  /\ UNCHANGED << scope, fun, statement, ended >>

Next ==
  \/ \E x \in Variables \cup {Cmd} : Declare(x)
  \/ \E refs \in SUBSET Variables, temps \in BOOLEAN : Wrap(refs, temps)
  \/ EndScope \/ EndStatement \/ Excecute

Spec == Init /\ [][Next]_vars

-----------------------------------------------------------------------------
(* Properties. *)

(* Type invariant.  The command's closure ends with it. *)
TypeOK ==
  /\ scope \in Seq(Variables \cup {Cmd}) /\ ended \subseteq Variables \ Alive
  /\ fun \in [set : BOOLEAN, refs : SUBSET Variables, temps : BOOLEAN, inner : SUBSET fun.refs]
  /\ Cmd \notin Alive => fun = Unset
  /\ statement \in BOOLEAN /\ stray \in BOOLEAN

(* A command may be executed at any time, in whatever scope it was wrapped, *)
(* if it was wrapped with variables declared before it: only a temporary,   *)
(* or a variable that goes before the command, leaves its closure astray.   *)
StraysOnlyInside ==
  [][ stray' # stray => fun.temps \/ fun.inner # {} ]_vars

(* The command is executed after it was wrapped, as test_command does.      *)
ExecutesWrapped == ~stray

=============================================================================
