---------------------------- MODULE StackProofs ----------------------------
(***************************************************************************)
(* Lemmas about the lock-free stacks of MCLockFree: what they have in      *)
(* common; the two whose nodes wait for their deletion on a list,          *)
(* HazardStack and ThreadCountStack; and the two whose nodes are counted,  *)
(* SharedptrStack and RefCountStack.  Each stack has an inductive          *)
(* invariant that is about a list c, the nodes that lead from head to the  *)
(* null pointer: there always is one, and what a step does to it is what   *)
(* the abstract stack does to its elements.                                *)
(***************************************************************************)
EXTENDS MCLockFree, DataProofs

USE LockFreeAssumption DEF LockFreeAssumption

-----------------------------------------------------------------------------
(* The list from head. *)

(* The links from h on, one for each step, as the models define them.       *)
PathFrom(h, nx, K) ==
  CHOOSE q : q = [k \in 0..K |-> IF k = 0 THEN h
                              ELSE IF q[k - 1] = Null THEN Null ELSE nx[q[k - 1]]]

(* They follow the links.                                                   *)
LEMMA PathUnfolds ==
  ASSUME NEW N, NEW nx \in [N -> N \cup {Null}], NEW h \in N \cup {Null}, NEW K \in Nat,
         NEW p, p = PathFrom(h, nx, K)
  PROVE  Follows(Null, h, nx, K, p)
<1> DEFINE D == N \cup {Null}
           st == [m \in D |-> IF m = Null THEN Null ELSE nx[m]]
           Is(q) == q = [k \in 0..K |-> IF k = 0 THEN h
                              ELSE IF q[k - 1] = Null THEN Null ELSE nx[q[k - 1]]]
<1>1. st \in [D -> D]
  OBVIOUS
<1>2. PICK q \in [0..K -> D] : q[0] = h /\ \A k \in 1..K : q[k] = st[q[k - 1]]
  <2>1. h \in D
    OBVIOUS
  <2> HIDE DEF D, st, Is
  <2>2. \E q : Repeats(D, st, h, K, q)
    BY <1>1, <2>1, Iterates
  <2> QED BY <2>2 DEF Repeats
<1>3. Is(q)
  <2>1. \A k \in 0..K : q[k] = IF k = 0 THEN h
                              ELSE IF q[k - 1] = Null THEN Null ELSE nx[q[k - 1]]
    <3> SUFFICES ASSUME NEW k \in 0..K, k # 0
                 PROVE  q[k] = IF q[k - 1] = Null THEN Null ELSE nx[q[k - 1]]
      BY <1>2
    <3>1. k \in 1..K /\ k - 1 \in 0..K
      OBVIOUS
    <3>2. q[k - 1] \in D /\ q[k] = st[q[k - 1]]
      BY <1>2, <3>1
    <3> QED BY <3>2
  <2> QED BY <1>2, <2>1
<1>4. p = CHOOSE r : Is(r)
  BY DEF PathFrom
<1>5. Is(p)
  <2> HIDE DEF Is
  <2> QED BY <1>3, <1>4
<1>6. p[0] = h
  <2>1. 0 \in 0..K
    OBVIOUS
  <2> QED BY <1>5, <2>1
<1>7. \A k \in 1..K : p[k] = IF p[k - 1] = Null THEN Null ELSE nx[p[k - 1]]
  <2> SUFFICES ASSUME NEW k \in 1..K
               PROVE  p[k] = IF p[k - 1] = Null THEN Null ELSE nx[p[k - 1]]
    OBVIOUS
  <2>1. k \in 0..K /\ k # 0
    OBVIOUS
  <2> QED BY <1>5, <2>1
<1> QED BY <1>6, <1>7 DEF Follows

(* Who passes the members of a list in as many steps as there are nodes     *)
(* passes them all.                                                         *)
Whole(c, p) ==
  /\ { p[k] : k \in 0..Cardinality(Nodes) } \ {Null} = Members(c)
  /\ Cardinality({ j \in 0..Cardinality(Nodes) : p[j] # Null }) = Len(c)
  /\ Cardinality(Members(c)) = Len(c)
  /\ Len(c) \in 0..Cardinality(Nodes)
  /\ \A k \in 1..Len(c) : p[k - 1] = c[k]

LEMMA WholeList ==
  ASSUME NEW h, NEW nx, NEW c, ListFrom(Nodes, Null, h, nx, c), NEW p,
         Passes(Null, c, Cardinality(Nodes), p)
  PROVE  Whole(c, p)
<1> DEFINE K == Cardinality(Nodes)
<1>1. c \in Seq(Nodes) /\ \A i, j \in 1..Len(c) : c[i] = c[j] => i = j
  BY DEF ListFrom
<1>2. /\ K \in Nat /\ Len(c) \in Nat /\ Len(c) <= K
      /\ Cardinality(Members(c)) = Len(c)
      /\ \A i \in 1..Len(c) : c[i] \in Nodes /\ c[i] # Null
  <2>1. K \in Nat
    BY FS_CardinalityType
  <2>2. Len(c) \in Nat /\ \A i \in 1..Len(c) : c[i] \in Nodes /\ c[i] # Null
    BY <1>1
  <2>3. Len(c) <= K
    BY <1>1, ListFits
  <2>4. Cardinality(Members(c)) = Len(c)
    BY <1>1, ListSize
  <2> QED BY <2>1, <2>2, <2>3, <2>4
<1> HIDE DEF K
<1>3. \A k \in 0..K : p[k] = IF k < Len(c) THEN c[k + 1] ELSE Null
  BY DEF K, Passes
<1>4. \A k \in 1..Len(c) : k - 1 \in 0..K /\ p[k - 1] = c[k]
  <2> SUFFICES ASSUME NEW k \in 1..Len(c) PROVE k - 1 \in 0..K /\ p[k - 1] = c[k]
    OBVIOUS
  <2>1. k - 1 \in 0..K /\ k - 1 < Len(c) /\ (k - 1) + 1 = k
    BY <1>2
  <2> QED BY <1>3, <2>1
<1>5. { p[k] : k \in 0..K } \ {Null} = Members(c)
  <2>1. ASSUME NEW k \in 0..K, p[k] # Null PROVE p[k] \in Members(c)
    <3>1. k + 1 \in 1..Len(c) /\ p[k] = c[k + 1]
      BY <1>2, <1>3, <2>1
    <3> QED BY <3>1 DEF Members
  <2>2. ASSUME NEW k \in 1..Len(c) PROVE c[k] \in { p[j] : j \in 0..K } \ {Null}
    BY <1>2, <1>4
  <2> QED BY <2>1, <2>2 DEF Members
<1>6. Cardinality({ j \in 0..K : p[j] # Null }) = Len(c)
  <2>1. { j \in 0..K : p[j] # Null } = 0..(Len(c) - 1)
    <3>1. ASSUME NEW j \in 0..K, p[j] # Null PROVE j \in 0..(Len(c) - 1)
      BY <1>2, <1>3, <3>1
    <3>2. ASSUME NEW j \in 0..(Len(c) - 1) PROVE j \in 0..K /\ p[j] # Null
      <4>1. j \in 0..K /\ j < Len(c) /\ j + 1 \in 1..Len(c)
        BY <1>2
      <4> QED BY <1>2, <1>3, <4>1
    <3> QED BY <3>1, <3>2
  <2>2. 0 \in Int /\ Len(c) - 1 \in Int
    BY <1>2
  <2>3. Cardinality(0..(Len(c) - 1)) = IF 0 > Len(c) - 1 THEN 0 ELSE Len(c) - 1 - 0 + 1
    BY <2>2, FS_Interval
  <2>4. Cardinality(0..(Len(c) - 1)) = Len(c)
    BY <1>2, <2>3
  <2> QED BY <2>1, <2>4
<1> QED BY <1>2, <1>4, <1>5, <1>6 DEF K, Whole

(* The nodes on the way from h are those of the list.                       *)
LEMMA ListWhole ==
  ASSUME NEW h \in Nodes \cup {Null}, NEW nx \in [Nodes -> Nodes \cup {Null}],
         NEW c, ListFrom(Nodes, Null, h, nx, c)
  PROVE  Whole(c, PathFrom(h, nx, Cardinality(Nodes)))
<1> DEFINE K == Cardinality(Nodes)
           p == PathFrom(h, nx, K)
<1>1. K \in Nat
  BY FS_CardinalityType
<1> HIDE DEF p, K
<1>2. Follows(Null, h, nx, K, p)
  BY <1>1, PathUnfolds DEF p
<1>3. Passes(Null, c, K, p)
  BY <1>1, <1>2, ListPath
<1> QED BY <1>3, WholeList DEF p, K

(* A list is the function of its places.                                    *)
LEMMA ListIsItself ==
  ASSUME NEW c \in Seq(Nodes), NEW p, \A k \in 1..Len(c) : p[k - 1] = c[k]
  PROVE  [k \in 1..Len(c) |-> p[k - 1]] = c
<1>1. c = [k \in 1..Len(c) |-> c[k]]
  OBVIOUS
<1> QED BY <1>1

-----------------------------------------------------------------------------
(* What the stacks promise. *)

Elements(f, nodes) == { f[n] : n \in nodes }

(* From the elements s, with o popped and e pops of nothing, to s2, o2 and  *)
(* e2: one operation of LifoStack, or none.                                 *)
LifoStep(s, o, e, s2, o2, e2) ==
  \/ s2 = s /\ o2 = o /\ e2 = e
  \/ \E x \in Values : /\ x \notin { s[i] : i \in 1..Len(s) } \cup o
                       /\ s2 = << x >> \o s /\ o2 = o /\ e2 = e
  \/ s # << >> /\ s2 = Tail(s) /\ o2 = o \cup {Head(s)} /\ e2 = e
  \/ s = << >> /\ e2 = e + 1 /\ s2 = s /\ o2 = o

(* Nodes with different elements, none of which has been returned.           *)
DataApart(held) ==
  /\ \A n \in held : data[n] \in Values \ out
  /\ \A n, m \in held : data[n] = data[m] => n = m

(* Nothing of the nodes in the stack and out of it changes.                 *)
LEMMA LifoKeeps ==
  ASSUME NEW c, NEW f, NEW g, NEW T, NEW o, NEW e,
         \A m \in Members(c) \cup T : g[m] = f[m]
  PROVE  LifoStep(Along(f, c), o \cup Elements(f, T), e, Along(g, c), o \cup Elements(g, T), e)
<1>1. Along(g, c) = Along(f, c)
  BY AlongSame
<1>2. Elements(g, T) = Elements(f, T)
  BY DEF Elements
<1> QED BY <1>1, <1>2 DEF LifoStep

(* The element of a popped node is taken out of it.                         *)
LEMMA LifoTakes ==
  ASSUME NEW c, NEW f, NEW g, NEW T, NEW n \in T, NEW o, NEW e,
         \A m \in Members(c) \cup (T \ {n}) : g[m] = f[m]
  PROVE  LifoStep(Along(f, c), o \cup Elements(f, T), e,
                  Along(g, c), (o \cup {f[n]}) \cup Elements(g, T \ {n}), e)
<1>1. Along(g, c) = Along(f, c)
  BY AlongSame
<1>2. o \cup Elements(f, T) = (o \cup {f[n]}) \cup Elements(g, T \ {n})
  BY DEF Elements
<1> QED BY <1>1, <1>2 DEF LifoStep

(* A node is linked.                                                        *)
LEMMA LifoPushes ==
  ASSUME NEW c \in Seq(Nodes), NEW f, NEW T, NEW n \in Nodes, f[n] \in Values, NEW o, NEW e,
         f[n] \notin o, \A m \in Members(c) \cup T : f[m] # f[n]
  PROVE  LifoStep(Along(f, c), o \cup Elements(f, T), e,
                  Along(f, << n >> \o c), o \cup Elements(f, T), e)
<1> DEFINE s == Along(f, c)
<1>1. Along(f, << n >> \o c) = << f[n] >> \o s
  BY AlongPush
<1>2. { s[i] : i \in 1..Len(s) } = { f[m] : m \in Members(c) }
  <2>1. Members(s) = { f[m] : m \in Members(c) }
    BY AlongMembers
  <2> QED BY <2>1 DEF Members
<1>3. f[n] \notin { f[m] : m \in Members(c) } \cup (o \cup Elements(f, T))
  BY DEF Elements
<1> HIDE DEF s
<1>4. LifoStep(s, o \cup Elements(f, T), e, << f[n] >> \o s, o \cup Elements(f, T), e)
  BY <1>2, <1>3 DEF LifoStep
<1> QED BY <1>1, <1>4 DEF s

(* The first node is taken out.                                             *)
LEMMA LifoPops ==
  ASSUME NEW c \in Seq(Nodes), c # << >>, NEW f, NEW T, NEW o, NEW e
  PROVE  LifoStep(Along(f, c), o \cup Elements(f, T), e,
                  Along(f, Tail(c)), o \cup Elements(f, T \cup {Head(c)}), e)
<1> DEFINE s == Along(f, c)
<1>1. s # << >> /\ Head(s) = f[Head(c)] /\ Along(f, Tail(c)) = Tail(s)
  BY AlongPop
<1>2. o \cup Elements(f, T \cup {Head(c)}) = (o \cup Elements(f, T)) \cup {f[Head(c)]}
  BY DEF Elements
<1> HIDE DEF s
<1>3. LifoStep(s, o \cup Elements(f, T), e, Tail(s), (o \cup Elements(f, T)) \cup {Head(s)}, e)
  BY <1>1 DEF LifoStep
<1> QED BY <1>1, <1>2, <1>3 DEF s

(* The first node and its element are taken out in one step.                *)
LEMMA LifoPopsAtOnce ==
  ASSUME NEW c \in Seq(Nodes), c # << >>, NEW f, NEW g, NEW o, NEW e,
         \A m \in Members(Tail(c)) : g[m] = f[m]
  PROVE  LifoStep(Along(f, c), o, e, Along(g, Tail(c)), o \cup {f[Head(c)]}, e)
<1> DEFINE s == Along(f, c)
<1>1. s # << >> /\ Head(s) = f[Head(c)] /\ Along(f, Tail(c)) = Tail(s)
  BY AlongPop
<1>2. Along(g, Tail(c)) = Tail(s)
  BY <1>1, AlongSame
<1> HIDE DEF s
<1>3. LifoStep(s, o, e, Tail(s), o \cup {Head(s)}, e)
  BY <1>1 DEF LifoStep
<1> QED BY <1>1, <1>2, <1>3 DEF s

(* There is no node.                                                        *)
LEMMA LifoPopsNothing ==
  ASSUME NEW f, NEW o, NEW e
  PROVE  LifoStep(Along(f, << >>), o, e, Along(f, << >>), o, e + 1)
BY AlongEmpty DEF LifoStep

-----------------------------------------------------------------------------
(* LockFreeStackUseHarzardPointer. *)

HazardLocals ==
  [ pc : Hazard!Places, slot : 0..MaxHazards, i : Hazard!Slots, old : Nodes \cup {Null},
    current : Nodes \cup {Null}, mine : SUBSET Nodes ]

(* The type invariant, but for the bound of empties.                        *)
HazardTypes ==
  /\ head \in Nodes \cup {Null}
  /\ next \in [Nodes -> Nodes \cup {Null}]
  /\ data \in [Nodes -> Values \cup {Null}]
  /\ alive \subseteq Nodes /\ nodes_to_reclaim \subseteq Nodes
  /\ id \in [Hazard!Slots -> Threads \cup {Null}]
  /\ pointer \in [Hazard!Slots -> Nodes \cup {Null}]
  /\ self \in [Threads -> HazardLocals]
  /\ pops \in 0..MaxPops /\ exits \in 0..MaxExits /\ empties \in Nat
  /\ out \subseteq Values

(* The state of the pops of LockFreeStackUseHarzardPointer: where a thread  *)
(* is determines what its variables hold.                                   *)
HazardThread(t) ==
  /\ self[t].pc \in {"push", "swing", "sweep"} => self[t].old \in Nodes
  /\ self[t].pc \in {"idle", "claim", "load", "exit", "next"} => self[t].old = Null
  /\ self[t].pc \in {"scan", "keep"} => self[t].current \in Nodes
  /\ self[t].pc \notin {"claim", "scan"} => self[t].i = 1
  /\ self[t].mine # {} => self[t].pc \in {"scan", "keep", "next"} /\ self[t].old = Null

HazardThreads == \A t \in Threads : HazardThread(t)

(* A slot has one owner, and announces something only during a pop.         *)
HazardSlot(t) ==
  /\ self[t].slot # 0 => id[self[t].slot] = t
  /\ self[t].pc = "claim" => self[t].slot = 0
  /\ self[t].pc \notin {"idle", "push", "claim"} => self[t].slot # 0
  /\ self[t].slot # 0 =>
       /\ self[t].pc \in {"idle", "push", "exit", "scan", "keep", "sweep", "next"}
            => pointer[self[t].slot] = Null
       /\ self[t].pc \in {"reread", "swing"} => pointer[self[t].slot] = self[t].old

HazardSlots ==
  /\ \A s \in Hazard!Slots : id[s] = Null => pointer[s] = Null
  /\ \A t \in Threads : HazardSlot(t)

(* Every node allocated is in the list c from head, on nodes_to_reclaim, or *)
(* with one thread.                                                         *)
HazardNodes(c) ==
  /\ ListFrom(Nodes, Null, head, next, c)
  /\ Members(c) \cup nodes_to_reclaim \subseteq alive
  /\ Members(c) \cap nodes_to_reclaim = {}
  /\ \A t \in Threads :
       /\ Hazard!Owned(t) \subseteq alive \ (Members(c) \cup nodes_to_reclaim)
       /\ self[t].pc \in {"scan", "keep"} => self[t].current \notin self[t].mine
       /\ \A u \in Threads \ {t} : Hazard!Owned(t) \cap Hazard!Owned(u) = {}
  /\ \A n \in alive : \/ n \in Members(c) \cup nodes_to_reclaim
                      \/ \E t \in Threads : n \in Hazard!Owned(t)

(* A thread that looks through the slots for a node has yet to come to that *)
(* of a thread that has confirmed its announcement of the node.             *)
HazardGuard ==
  \A u \in Threads : self[u].pc = "swing" =>
    /\ self[u].old \in alive
    /\ \A t \in Threads : self[t].pc = "scan" /\ self[t].current = self[u].old
         => self[t].i <= self[u].slot

(* The nodes whose element is still to be returned.                         *)
HazardHolds(t) == IF self[t].pc \in {"push", "clear"} THEN {self[t].old} \ {Null} ELSE {}

HazardHeld(c) == Members(c) \cup UNION { HazardHolds(t) : t \in Threads }

(* The pops that may still find the stack empty.                            *)
HazardLooking == { t \in Threads : self[t].pc \in {"claim", "load", "protect", "reread", "swing"} }

(* The step of thread t gives its variables these values and leaves those   *)
(* of the other threads alone.                                              *)
Becomes(t, p, s, j, o, w, m) ==
  /\ self' \in [Threads -> HazardLocals]
  /\ /\ self'[t].pc = p /\ self'[t].slot = s /\ self'[t].i = j
     /\ self'[t].old = o /\ self'[t].current = w /\ self'[t].mine = m
  /\ \A u \in Threads \ {t} : self'[u] = self[u]

(* The variables of one thread change, one for each place of a step.        *)
LEMMA SelfMoves ==
  ASSUME self \in [Threads -> HazardLocals], NEW t \in Threads, NEW q \in HazardLocals,
         self' = [self EXCEPT ![t] = q]
  PROVE  Becomes(t, q.pc, q.slot, q.i, q.old, q.current, q.mine)
BY DEF Becomes

(* The ways to write it that the actions have.                              *)
LEMMA SelfPcOld ==
  ASSUME self \in [Threads -> HazardLocals], NEW t \in Threads,
         NEW p \in Hazard!Places, NEW o \in Nodes \cup {Null},
         self' = [self EXCEPT ![t].pc = p, ![t].old = o]
  PROVE  Becomes(t, p, self[t].slot, self[t].i, o, self[t].current, self[t].mine)
<1> DEFINE q == [self[t] EXCEPT !.pc = p, !.old = o]
<1>1. self' = [self EXCEPT ![t] = q]
  OBVIOUS
<1>2. self[t] \in HazardLocals
  OBVIOUS
<1>3. /\ q \in HazardLocals
      /\ q.pc = p /\ q.slot = self[t].slot /\ q.i = self[t].i
      /\ q.old = o /\ q.current = self[t].current /\ q.mine = self[t].mine
  BY <1>2 DEF HazardLocals
<1> HIDE DEF q
<1>4. Becomes(t, q.pc, q.slot, q.i, q.old, q.current, q.mine)
  BY <1>1, <1>3, SelfMoves
<1> QED BY <1>3, <1>4

LEMMA SelfPc ==
  ASSUME self \in [Threads -> HazardLocals], NEW t \in Threads,
         NEW p \in Hazard!Places,
         self' = [self EXCEPT ![t].pc = p]
  PROVE  Becomes(t, p, self[t].slot, self[t].i, self[t].old, self[t].current, self[t].mine)
<1> DEFINE q == [self[t] EXCEPT !.pc = p]
<1>1. self' = [self EXCEPT ![t] = q]
  OBVIOUS
<1>2. self[t] \in HazardLocals
  OBVIOUS
<1>3. /\ q \in HazardLocals
      /\ q.pc = p /\ q.slot = self[t].slot /\ q.i = self[t].i
      /\ q.old = self[t].old /\ q.current = self[t].current /\ q.mine = self[t].mine
  BY <1>2 DEF HazardLocals
<1> HIDE DEF q
<1>4. Becomes(t, q.pc, q.slot, q.i, q.old, q.current, q.mine)
  BY <1>1, <1>3, SelfMoves
<1> QED BY <1>3, <1>4

LEMMA SelfI ==
  ASSUME self \in [Threads -> HazardLocals], NEW t \in Threads,
         NEW j \in Hazard!Slots,
         self' = [self EXCEPT ![t].i = j]
  PROVE  Becomes(t, self[t].pc, self[t].slot, j, self[t].old, self[t].current, self[t].mine)
<1> DEFINE q == [self[t] EXCEPT !.i = j]
<1>1. self' = [self EXCEPT ![t] = q]
  OBVIOUS
<1>2. self[t] \in HazardLocals
  OBVIOUS
<1>3. /\ q \in HazardLocals
      /\ q.pc = self[t].pc /\ q.slot = self[t].slot /\ q.i = j
      /\ q.old = self[t].old /\ q.current = self[t].current /\ q.mine = self[t].mine
  BY <1>2 DEF HazardLocals
<1> HIDE DEF q
<1>4. Becomes(t, q.pc, q.slot, q.i, q.old, q.current, q.mine)
  BY <1>1, <1>3, SelfMoves
<1> QED BY <1>3, <1>4

LEMMA SelfPcI ==
  ASSUME self \in [Threads -> HazardLocals], NEW t \in Threads,
         NEW p \in Hazard!Places, NEW j \in Hazard!Slots,
         self' = [self EXCEPT ![t].pc = p, ![t].i = j]
  PROVE  Becomes(t, p, self[t].slot, j, self[t].old, self[t].current, self[t].mine)
<1> DEFINE q == [self[t] EXCEPT !.pc = p, !.i = j]
<1>1. self' = [self EXCEPT ![t] = q]
  OBVIOUS
<1>2. self[t] \in HazardLocals
  OBVIOUS
<1>3. /\ q \in HazardLocals
      /\ q.pc = p /\ q.slot = self[t].slot /\ q.i = j
      /\ q.old = self[t].old /\ q.current = self[t].current /\ q.mine = self[t].mine
  BY <1>2 DEF HazardLocals
<1> HIDE DEF q
<1>4. Becomes(t, q.pc, q.slot, q.i, q.old, q.current, q.mine)
  BY <1>1, <1>3, SelfMoves
<1> QED BY <1>3, <1>4

LEMMA SelfPcSlot ==
  ASSUME self \in [Threads -> HazardLocals], NEW t \in Threads,
         NEW p \in Hazard!Places, NEW s \in 0..MaxHazards,
         self' = [self EXCEPT ![t].pc = p, ![t].slot = s]
  PROVE  Becomes(t, p, s, self[t].i, self[t].old, self[t].current, self[t].mine)
<1> DEFINE q == [self[t] EXCEPT !.pc = p, !.slot = s]
<1>1. self' = [self EXCEPT ![t] = q]
  OBVIOUS
<1>2. self[t] \in HazardLocals
  OBVIOUS
<1>3. /\ q \in HazardLocals
      /\ q.pc = p /\ q.slot = s /\ q.i = self[t].i
      /\ q.old = self[t].old /\ q.current = self[t].current /\ q.mine = self[t].mine
  BY <1>2 DEF HazardLocals
<1> HIDE DEF q
<1>4. Becomes(t, q.pc, q.slot, q.i, q.old, q.current, q.mine)
  BY <1>1, <1>3, SelfMoves
<1> QED BY <1>3, <1>4

LEMMA SelfPcSlotI ==
  ASSUME self \in [Threads -> HazardLocals], NEW t \in Threads,
         NEW p \in Hazard!Places, NEW s \in 0..MaxHazards, NEW j \in Hazard!Slots,
         self' = [self EXCEPT ![t].pc = p, ![t].slot = s, ![t].i = j]
  PROVE  Becomes(t, p, s, j, self[t].old, self[t].current, self[t].mine)
<1> DEFINE q == [self[t] EXCEPT !.pc = p, !.slot = s, !.i = j]
<1>1. self' = [self EXCEPT ![t] = q]
  OBVIOUS
<1>2. self[t] \in HazardLocals
  OBVIOUS
<1>3. /\ q \in HazardLocals
      /\ q.pc = p /\ q.slot = s /\ q.i = j
      /\ q.old = self[t].old /\ q.current = self[t].current /\ q.mine = self[t].mine
  BY <1>2 DEF HazardLocals
<1> HIDE DEF q
<1>4. Becomes(t, q.pc, q.slot, q.i, q.old, q.current, q.mine)
  BY <1>1, <1>3, SelfMoves
<1> QED BY <1>3, <1>4

LEMMA SelfPcCurrent ==
  ASSUME self \in [Threads -> HazardLocals], NEW t \in Threads,
         NEW p \in Hazard!Places, NEW w \in Nodes \cup {Null},
         self' = [self EXCEPT ![t].pc = p, ![t].current = w]
  PROVE  Becomes(t, p, self[t].slot, self[t].i, self[t].old, w, self[t].mine)
<1> DEFINE q == [self[t] EXCEPT !.pc = p, !.current = w]
<1>1. self' = [self EXCEPT ![t] = q]
  OBVIOUS
<1>2. self[t] \in HazardLocals
  OBVIOUS
<1>3. /\ q \in HazardLocals
      /\ q.pc = p /\ q.slot = self[t].slot /\ q.i = self[t].i
      /\ q.old = self[t].old /\ q.current = w /\ q.mine = self[t].mine
  BY <1>2 DEF HazardLocals
<1> HIDE DEF q
<1>4. Becomes(t, q.pc, q.slot, q.i, q.old, q.current, q.mine)
  BY <1>1, <1>3, SelfMoves
<1> QED BY <1>3, <1>4

LEMMA SelfPcCurrentI ==
  ASSUME self \in [Threads -> HazardLocals], NEW t \in Threads,
         NEW p \in Hazard!Places, NEW w \in Nodes \cup {Null}, NEW j \in Hazard!Slots,
         self' = [self EXCEPT ![t].pc = p, ![t].current = w, ![t].i = j]
  PROVE  Becomes(t, p, self[t].slot, j, self[t].old, w, self[t].mine)
<1> DEFINE q == [self[t] EXCEPT !.pc = p, !.current = w, !.i = j]
<1>1. self' = [self EXCEPT ![t] = q]
  OBVIOUS
<1>2. self[t] \in HazardLocals
  OBVIOUS
<1>3. /\ q \in HazardLocals
      /\ q.pc = p /\ q.slot = self[t].slot /\ q.i = j
      /\ q.old = self[t].old /\ q.current = w /\ q.mine = self[t].mine
  BY <1>2 DEF HazardLocals
<1> HIDE DEF q
<1>4. Becomes(t, q.pc, q.slot, q.i, q.old, q.current, q.mine)
  BY <1>1, <1>3, SelfMoves
<1> QED BY <1>3, <1>4

LEMMA SelfPcOldMine ==
  ASSUME self \in [Threads -> HazardLocals], NEW t \in Threads,
         NEW p \in Hazard!Places, NEW o \in Nodes \cup {Null}, NEW m \in SUBSET Nodes,
         self' = [self EXCEPT ![t].pc = p, ![t].old = o, ![t].mine = m]
  PROVE  Becomes(t, p, self[t].slot, self[t].i, o, self[t].current, m)
<1> DEFINE q == [self[t] EXCEPT !.pc = p, !.old = o, !.mine = m]
<1>1. self' = [self EXCEPT ![t] = q]
  OBVIOUS
<1>2. self[t] \in HazardLocals
  OBVIOUS
<1>3. /\ q \in HazardLocals
      /\ q.pc = p /\ q.slot = self[t].slot /\ q.i = self[t].i
      /\ q.old = o /\ q.current = self[t].current /\ q.mine = m
  BY <1>2 DEF HazardLocals
<1> HIDE DEF q
<1>4. Becomes(t, q.pc, q.slot, q.i, q.old, q.current, q.mine)
  BY <1>1, <1>3, SelfMoves
<1> QED BY <1>3, <1>4

LEMMA SelfPcCurrentMine ==
  ASSUME self \in [Threads -> HazardLocals], NEW t \in Threads,
         NEW p \in Hazard!Places, NEW w \in Nodes \cup {Null}, NEW m \in SUBSET Nodes,
         self' = [self EXCEPT ![t].pc = p, ![t].current = w, ![t].mine = m]
  PROVE  Becomes(t, p, self[t].slot, self[t].i, self[t].old, w, m)
<1> DEFINE q == [self[t] EXCEPT !.pc = p, !.current = w, !.mine = m]
<1>1. self' = [self EXCEPT ![t] = q]
  OBVIOUS
<1>2. self[t] \in HazardLocals
  OBVIOUS
<1>3. /\ q \in HazardLocals
      /\ q.pc = p /\ q.slot = self[t].slot /\ q.i = self[t].i
      /\ q.old = self[t].old /\ q.current = w /\ q.mine = m
  BY <1>2 DEF HazardLocals
<1> HIDE DEF q
<1>4. Becomes(t, q.pc, q.slot, q.i, q.old, q.current, q.mine)
  BY <1>1, <1>3, SelfMoves
<1> QED BY <1>3, <1>4


HazardInv(c) ==
  /\ HazardTypes /\ HazardThreads /\ HazardSlots
  /\ HazardNodes(c) /\ HazardGuard /\ DataApart(HazardHeld(c))
  /\ empties + Cardinality(HazardLooking) <= pops


(* A step that moves no node keeps all lists and owners.                    *)
LEMMA HazardStay ==
  ASSUME NEW c, HazardNodes(c), DataApart(HazardHeld(c)),
         head' = head, next' = next, data' = data, alive' = alive,
         nodes_to_reclaim' = nodes_to_reclaim, out' = out,
         \A u \in Threads : /\ Hazard!Owned(u)' = Hazard!Owned(u) /\ HazardHolds(u)' = HazardHolds(u)
                            /\ (self[u].pc \in {"scan", "keep"} => self[u].current \notin self[u].mine)'
  PROVE  HazardNodes(c)' /\ DataApart(HazardHeld(c))'
<1>1. HazardNodes(c)'
  BY DEF HazardNodes
<1>2. HazardHeld(c)' = HazardHeld(c)
  BY DEF HazardHeld
<1>3. DataApart(HazardHeld(c))'
  BY <1>2 DEF DataApart
<1> QED BY <1>1, <1>3

(* What holds an element is allocated.                                      *)
LEMMA HazardHeldAlive ==
  ASSUME NEW c, HazardNodes(c)
  PROVE  /\ HazardHeld(c) \subseteq alive
         /\ \A u \in Threads : HazardHolds(u) \subseteq Hazard!Owned(u)
<1>1. \A u \in Threads : HazardHolds(u) \subseteq Hazard!Owned(u)
  BY DEF HazardHolds, Hazard!Owned
<1> QED BY <1>1 DEF HazardHeld, HazardNodes


(* The types of the variables of one thread.                                *)
LEMMA HazardLocalTypes ==
  ASSUME HazardTypes, NEW t \in Threads
  PROVE  /\ self[t] \in HazardLocals /\ self \in [Threads -> HazardLocals]
         /\ self[t].pc \in Hazard!Places /\ self[t].slot \in 0..MaxHazards
         /\ self[t].i \in 1..MaxHazards /\ self[t].old \in Nodes \cup {Null}
         /\ self[t].current \in Nodes \cup {Null} /\ self[t].mine \in SUBSET Nodes
<1>1. self \in [Threads -> HazardLocals]
  BY DEF HazardTypes
<1>2. self[t] \in HazardLocals
  BY <1>1
<1> QED BY <1>1, <1>2 DEF HazardLocals, Hazard!Slots

(* A step that writes at most the slot of its own thread.                   *)
LEMMA HazardOwnSlot ==
  ASSUME HazardTypes, HazardSlots, NEW t \in Threads,
         \A u \in Threads \ {t} : self'[u] = self[u],
         id' = id, \A s \in Hazard!Slots : s # self[t].slot => pointer'[s] = pointer[s],
         HazardSlot(t)'
  PROVE  HazardSlots'
<1>1. ASSUME NEW s \in Hazard!Slots, id[s] = Null PROVE pointer'[s] = Null
  <2>1. s # self[t].slot
    BY <1>1 DEF HazardSlots, HazardSlot, Hazard!Slots
  <2> QED BY <1>1, <2>1 DEF HazardSlots
<1>2. ASSUME NEW u \in Threads, u # t PROVE HazardSlot(u)'
  <2>1. HazardSlot(u) /\ HazardSlot(t) /\ self[u].slot \in 0..MaxHazards
    BY HazardLocalTypes DEF HazardSlots
  <2>2. self[u].slot # 0 => pointer'[self[u].slot] = pointer[self[u].slot]
    BY <1>2, <2>1 DEF HazardSlot, Hazard!Slots
  <2> QED BY <1>2, <2>1, <2>2 DEF HazardSlot
<1> QED BY <1>1, <1>2 DEF HazardSlots

(* A step that neither confirms an announcement nor looks for one.          *)
LEMMA HazardElsewhere ==
  ASSUME HazardGuard, NEW t \in Threads,
         \A u \in Threads \ {t} : self'[u] = self[u],
         self'[t].pc \notin {"swing", "scan"}, alive \subseteq alive'
  PROVE  HazardGuard'
BY DEF HazardGuard

(* The nodes taken out whose element is still to be taken.                  *)
HazardTakes(t) == IF self[t].pc = "clear" THEN {self[t].old} \ {Null} ELSE {}

HazardTaken == UNION { HazardTakes(t) : t \in Threads }

(* What a step from the list c to the list d does for the callers.          *)
HazardLifo(c, d) ==
  LifoStep(Along(data, c), out \cup Elements(data, HazardTaken), empties,
           Along(data', d), out' \cup Elements(data', HazardTaken'), empties')

(* Nothing, if it changes no element and takes none.                        *)
LEMMA HazardQuiet ==
  ASSUME NEW c, NEW t \in Threads, \A u \in Threads \ {t} : self'[u] = self[u],
         HazardTakes(t)' = HazardTakes(t), data' = data, out' = out, empties' = empties
  PROVE  HazardLifo(c, c)
<1>1. \A u \in Threads : HazardTakes(u)' = HazardTakes(u)
  BY DEF HazardTakes
<1>2. HazardTaken' = HazardTaken
  BY <1>1 DEF HazardTaken
<1>3. LifoStep(Along(data, c), out \cup Elements(data, HazardTaken), empties,
               Along(data, c), out \cup Elements(data, HazardTaken), empties)
  BY DEF LifoStep
<1> QED BY <1>2, <1>3 DEF HazardLifo

(* What is to be taken is held.                                             *)
LEMMA HazardTakesHeld ==
  ASSUME NEW c
  PROVE  /\ \A t \in Threads : HazardTakes(t) \subseteq HazardHolds(t)
         /\ HazardTaken \cup Members(c) \subseteq HazardHeld(c)
<1>1. \A t \in Threads : HazardTakes(t) \subseteq HazardHolds(t)
  BY DEF HazardTakes, HazardHolds
<1> QED BY <1>1 DEF HazardTaken, HazardHeld

(* A push allocates its node.                                               *)
LEMMA HazardPush ==
  ASSUME NEW c, HazardInv(c), NEW t \in Threads, NEW x \in Values, NEW n \in Nodes, Hazard!Push(t, x, n)
  PROVE  HazardInv(c)' /\ HazardLifo(c, c)
<1>1. /\ HazardTypes /\ HazardThreads /\ HazardSlots /\ HazardNodes(c) /\ HazardGuard
      /\ DataApart(HazardHeld(c)) /\ empties + Cardinality(HazardLooking) <= pops
  BY DEF HazardInv
<1>2. /\ self[t].pc = "idle" /\ x \in Hazard!Fresh /\ n \in Nodes \ alive /\ head' = head
      /\ next' = [next EXCEPT ![n] = head] /\ data' = [data EXCEPT ![n] = x]
      /\ alive' = alive \cup {n} /\ id' = id /\ pointer' = pointer
      /\ nodes_to_reclaim' = nodes_to_reclaim /\ pops' = pops /\ exits' = exits
      /\ out' = out /\ empties' = empties
  BY DEF Hazard!Push,
    Hazard!heap, Hazard!hazards, Hazard!calls, Hazard!results
<1>3. Becomes(t, "push", self[t].slot, self[t].i, n, self[t].current, self[t].mine)
  <2>1. self \in [Threads -> HazardLocals] /\ self[t] \in HazardLocals
    BY <1>1, HazardLocalTypes
  <2>2. "push" \in Hazard!Places /\ n \in Nodes \cup {Null}
    BY <1>1, <1>2, HazardLocalTypes DEF HazardTypes, HazardThreads, HazardThread, Hazard!Places, Hazard!Slots
  <2>3. self' = [self EXCEPT ![t].pc = "push", ![t].old = n]
    BY DEF Hazard!Push
  <2> QED BY <2>1, <2>2, <2>3, SelfPcOld
<1>4. /\ HazardThread(t) /\ HazardSlot(t)
      /\ self[t].slot \in 0..MaxHazards /\ self[t].i \in 1..MaxHazards
      /\ self[t].old \in Nodes \cup {Null} /\ self[t].mine \in SUBSET Nodes
  BY <1>1, HazardLocalTypes DEF HazardThreads, HazardSlots
<1>5. HazardTypes'
  BY <1>1, <1>2, <1>3, <1>4 DEF HazardTypes, HazardThread, HazardSlot, Becomes, Hazard!Slots
<1>6. HazardThreads' /\ HazardSlots'
  <2>1. HazardThread(t)'
    BY <1>1, <1>2, <1>3, <1>4 DEF HazardThread, HazardTypes, Becomes, Hazard!Confirmed
  <2>2. HazardThreads'
    BY <1>1, <1>3, <2>1 DEF HazardThreads, HazardThread, Becomes
  <2>3. HazardSlot(t)'
    BY <1>1, <1>2, <1>3, <1>4 DEF HazardSlot, HazardThread, HazardTypes, Becomes, Hazard!Slots, Hazard!HasHazardPointer, Hazard!Confirmed
  <2>4. \A s \in Hazard!Slots : s # self[t].slot => pointer'[s] = pointer[s]
    BY <1>1, <1>2 DEF HazardTypes
  <2>5. HazardSlots'
    BY <1>1, <1>2, <1>3, <2>3, <2>4, HazardOwnSlot DEF Becomes
  <2> QED BY <2>2, <2>5
<1>7. HazardNodes(c)' /\ DataApart(HazardHeld(c))'
  <2>1. \A u \in Threads : Hazard!Owned(u)' = IF u = t THEN {n} ELSE Hazard!Owned(u)
    BY <1>1, <1>2, <1>3, <1>4 DEF HazardThread, Becomes, Hazard!Owned
  <2>2. \A u \in Threads : HazardHolds(u)' = IF u = t THEN {n} ELSE HazardHolds(u)
    BY <1>1, <1>2, <1>3, <1>4 DEF HazardThread, Becomes, HazardHolds
  <2>3. n \notin Members(c) /\ \A u \in Threads : n \notin Hazard!Owned(u)
    BY <1>1, <1>2 DEF HazardNodes
  <2>4. ListFrom(Nodes, Null, head', next', c)
    <3>1. \A m \in Members(c) : next'[m] = next[m]
      BY <1>1, <1>2, <2>3 DEF HazardTypes, HazardNodes
    <3>2. ListFrom(Nodes, Null, head, next', c)
      BY <1>1, <3>1, ListStays DEF HazardNodes
    <3> QED BY <1>2, <3>2
  <2>5. HazardNodes(c)'
    <3>1. ASSUME NEW u \in Threads
          PROVE  /\ (Hazard!Owned(u) \subseteq alive \ (Members(c) \cup nodes_to_reclaim))'
                 /\ (self[u].pc \in {"scan", "keep"} => self[u].current \notin self[u].mine)'
      BY <1>1, <1>2, <1>3, <2>1, <2>3 DEF HazardNodes, Becomes
    <3>2. ASSUME NEW u \in Threads, NEW v \in Threads \ {u}
          PROVE  (Hazard!Owned(u) \cap Hazard!Owned(v) = {})'
      BY <1>1, <2>1, <2>3 DEF HazardNodes
    <3>3. \A m \in alive' : \/ m \in Members(c) \cup nodes_to_reclaim'
                            \/ \E u \in Threads : m \in Hazard!Owned(u)'
      <4>1. n \in Hazard!Owned(t)' /\ \A u \in Threads : Hazard!Owned(u) = {} \/ u # t \/ Hazard!Owned(u) = {n}
        BY <1>2, <1>4, <2>1 DEF HazardThread, Hazard!Owned
      <4>2. ASSUME NEW m \in alive, NEW u \in Threads, m \in Hazard!Owned(u) PROVE m \in Hazard!Owned(u)'
        BY <2>1, <4>1, <4>2
      <4> QED BY <1>1, <1>2, <4>1, <4>2 DEF HazardNodes
    <3>4. /\ Members(c) \cup nodes_to_reclaim' \subseteq alive'
          /\ Members(c) \cap nodes_to_reclaim' = {}
      BY <1>1, <1>2 DEF HazardNodes
    <3> QED BY <2>4, <3>1, <3>2, <3>3, <3>4 DEF HazardNodes
  <2>6. HazardHeld(c)' = HazardHeld(c) \cup {n}
    BY <1>1, <1>2, <2>2 DEF HazardHeld, HazardHolds
  <2>7. HazardHeld(c) \subseteq alive /\ alive \subseteq Nodes
    BY <1>1, HazardHeldAlive DEF HazardTypes
  <2>8. x \in Values \ out /\ \A m \in alive : data[m] # x
    BY <1>2 DEF Hazard!Fresh
  <2>9. data'[n] = x /\ \A m \in HazardHeld(c) : m # n /\ data'[m] = data[m]
    BY <1>1, <1>2, <2>7 DEF HazardTypes
  <2>10. DataApart(HazardHeld(c))'
    BY <1>1, <1>2, <2>6, <2>7, <2>8, <2>9 DEF DataApart
  <2> QED BY <2>5, <2>10
<1>8. HazardGuard'
  <2>1. self'[t].pc \notin {"swing", "scan"} /\ alive \subseteq alive'
    BY <1>2, <1>3 DEF Becomes
  <2> QED BY <1>1, <1>3, <2>1, HazardElsewhere DEF Becomes
<1>9. (empties + Cardinality(HazardLooking) <= pops)'
  <2>1. HazardLooking' = HazardLooking
    BY <1>2, <1>3 DEF HazardLooking, Becomes, Hazard!HasHazardPointer, Hazard!Confirmed
  <2> QED BY <1>1, <1>2, <2>1
<1>10. HazardLifo(c, c)
  <2>1. HazardHeld(c) \subseteq alive
    BY <1>1, HazardHeldAlive
  <2>2. \A m \in Members(c) \cup HazardTaken : data'[m] = data[m]
    BY <1>1, <1>2, <2>1, HazardTakesHeld DEF HazardTypes
  <2>3. \A u \in Threads : HazardTakes(u)' = HazardTakes(u)
    BY <1>2, <1>3 DEF HazardTakes, Becomes
  <2>4. HazardTaken' = HazardTaken
    BY <2>3 DEF HazardTaken
  <2> QED BY <1>2, <2>2, <2>4, LifoKeeps DEF HazardLifo
<1> QED BY <1>5, <1>6, <1>7, <1>8, <1>9, <1>10 DEF HazardInv

(* A push links its node.                                                   *)
LEMMA HazardPushLink ==
  ASSUME NEW c, HazardInv(c), NEW t \in Threads, Hazard!PushLink(t),
         NEW d, d = << self[t].old >> \o c
  PROVE  HazardInv(d)' /\ HazardLifo(c, d)
<1>1. /\ HazardTypes /\ HazardThreads /\ HazardSlots /\ HazardNodes(c) /\ HazardGuard
      /\ DataApart(HazardHeld(c)) /\ empties + Cardinality(HazardLooking) <= pops
  BY DEF HazardInv
<1>2. /\ self[t].pc = "push" /\ head = next[self[t].old] /\ head' = self[t].old
      /\ next' = next /\ data' = data /\ alive' = alive /\ id' = id /\ pointer' = pointer
      /\ nodes_to_reclaim' = nodes_to_reclaim /\ pops' = pops /\ exits' = exits
      /\ out' = out /\ empties' = empties
  BY DEF Hazard!PushLink, Hazard!PushExpected,
    Hazard!heap, Hazard!hazards, Hazard!calls, Hazard!results
<1>3. Becomes(t, "idle", self[t].slot, self[t].i, Null, self[t].current, self[t].mine)
  <2>1. self \in [Threads -> HazardLocals] /\ self[t] \in HazardLocals
    BY <1>1, HazardLocalTypes
  <2>2. "idle" \in Hazard!Places /\ Null \in Nodes \cup {Null}
    BY <1>1, <1>2, HazardLocalTypes DEF HazardTypes, HazardThreads, HazardThread, Hazard!Places, Hazard!Slots
  <2>3. self' = [self EXCEPT ![t].pc = "idle", ![t].old = Null]
    BY DEF Hazard!PushLink
  <2> QED BY <2>1, <2>2, <2>3, SelfPcOld
<1>4. /\ HazardThread(t) /\ HazardSlot(t)
      /\ self[t].slot \in 0..MaxHazards /\ self[t].i \in 1..MaxHazards
      /\ self[t].old \in Nodes \cup {Null} /\ self[t].mine \in SUBSET Nodes
  BY <1>1, HazardLocalTypes DEF HazardThreads, HazardSlots
<1>5. HazardTypes'
  BY <1>1, <1>2, <1>3, <1>4 DEF HazardTypes, HazardThread, HazardSlot, Becomes, Hazard!Slots
<1>6. HazardThreads' /\ HazardSlots'
  <2>1. HazardThread(t)'
    BY <1>1, <1>2, <1>3, <1>4 DEF HazardThread, HazardTypes, Becomes, Hazard!Confirmed
  <2>2. HazardThreads'
    BY <1>1, <1>3, <2>1 DEF HazardThreads, HazardThread, Becomes
  <2>3. HazardSlot(t)'
    BY <1>1, <1>2, <1>3, <1>4 DEF HazardSlot, HazardThread, HazardTypes, Becomes, Hazard!Slots, Hazard!HasHazardPointer, Hazard!Confirmed
  <2>4. \A s \in Hazard!Slots : s # self[t].slot => pointer'[s] = pointer[s]
    BY <1>1, <1>2 DEF HazardTypes
  <2>5. HazardSlots'
    BY <1>1, <1>2, <1>3, <2>3, <2>4, HazardOwnSlot DEF Becomes
  <2> QED BY <2>2, <2>5
<1>7. HazardNodes(d)' /\ DataApart(HazardHeld(d))'
  <2> DEFINE n == self[t].old
  <2>1. n \in Nodes /\ Hazard!Owned(t) = {n} /\ HazardHolds(t) = {n}
    BY <1>1, <1>2, <1>4 DEF HazardThread, Hazard!Owned, HazardHolds
  <2> HIDE DEF n
  <2>2. \A u \in Threads : Hazard!Owned(u)' = IF u = t THEN {} ELSE Hazard!Owned(u)
    BY <1>1, <1>2, <1>3, <1>4 DEF HazardThread, Becomes, Hazard!Owned
  <2>3. \A u \in Threads : HazardHolds(u)' = IF u = t THEN {} ELSE HazardHolds(u)
    BY <1>1, <1>2, <1>3, <1>4 DEF Becomes, HazardHolds
  <2>4. n \in alive /\ n \notin Members(c) /\ n \notin nodes_to_reclaim
        /\ \A u \in Threads \ {t} : n \notin Hazard!Owned(u)
    BY <1>1, <2>1 DEF HazardNodes
  <2>5. ListFrom(Nodes, Null, n, next, d) /\ Members(d) = Members(c) \cup {n}
    <3>1. next[n] = head
      BY <1>2 DEF n
    <3>2. d = << n >> \o c
      BY DEF n
    <3> QED BY <1>1, <2>1, <2>4, <3>1, <3>2, ListPush DEF HazardNodes
  <2>6. head' = n
    BY <1>2 DEF n
  <2>7. HazardNodes(d)'
    <3>1. ASSUME NEW u \in Threads
          PROVE  /\ (Hazard!Owned(u) \subseteq alive \ (Members(d) \cup nodes_to_reclaim))'
                 /\ (self[u].pc \in {"scan", "keep"} => self[u].current \notin self[u].mine)'
      <4>1. CASE u = t
        BY <1>3, <2>2, <4>1 DEF Becomes
      <4>2. CASE u # t
        BY <1>1, <1>2, <1>3, <2>2, <2>4, <2>5, <4>2 DEF HazardNodes, Becomes
      <4> QED BY <4>1, <4>2
    <3>2. ASSUME NEW u \in Threads, NEW v \in Threads \ {u}
          PROVE  (Hazard!Owned(u) \cap Hazard!Owned(v) = {})'
      BY <1>1, <2>2 DEF HazardNodes
    <3>3. \A m \in alive' : \/ m \in Members(d) \cup nodes_to_reclaim'
                            \/ \E u \in Threads : m \in Hazard!Owned(u)'
      BY <1>1, <1>2, <2>1, <2>2, <2>5 DEF HazardNodes
    <3>4. /\ Members(d) \cup nodes_to_reclaim' \subseteq alive'
          /\ Members(d) \cap nodes_to_reclaim' = {}
      BY <1>1, <1>2, <2>4, <2>5 DEF HazardNodes
    <3>5. ListFrom(Nodes, Null, head', next', d)
      BY <1>2, <2>5, <2>6
    <3> QED BY <3>1, <3>2, <3>3, <3>4, <3>5 DEF HazardNodes
  <2>8. HazardHeld(d)' = HazardHeld(c)
    <3>1. ASSUME NEW m \in HazardHeld(d)' PROVE m \in HazardHeld(c)
      BY <2>1, <2>3, <2>5 DEF HazardHeld
    <3>2. ASSUME NEW m \in HazardHeld(c) PROVE m \in HazardHeld(d)'
      BY <2>1, <2>3, <2>5 DEF HazardHeld
    <3> QED BY <3>1, <3>2
  <2> QED BY <1>1, <1>2, <2>7, <2>8 DEF DataApart
<1>8. HazardGuard'
  <2>1. self'[t].pc \notin {"swing", "scan"} /\ alive \subseteq alive'
    BY <1>2, <1>3 DEF Becomes
  <2> QED BY <1>1, <1>3, <2>1, HazardElsewhere DEF Becomes
<1>9. (empties + Cardinality(HazardLooking) <= pops)'
  <2>1. HazardLooking' = HazardLooking
    BY <1>2, <1>3 DEF HazardLooking, Becomes, Hazard!HasHazardPointer, Hazard!Confirmed
  <2> QED BY <1>1, <1>2, <2>1
<1>10. HazardLifo(c, d)
  <2> DEFINE n == self[t].old
  <2>1. n \in Nodes /\ HazardHolds(t) = {n} /\ n \in Hazard!Owned(t)
    BY <1>2, <1>4 DEF HazardThread, HazardHolds, Hazard!Owned
  <2>2. n \in HazardHeld(c) /\ n \notin Members(c)
    BY <1>1, <2>1 DEF HazardHeld, HazardNodes
  <2>3. \A u \in Threads : n \notin HazardTakes(u)
    <3>1. ASSUME NEW u \in Threads \ {t} PROVE n \notin HazardTakes(u)
      BY <1>1, <2>1, HazardHeldAlive, HazardTakesHeld DEF HazardNodes
    <3>2. HazardTakes(t) = {}
      BY <1>2 DEF HazardTakes
    <3> QED BY <3>1, <3>2
  <2>4. \A u \in Threads : HazardTakes(u)' = HazardTakes(u)
    BY <1>2, <1>3 DEF HazardTakes, Becomes
  <2>5. HazardTaken' = HazardTaken /\ n \notin HazardTaken
    BY <2>3, <2>4 DEF HazardTaken
  <2> HIDE DEF n
  <2>6. data[n] \in Values \ out /\ \A m \in Members(c) \cup HazardTaken : data[m] # data[n]
    BY <1>1, <2>2, <2>5, HazardTakesHeld DEF DataApart
  <2>7. c \in Seq(Nodes)
    BY <1>1 DEF HazardNodes, ListFrom
  <2>8. d = << n >> \o c
    BY DEF n
  <2>9. LifoStep(Along(data, c), out \cup Elements(data, HazardTaken), empties,
                 Along(data, << n >> \o c), out \cup Elements(data, HazardTaken), empties)
    BY <2>1, <2>6, <2>7, LifoPushes
  <2> QED BY <1>2, <2>5, <2>8, <2>9 DEF HazardLifo
<1> QED BY <1>5, <1>6, <1>7, <1>8, <1>9, <1>10 DEF HazardInv

(* A push that finds another head starts again.                             *)
LEMMA HazardPushRetry ==
  ASSUME NEW c, HazardInv(c), NEW t \in Threads, Hazard!PushRetry(t)
  PROVE  HazardInv(c)' /\ HazardLifo(c, c)
<1>1. /\ HazardTypes /\ HazardThreads /\ HazardSlots /\ HazardNodes(c) /\ HazardGuard
      /\ DataApart(HazardHeld(c)) /\ empties + Cardinality(HazardLooking) <= pops
  BY DEF HazardInv
<1>2. /\ self[t].pc = "push" /\ head' = head /\ next' = [next EXCEPT ![self[t].old] = head]
      /\ data' = data /\ alive' = alive /\ id' = id /\ pointer' = pointer
      /\ nodes_to_reclaim' = nodes_to_reclaim /\ pops' = pops /\ exits' = exits
      /\ out' = out /\ empties' = empties
  BY DEF Hazard!PushRetry, Hazard!PushExpected,
    Hazard!heap, Hazard!hazards, Hazard!calls, Hazard!results
<1>3. Becomes(t, self[t].pc, self[t].slot, self[t].i, self[t].old, self[t].current, self[t].mine)
  BY <1>1 DEF HazardTypes, Becomes, Hazard!PushRetry
<1>4. /\ HazardThread(t) /\ HazardSlot(t)
      /\ self[t].slot \in 0..MaxHazards /\ self[t].i \in 1..MaxHazards
      /\ self[t].old \in Nodes \cup {Null} /\ self[t].mine \in SUBSET Nodes
  BY <1>1, HazardLocalTypes DEF HazardThreads, HazardSlots
<1>5. HazardTypes'
  BY <1>1, <1>2, <1>3, <1>4 DEF HazardTypes, HazardThread, HazardSlot, Becomes, Hazard!Slots
<1>6. HazardThreads' /\ HazardSlots'
  <2>1. HazardThread(t)'
    BY <1>1, <1>2, <1>3, <1>4 DEF HazardThread, HazardTypes, Becomes, Hazard!Confirmed
  <2>2. HazardThreads'
    BY <1>1, <1>3, <2>1 DEF HazardThreads, HazardThread, Becomes
  <2>3. HazardSlot(t)'
    BY <1>1, <1>2, <1>3, <1>4 DEF HazardSlot, HazardThread, HazardTypes, Becomes, Hazard!Slots, Hazard!HasHazardPointer, Hazard!Confirmed
  <2>4. \A s \in Hazard!Slots : s # self[t].slot => pointer'[s] = pointer[s]
    BY <1>1, <1>2 DEF HazardTypes
  <2>5. HazardSlots'
    BY <1>1, <1>2, <1>3, <2>3, <2>4, HazardOwnSlot DEF Becomes
  <2> QED BY <2>2, <2>5
<1>7. HazardNodes(c)' /\ DataApart(HazardHeld(c))'
  <2>1. self[t].old \in Nodes /\ self[t].old \notin Members(c)
    BY <1>1, <1>2, <1>4 DEF HazardThread, HazardNodes, Hazard!Owned
  <2>2. ListFrom(Nodes, Null, head', next', c)
    <3>1. \A m \in Members(c) : next'[m] = next[m]
      BY <1>1, <1>2, <2>1 DEF HazardTypes, HazardNodes
    <3>2. ListFrom(Nodes, Null, head, next', c)
      BY <1>1, <3>1, ListStays DEF HazardNodes
    <3> QED BY <1>2, <3>2
  <2>3. self' = self
    BY DEF Hazard!PushRetry
  <2>4. HazardNodes(c)'
    BY <1>1, <1>2, <2>2, <2>3 DEF HazardNodes, Hazard!Owned
  <2>5. HazardHeld(c)' = HazardHeld(c)
    BY <2>3 DEF HazardHeld, HazardHolds
  <2> QED BY <1>1, <1>2, <2>4, <2>5 DEF DataApart
<1>8. HazardGuard'
  <2>1. self'[t].pc \notin {"swing", "scan"} /\ alive \subseteq alive'
    BY <1>2, <1>3 DEF Becomes
  <2> QED BY <1>1, <1>3, <2>1, HazardElsewhere DEF Becomes
<1>9. (empties + Cardinality(HazardLooking) <= pops)'
  <2>1. HazardLooking' = HazardLooking
    BY <1>2, <1>3 DEF HazardLooking, Becomes, Hazard!HasHazardPointer, Hazard!Confirmed
  <2> QED BY <1>1, <1>2, <2>1
<1>10. HazardLifo(c, c)
  <2>1. HazardTakes(t)' = HazardTakes(t)
    BY <1>3 DEF HazardTakes, Becomes
  <2> QED BY <1>2, <1>3, <2>1, HazardQuiet DEF Becomes
<1> QED BY <1>5, <1>6, <1>7, <1>8, <1>9, <1>10 DEF HazardInv

(* A pop begins.                                                            *)
LEMMA HazardPop ==
  ASSUME NEW c, HazardInv(c), NEW t \in Threads, Hazard!Pop(t)
  PROVE  HazardInv(c)' /\ HazardLifo(c, c)
<1>1. /\ HazardTypes /\ HazardThreads /\ HazardSlots /\ HazardNodes(c) /\ HazardGuard
      /\ DataApart(HazardHeld(c)) /\ empties + Cardinality(HazardLooking) <= pops
  BY DEF HazardInv
<1>2. /\ self[t].pc = "idle" /\ pops < MaxPops /\ head' = head /\ next' = next
      /\ data' = data /\ alive' = alive /\ id' = id /\ pointer' = pointer
      /\ nodes_to_reclaim' = nodes_to_reclaim /\ pops' = pops + 1 /\ exits' = exits
      /\ out' = out /\ empties' = empties
  BY DEF Hazard!Pop,
    Hazard!heap, Hazard!hazards, Hazard!calls, Hazard!results
<1>3. Becomes(t, IF Hazard!HasHazardPointer(t) THEN "load" ELSE "claim", self[t].slot, self[t].i, self[t].old, self[t].current, self[t].mine)
  <2>1. self \in [Threads -> HazardLocals] /\ self[t] \in HazardLocals
    BY <1>1, HazardLocalTypes
  <2>2. (IF Hazard!HasHazardPointer(t) THEN "load" ELSE "claim") \in Hazard!Places
    BY <1>1, <1>2, HazardLocalTypes DEF HazardTypes, HazardThreads, HazardThread, Hazard!Places, Hazard!Slots
  <2>3. self' = [self EXCEPT ![t].pc = IF Hazard!HasHazardPointer(t) THEN "load" ELSE "claim"]
    BY DEF Hazard!Pop
  <2> QED BY <2>1, <2>2, <2>3, SelfPc
<1>4. /\ HazardThread(t) /\ HazardSlot(t)
      /\ self[t].slot \in 0..MaxHazards /\ self[t].i \in 1..MaxHazards
      /\ self[t].old \in Nodes \cup {Null} /\ self[t].mine \in SUBSET Nodes
  BY <1>1, HazardLocalTypes DEF HazardThreads, HazardSlots
<1>5. HazardTypes'
  BY <1>1, <1>2, <1>3, <1>4 DEF HazardTypes, HazardThread, HazardSlot, Becomes, Hazard!Slots
<1>6. HazardThreads' /\ HazardSlots'
  <2>1. HazardThread(t)'
    BY <1>1, <1>2, <1>3, <1>4 DEF HazardThread, HazardTypes, Becomes, Hazard!Confirmed
  <2>2. HazardThreads'
    BY <1>1, <1>3, <2>1 DEF HazardThreads, HazardThread, Becomes
  <2>3. HazardSlot(t)'
    BY <1>1, <1>2, <1>3, <1>4 DEF HazardSlot, HazardThread, HazardTypes, Becomes, Hazard!Slots, Hazard!HasHazardPointer, Hazard!Confirmed
  <2>4. \A s \in Hazard!Slots : s # self[t].slot => pointer'[s] = pointer[s]
    BY <1>1, <1>2 DEF HazardTypes
  <2>5. HazardSlots'
    BY <1>1, <1>2, <1>3, <2>3, <2>4, HazardOwnSlot DEF Becomes
  <2> QED BY <2>2, <2>5
<1>7. HazardNodes(c)' /\ DataApart(HazardHeld(c))'
  <2>1. /\ Hazard!Owned(t)' = Hazard!Owned(t) /\ HazardHolds(t)' = HazardHolds(t)
        /\ (self[t].pc \in {"scan", "keep"} => self[t].current \notin self[t].mine)'
    BY <1>1, <1>2, <1>3, <1>4 DEF HazardThread, HazardNodes, Becomes, Hazard!Owned, HazardHolds, Hazard!Confirmed
  <2>2. \A u \in Threads \ {t} :
           /\ Hazard!Owned(u)' = Hazard!Owned(u) /\ HazardHolds(u)' = HazardHolds(u)
           /\ (self[u].pc \in {"scan", "keep"} => self[u].current \notin self[u].mine)'
    BY <1>1, <1>3 DEF HazardNodes, Becomes, Hazard!Owned, HazardHolds
  <2> QED BY <1>1, <1>2, <2>1, <2>2, HazardStay
<1>8. HazardGuard'
  <2>1. self'[t].pc \notin {"swing", "scan"} /\ alive \subseteq alive'
    BY <1>2, <1>3 DEF Becomes
  <2> QED BY <1>1, <1>3, <2>1, HazardElsewhere DEF Becomes
<1>9. (empties + Cardinality(HazardLooking) <= pops)'
  <2>1. HazardLooking' = HazardLooking \cup {t} /\ t \notin HazardLooking
    BY <1>2, <1>3 DEF HazardLooking, Becomes, Hazard!HasHazardPointer, Hazard!Confirmed
  <2>2. HazardLooking \in SUBSET Threads /\ pops \in Nat /\ empties \in Nat
    BY <1>1 DEF HazardLooking, HazardTypes
  <2>3. Cardinality(HazardLooking) \in Nat /\ Cardinality(HazardLooking)' = Cardinality(HazardLooking) + 1
    BY <2>1, <2>2, OneMore
  <2> QED BY <1>1, <1>2, <2>2, <2>3
<1>10. HazardLifo(c, c)
  <2>1. HazardTakes(t)' = HazardTakes(t)
    BY <1>2, <1>3, <1>4 DEF HazardTakes, HazardThread, Becomes, Hazard!Confirmed, Hazard!HasHazardPointer
  <2> QED BY <1>2, <1>3, <2>1, HazardQuiet DEF Becomes
<1> QED BY <1>5, <1>6, <1>7, <1>8, <1>9, <1>10 DEF HazardInv

(* It takes a slot.                                                         *)
LEMMA HazardClaim ==
  ASSUME NEW c, HazardInv(c), NEW t \in Threads, Hazard!Claim(t)
  PROVE  HazardInv(c)' /\ HazardLifo(c, c)
<1>1. /\ HazardTypes /\ HazardThreads /\ HazardSlots /\ HazardNodes(c) /\ HazardGuard
      /\ DataApart(HazardHeld(c)) /\ empties + Cardinality(HazardLooking) <= pops
  BY DEF HazardInv
<1>2. /\ self[t].pc = "claim" /\ id[self[t].i] = Null /\ head' = head /\ next' = next
      /\ data' = data /\ alive' = alive /\ id' = [id EXCEPT ![self[t].i] = t]
      /\ pointer' = pointer /\ nodes_to_reclaim' = nodes_to_reclaim /\ pops' = pops
      /\ exits' = exits /\ out' = out /\ empties' = empties
  BY DEF Hazard!Claim, Hazard!SlotFree,
    Hazard!heap, Hazard!hazards, Hazard!calls, Hazard!results
<1>3. Becomes(t, "load", self[t].i, 1, self[t].old, self[t].current, self[t].mine)
  <2>1. self \in [Threads -> HazardLocals] /\ self[t] \in HazardLocals
    BY <1>1, HazardLocalTypes
  <2>2. "load" \in Hazard!Places /\ self[t].i \in 0..MaxHazards /\ 1 \in Hazard!Slots
    BY <1>1, <1>2, HazardLocalTypes DEF HazardTypes, HazardThreads, HazardThread, Hazard!Places, Hazard!Slots
  <2>3. self' = [self EXCEPT ![t].pc = "load", ![t].slot = self[t].i, ![t].i = 1]
    BY DEF Hazard!Claim
  <2> QED BY <2>1, <2>2, <2>3, SelfPcSlotI
<1>4. /\ HazardThread(t) /\ HazardSlot(t)
      /\ self[t].slot \in 0..MaxHazards /\ self[t].i \in 1..MaxHazards
      /\ self[t].old \in Nodes \cup {Null} /\ self[t].mine \in SUBSET Nodes
  BY <1>1, HazardLocalTypes DEF HazardThreads, HazardSlots
<1>5. HazardTypes'
  BY <1>1, <1>2, <1>3, <1>4 DEF HazardTypes, HazardThread, HazardSlot, Becomes, Hazard!Slots
<1>6. HazardThreads' /\ HazardSlots'
  <2>1. HazardThread(t)'
    BY <1>1, <1>2, <1>3, <1>4 DEF HazardThread, HazardTypes, Becomes, Hazard!Confirmed
  <2>2. HazardThreads'
    BY <1>1, <1>3, <2>1 DEF HazardThreads, HazardThread, Becomes
  <2>3. HazardSlots'
    BY <1>1, <1>2, <1>3, <1>4 DEF HazardSlots, HazardSlot, Becomes, HazardTypes, Hazard!Slots
  <2> QED BY <2>2, <2>3
<1>7. HazardNodes(c)' /\ DataApart(HazardHeld(c))'
  <2>1. /\ Hazard!Owned(t)' = Hazard!Owned(t) /\ HazardHolds(t)' = HazardHolds(t)
        /\ (self[t].pc \in {"scan", "keep"} => self[t].current \notin self[t].mine)'
    BY <1>1, <1>2, <1>3, <1>4 DEF HazardThread, HazardNodes, Becomes, Hazard!Owned, HazardHolds, Hazard!Confirmed
  <2>2. \A u \in Threads \ {t} :
           /\ Hazard!Owned(u)' = Hazard!Owned(u) /\ HazardHolds(u)' = HazardHolds(u)
           /\ (self[u].pc \in {"scan", "keep"} => self[u].current \notin self[u].mine)'
    BY <1>1, <1>3 DEF HazardNodes, Becomes, Hazard!Owned, HazardHolds
  <2> QED BY <1>1, <1>2, <2>1, <2>2, HazardStay
<1>8. HazardGuard'
  <2>1. self'[t].pc \notin {"swing", "scan"} /\ alive \subseteq alive'
    BY <1>2, <1>3 DEF Becomes
  <2> QED BY <1>1, <1>3, <2>1, HazardElsewhere DEF Becomes
<1>9. (empties + Cardinality(HazardLooking) <= pops)'
  <2>1. HazardLooking' = HazardLooking
    BY <1>2, <1>3 DEF HazardLooking, Becomes, Hazard!HasHazardPointer, Hazard!Confirmed
  <2> QED BY <1>1, <1>2, <2>1
<1>10. HazardLifo(c, c)
  <2>1. HazardTakes(t)' = HazardTakes(t)
    BY <1>2, <1>3, <1>4 DEF HazardTakes, HazardThread, Becomes, Hazard!Confirmed, Hazard!HasHazardPointer
  <2> QED BY <1>2, <1>3, <2>1, HazardQuiet DEF Becomes
<1> QED BY <1>5, <1>6, <1>7, <1>8, <1>9, <1>10 DEF HazardInv

(* The slot is taken.                                                       *)
LEMMA HazardClaimNext ==
  ASSUME NEW c, HazardInv(c), NEW t \in Threads, Hazard!ClaimNext(t)
  PROVE  HazardInv(c)' /\ HazardLifo(c, c)
<1>1. /\ HazardTypes /\ HazardThreads /\ HazardSlots /\ HazardNodes(c) /\ HazardGuard
      /\ DataApart(HazardHeld(c)) /\ empties + Cardinality(HazardLooking) <= pops
  BY DEF HazardInv
<1>2. /\ self[t].pc = "claim" /\ self[t].i # MaxHazards /\ head' = head /\ next' = next
      /\ data' = data /\ alive' = alive /\ id' = id /\ pointer' = pointer
      /\ nodes_to_reclaim' = nodes_to_reclaim /\ pops' = pops /\ exits' = exits
      /\ out' = out /\ empties' = empties
  BY DEF Hazard!ClaimNext, Hazard!SlotFree, Hazard!LastSlot,
    Hazard!heap, Hazard!hazards, Hazard!calls, Hazard!results
<1>3. Becomes(t, self[t].pc, self[t].slot, self[t].i + 1, self[t].old, self[t].current, self[t].mine)
  <2>1. self \in [Threads -> HazardLocals] /\ self[t] \in HazardLocals
    BY <1>1, HazardLocalTypes
  <2>2. (self[t].i + 1) \in Hazard!Slots
    BY <1>1, <1>2, HazardLocalTypes DEF HazardTypes, HazardThreads, HazardThread, Hazard!Places, Hazard!Slots
  <2>3. self' = [self EXCEPT ![t].i = self[t].i + 1]
    BY DEF Hazard!ClaimNext
  <2> QED BY <2>1, <2>2, <2>3, SelfI
<1>4. /\ HazardThread(t) /\ HazardSlot(t)
      /\ self[t].slot \in 0..MaxHazards /\ self[t].i \in 1..MaxHazards
      /\ self[t].old \in Nodes \cup {Null} /\ self[t].mine \in SUBSET Nodes
  BY <1>1, HazardLocalTypes DEF HazardThreads, HazardSlots
<1>5. HazardTypes'
  BY <1>1, <1>2, <1>3, <1>4 DEF HazardTypes, HazardThread, HazardSlot, Becomes, Hazard!Slots
<1>6. HazardThreads' /\ HazardSlots'
  <2>1. HazardThread(t)'
    BY <1>1, <1>2, <1>3, <1>4 DEF HazardThread, HazardTypes, Becomes, Hazard!Confirmed
  <2>2. HazardThreads'
    BY <1>1, <1>3, <2>1 DEF HazardThreads, HazardThread, Becomes
  <2>3. HazardSlot(t)'
    BY <1>1, <1>2, <1>3, <1>4 DEF HazardSlot, HazardThread, HazardTypes, Becomes, Hazard!Slots, Hazard!HasHazardPointer, Hazard!Confirmed
  <2>4. \A s \in Hazard!Slots : s # self[t].slot => pointer'[s] = pointer[s]
    BY <1>1, <1>2 DEF HazardTypes
  <2>5. HazardSlots'
    BY <1>1, <1>2, <1>3, <2>3, <2>4, HazardOwnSlot DEF Becomes
  <2> QED BY <2>2, <2>5
<1>7. HazardNodes(c)' /\ DataApart(HazardHeld(c))'
  <2>1. /\ Hazard!Owned(t)' = Hazard!Owned(t) /\ HazardHolds(t)' = HazardHolds(t)
        /\ (self[t].pc \in {"scan", "keep"} => self[t].current \notin self[t].mine)'
    BY <1>1, <1>2, <1>3, <1>4 DEF HazardThread, HazardNodes, Becomes, Hazard!Owned, HazardHolds, Hazard!Confirmed
  <2>2. \A u \in Threads \ {t} :
           /\ Hazard!Owned(u)' = Hazard!Owned(u) /\ HazardHolds(u)' = HazardHolds(u)
           /\ (self[u].pc \in {"scan", "keep"} => self[u].current \notin self[u].mine)'
    BY <1>1, <1>3 DEF HazardNodes, Becomes, Hazard!Owned, HazardHolds
  <2> QED BY <1>1, <1>2, <2>1, <2>2, HazardStay
<1>8. HazardGuard'
  <2>1. self'[t].pc \notin {"swing", "scan"} /\ alive \subseteq alive'
    BY <1>2, <1>3 DEF Becomes
  <2> QED BY <1>1, <1>3, <2>1, HazardElsewhere DEF Becomes
<1>9. (empties + Cardinality(HazardLooking) <= pops)'
  <2>1. HazardLooking' = HazardLooking
    BY <1>2, <1>3 DEF HazardLooking, Becomes, Hazard!HasHazardPointer, Hazard!Confirmed
  <2> QED BY <1>1, <1>2, <2>1
<1>10. HazardLifo(c, c)
  <2>1. HazardTakes(t)' = HazardTakes(t)
    BY <1>2, <1>3, <1>4 DEF HazardTakes, HazardThread, Becomes, Hazard!Confirmed, Hazard!HasHazardPointer
  <2> QED BY <1>2, <1>3, <2>1, HazardQuiet DEF Becomes
<1> QED BY <1>5, <1>6, <1>7, <1>8, <1>9, <1>10 DEF HazardInv

(* All slots are taken.                                                     *)
LEMMA HazardClaimThrows ==
  ASSUME NEW c, HazardInv(c), NEW t \in Threads, Hazard!ClaimThrows(t)
  PROVE  HazardInv(c)' /\ HazardLifo(c, c)
<1>1. /\ HazardTypes /\ HazardThreads /\ HazardSlots /\ HazardNodes(c) /\ HazardGuard
      /\ DataApart(HazardHeld(c)) /\ empties + Cardinality(HazardLooking) <= pops
  BY DEF HazardInv
<1>2. /\ self[t].pc = "claim" /\ head' = head /\ next' = next /\ data' = data
      /\ alive' = alive /\ id' = id /\ pointer' = pointer
      /\ nodes_to_reclaim' = nodes_to_reclaim /\ pops' = pops /\ exits' = exits
      /\ out' = out /\ empties' = empties
  BY DEF Hazard!ClaimThrows, Hazard!SlotFree, Hazard!LastSlot,
    Hazard!heap, Hazard!hazards, Hazard!calls, Hazard!results
<1>3. Becomes(t, "idle", self[t].slot, 1, self[t].old, self[t].current, self[t].mine)
  <2>1. self \in [Threads -> HazardLocals] /\ self[t] \in HazardLocals
    BY <1>1, HazardLocalTypes
  <2>2. "idle" \in Hazard!Places /\ 1 \in Hazard!Slots
    BY <1>1, <1>2, HazardLocalTypes DEF HazardTypes, HazardThreads, HazardThread, Hazard!Places, Hazard!Slots
  <2>3. self' = [self EXCEPT ![t].pc = "idle", ![t].i = 1]
    BY DEF Hazard!ClaimThrows
  <2> QED BY <2>1, <2>2, <2>3, SelfPcI
<1>4. /\ HazardThread(t) /\ HazardSlot(t)
      /\ self[t].slot \in 0..MaxHazards /\ self[t].i \in 1..MaxHazards
      /\ self[t].old \in Nodes \cup {Null} /\ self[t].mine \in SUBSET Nodes
  BY <1>1, HazardLocalTypes DEF HazardThreads, HazardSlots
<1>5. HazardTypes'
  BY <1>1, <1>2, <1>3, <1>4 DEF HazardTypes, HazardThread, HazardSlot, Becomes, Hazard!Slots
<1>6. HazardThreads' /\ HazardSlots'
  <2>1. HazardThread(t)'
    BY <1>1, <1>2, <1>3, <1>4 DEF HazardThread, HazardTypes, Becomes, Hazard!Confirmed
  <2>2. HazardThreads'
    BY <1>1, <1>3, <2>1 DEF HazardThreads, HazardThread, Becomes
  <2>3. HazardSlot(t)'
    BY <1>1, <1>2, <1>3, <1>4 DEF HazardSlot, HazardThread, HazardTypes, Becomes, Hazard!Slots, Hazard!HasHazardPointer, Hazard!Confirmed
  <2>4. \A s \in Hazard!Slots : s # self[t].slot => pointer'[s] = pointer[s]
    BY <1>1, <1>2 DEF HazardTypes
  <2>5. HazardSlots'
    BY <1>1, <1>2, <1>3, <2>3, <2>4, HazardOwnSlot DEF Becomes
  <2> QED BY <2>2, <2>5
<1>7. HazardNodes(c)' /\ DataApart(HazardHeld(c))'
  <2>1. /\ Hazard!Owned(t)' = Hazard!Owned(t) /\ HazardHolds(t)' = HazardHolds(t)
        /\ (self[t].pc \in {"scan", "keep"} => self[t].current \notin self[t].mine)'
    BY <1>1, <1>2, <1>3, <1>4 DEF HazardThread, HazardNodes, Becomes, Hazard!Owned, HazardHolds, Hazard!Confirmed
  <2>2. \A u \in Threads \ {t} :
           /\ Hazard!Owned(u)' = Hazard!Owned(u) /\ HazardHolds(u)' = HazardHolds(u)
           /\ (self[u].pc \in {"scan", "keep"} => self[u].current \notin self[u].mine)'
    BY <1>1, <1>3 DEF HazardNodes, Becomes, Hazard!Owned, HazardHolds
  <2> QED BY <1>1, <1>2, <2>1, <2>2, HazardStay
<1>8. HazardGuard'
  <2>1. self'[t].pc \notin {"swing", "scan"} /\ alive \subseteq alive'
    BY <1>2, <1>3 DEF Becomes
  <2> QED BY <1>1, <1>3, <2>1, HazardElsewhere DEF Becomes
<1>9. (empties + Cardinality(HazardLooking) <= pops)'
  <2>1. HazardLooking' = HazardLooking \ {t} /\ t \in HazardLooking
    BY <1>2, <1>3 DEF HazardLooking, Becomes, Hazard!HasHazardPointer, Hazard!Confirmed
  <2>2. HazardLooking \in SUBSET Threads /\ pops \in Nat /\ empties \in Nat
    BY <1>1 DEF HazardLooking, HazardTypes
  <2>3. Cardinality(HazardLooking) \in Nat /\ Cardinality(HazardLooking)' = Cardinality(HazardLooking) - 1
    BY <2>1, <2>2, OneLess
  <2> QED BY <1>1, <1>2, <2>2, <2>3
<1>10. HazardLifo(c, c)
  <2>1. HazardTakes(t)' = HazardTakes(t)
    BY <1>2, <1>3, <1>4 DEF HazardTakes, HazardThread, Becomes, Hazard!Confirmed, Hazard!HasHazardPointer
  <2> QED BY <1>2, <1>3, <2>1, HazardQuiet DEF Becomes
<1> QED BY <1>5, <1>6, <1>7, <1>8, <1>9, <1>10 DEF HazardInv

(* The end of a thread clears its slot.                                     *)
LEMMA HazardExitClear ==
  ASSUME NEW c, HazardInv(c), NEW t \in Threads, Hazard!ExitClear(t)
  PROVE  HazardInv(c)' /\ HazardLifo(c, c)
<1>1. /\ HazardTypes /\ HazardThreads /\ HazardSlots /\ HazardNodes(c) /\ HazardGuard
      /\ DataApart(HazardHeld(c)) /\ empties + Cardinality(HazardLooking) <= pops
  BY DEF HazardInv
<1>2. /\ self[t].pc = "idle" /\ self[t].slot # 0 /\ exits < MaxExits /\ head' = head
      /\ next' = next /\ data' = data /\ alive' = alive /\ id' = id
      /\ pointer' = [pointer EXCEPT ![self[t].slot] = Null]
      /\ nodes_to_reclaim' = nodes_to_reclaim /\ pops' = pops /\ exits' = exits + 1
      /\ out' = out /\ empties' = empties
  BY DEF Hazard!ExitClear, Hazard!HasHazardPointer,
    Hazard!heap, Hazard!hazards, Hazard!calls, Hazard!results
<1>3. Becomes(t, "exit", self[t].slot, self[t].i, self[t].old, self[t].current, self[t].mine)
  <2>1. self \in [Threads -> HazardLocals] /\ self[t] \in HazardLocals
    BY <1>1, HazardLocalTypes
  <2>2. "exit" \in Hazard!Places
    BY <1>1, <1>2, HazardLocalTypes DEF HazardTypes, HazardThreads, HazardThread, Hazard!Places, Hazard!Slots
  <2>3. self' = [self EXCEPT ![t].pc = "exit"]
    BY DEF Hazard!ExitClear
  <2> QED BY <2>1, <2>2, <2>3, SelfPc
<1>4. /\ HazardThread(t) /\ HazardSlot(t)
      /\ self[t].slot \in 0..MaxHazards /\ self[t].i \in 1..MaxHazards
      /\ self[t].old \in Nodes \cup {Null} /\ self[t].mine \in SUBSET Nodes
  BY <1>1, HazardLocalTypes DEF HazardThreads, HazardSlots
<1>5. HazardTypes'
  BY <1>1, <1>2, <1>3, <1>4 DEF HazardTypes, HazardThread, HazardSlot, Becomes, Hazard!Slots
<1>6. HazardThreads' /\ HazardSlots'
  <2>1. HazardThread(t)'
    BY <1>1, <1>2, <1>3, <1>4 DEF HazardThread, HazardTypes, Becomes, Hazard!Confirmed
  <2>2. HazardThreads'
    BY <1>1, <1>3, <2>1 DEF HazardThreads, HazardThread, Becomes
  <2>3. HazardSlot(t)'
    BY <1>1, <1>2, <1>3, <1>4 DEF HazardSlot, HazardThread, HazardTypes, Becomes, Hazard!Slots, Hazard!HasHazardPointer, Hazard!Confirmed
  <2>4. \A s \in Hazard!Slots : s # self[t].slot => pointer'[s] = pointer[s]
    BY <1>1, <1>2 DEF HazardTypes
  <2>5. HazardSlots'
    BY <1>1, <1>2, <1>3, <2>3, <2>4, HazardOwnSlot DEF Becomes
  <2> QED BY <2>2, <2>5
<1>7. HazardNodes(c)' /\ DataApart(HazardHeld(c))'
  <2>1. /\ Hazard!Owned(t)' = Hazard!Owned(t) /\ HazardHolds(t)' = HazardHolds(t)
        /\ (self[t].pc \in {"scan", "keep"} => self[t].current \notin self[t].mine)'
    BY <1>1, <1>2, <1>3, <1>4 DEF HazardThread, HazardNodes, Becomes, Hazard!Owned, HazardHolds, Hazard!Confirmed
  <2>2. \A u \in Threads \ {t} :
           /\ Hazard!Owned(u)' = Hazard!Owned(u) /\ HazardHolds(u)' = HazardHolds(u)
           /\ (self[u].pc \in {"scan", "keep"} => self[u].current \notin self[u].mine)'
    BY <1>1, <1>3 DEF HazardNodes, Becomes, Hazard!Owned, HazardHolds
  <2> QED BY <1>1, <1>2, <2>1, <2>2, HazardStay
<1>8. HazardGuard'
  <2>1. self'[t].pc \notin {"swing", "scan"} /\ alive \subseteq alive'
    BY <1>2, <1>3 DEF Becomes
  <2> QED BY <1>1, <1>3, <2>1, HazardElsewhere DEF Becomes
<1>9. (empties + Cardinality(HazardLooking) <= pops)'
  <2>1. HazardLooking' = HazardLooking
    BY <1>2, <1>3 DEF HazardLooking, Becomes, Hazard!HasHazardPointer, Hazard!Confirmed
  <2> QED BY <1>1, <1>2, <2>1
<1>10. HazardLifo(c, c)
  <2>1. HazardTakes(t)' = HazardTakes(t)
    BY <1>2, <1>3, <1>4 DEF HazardTakes, HazardThread, Becomes, Hazard!Confirmed, Hazard!HasHazardPointer
  <2> QED BY <1>2, <1>3, <2>1, HazardQuiet DEF Becomes
<1> QED BY <1>5, <1>6, <1>7, <1>8, <1>9, <1>10 DEF HazardInv

(* And gives it back.                                                       *)
LEMMA HazardExitFree ==
  ASSUME NEW c, HazardInv(c), NEW t \in Threads, Hazard!ExitFree(t)
  PROVE  HazardInv(c)' /\ HazardLifo(c, c)
<1>1. /\ HazardTypes /\ HazardThreads /\ HazardSlots /\ HazardNodes(c) /\ HazardGuard
      /\ DataApart(HazardHeld(c)) /\ empties + Cardinality(HazardLooking) <= pops
  BY DEF HazardInv
<1>2. /\ self[t].pc = "exit" /\ head' = head /\ next' = next /\ data' = data
      /\ alive' = alive /\ id' = [id EXCEPT ![self[t].slot] = Null] /\ pointer' = pointer
      /\ nodes_to_reclaim' = nodes_to_reclaim /\ pops' = pops /\ exits' = exits
      /\ out' = out /\ empties' = empties
  BY DEF Hazard!ExitFree,
    Hazard!heap, Hazard!hazards, Hazard!calls, Hazard!results
<1>3. Becomes(t, "idle", 0, self[t].i, self[t].old, self[t].current, self[t].mine)
  <2>1. self \in [Threads -> HazardLocals] /\ self[t] \in HazardLocals
    BY <1>1, HazardLocalTypes
  <2>2. "idle" \in Hazard!Places /\ 0 \in 0..MaxHazards
    BY <1>1, <1>2, HazardLocalTypes DEF HazardTypes, HazardThreads, HazardThread, Hazard!Places, Hazard!Slots
  <2>3. self' = [self EXCEPT ![t].pc = "idle", ![t].slot = 0]
    BY DEF Hazard!ExitFree
  <2> QED BY <2>1, <2>2, <2>3, SelfPcSlot
<1>4. /\ HazardThread(t) /\ HazardSlot(t)
      /\ self[t].slot \in 0..MaxHazards /\ self[t].i \in 1..MaxHazards
      /\ self[t].old \in Nodes \cup {Null} /\ self[t].mine \in SUBSET Nodes
  BY <1>1, HazardLocalTypes DEF HazardThreads, HazardSlots
<1>5. HazardTypes'
  BY <1>1, <1>2, <1>3, <1>4 DEF HazardTypes, HazardThread, HazardSlot, Becomes, Hazard!Slots
<1>6. HazardThreads' /\ HazardSlots'
  <2>1. HazardThread(t)'
    BY <1>1, <1>2, <1>3, <1>4 DEF HazardThread, HazardTypes, Becomes, Hazard!Confirmed
  <2>2. HazardThreads'
    BY <1>1, <1>3, <2>1 DEF HazardThreads, HazardThread, Becomes
  <2>3. HazardSlots'
    BY <1>1, <1>2, <1>3, <1>4 DEF HazardSlots, HazardSlot, Becomes, HazardTypes, Hazard!Slots
  <2> QED BY <2>2, <2>3
<1>7. HazardNodes(c)' /\ DataApart(HazardHeld(c))'
  <2>1. /\ Hazard!Owned(t)' = Hazard!Owned(t) /\ HazardHolds(t)' = HazardHolds(t)
        /\ (self[t].pc \in {"scan", "keep"} => self[t].current \notin self[t].mine)'
    BY <1>1, <1>2, <1>3, <1>4 DEF HazardThread, HazardNodes, Becomes, Hazard!Owned, HazardHolds, Hazard!Confirmed
  <2>2. \A u \in Threads \ {t} :
           /\ Hazard!Owned(u)' = Hazard!Owned(u) /\ HazardHolds(u)' = HazardHolds(u)
           /\ (self[u].pc \in {"scan", "keep"} => self[u].current \notin self[u].mine)'
    BY <1>1, <1>3 DEF HazardNodes, Becomes, Hazard!Owned, HazardHolds
  <2> QED BY <1>1, <1>2, <2>1, <2>2, HazardStay
<1>8. HazardGuard'
  <2>1. self'[t].pc \notin {"swing", "scan"} /\ alive \subseteq alive'
    BY <1>2, <1>3 DEF Becomes
  <2> QED BY <1>1, <1>3, <2>1, HazardElsewhere DEF Becomes
<1>9. (empties + Cardinality(HazardLooking) <= pops)'
  <2>1. HazardLooking' = HazardLooking
    BY <1>2, <1>3 DEF HazardLooking, Becomes, Hazard!HasHazardPointer, Hazard!Confirmed
  <2> QED BY <1>1, <1>2, <2>1
<1>10. HazardLifo(c, c)
  <2>1. HazardTakes(t)' = HazardTakes(t)
    BY <1>2, <1>3, <1>4 DEF HazardTakes, HazardThread, Becomes, Hazard!Confirmed, Hazard!HasHazardPointer
  <2> QED BY <1>2, <1>3, <2>1, HazardQuiet DEF Becomes
<1> QED BY <1>5, <1>6, <1>7, <1>8, <1>9, <1>10 DEF HazardInv

(* A pop reads head.                                                        *)
LEMMA HazardLoad ==
  ASSUME NEW c, HazardInv(c), NEW t \in Threads, Hazard!Load(t)
  PROVE  HazardInv(c)' /\ HazardLifo(c, c)
<1>1. /\ HazardTypes /\ HazardThreads /\ HazardSlots /\ HazardNodes(c) /\ HazardGuard
      /\ DataApart(HazardHeld(c)) /\ empties + Cardinality(HazardLooking) <= pops
  BY DEF HazardInv
<1>2. /\ self[t].pc = "load" /\ head' = head /\ next' = next /\ data' = data
      /\ alive' = alive /\ id' = id /\ pointer' = pointer
      /\ nodes_to_reclaim' = nodes_to_reclaim /\ pops' = pops /\ exits' = exits
      /\ out' = out /\ empties' = empties
  BY DEF Hazard!Load,
    Hazard!heap, Hazard!hazards, Hazard!calls, Hazard!results
<1>3. Becomes(t, "protect", self[t].slot, self[t].i, head, self[t].current, self[t].mine)
  <2>1. self \in [Threads -> HazardLocals] /\ self[t] \in HazardLocals
    BY <1>1, HazardLocalTypes
  <2>2. "protect" \in Hazard!Places /\ head \in Nodes \cup {Null}
    BY <1>1, <1>2, HazardLocalTypes DEF HazardTypes, HazardThreads, HazardThread, Hazard!Places, Hazard!Slots
  <2>3. self' = [self EXCEPT ![t].pc = "protect", ![t].old = head]
    BY DEF Hazard!Load
  <2> QED BY <2>1, <2>2, <2>3, SelfPcOld
<1>4. /\ HazardThread(t) /\ HazardSlot(t)
      /\ self[t].slot \in 0..MaxHazards /\ self[t].i \in 1..MaxHazards
      /\ self[t].old \in Nodes \cup {Null} /\ self[t].mine \in SUBSET Nodes
  BY <1>1, HazardLocalTypes DEF HazardThreads, HazardSlots
<1>5. HazardTypes'
  BY <1>1, <1>2, <1>3, <1>4 DEF HazardTypes, HazardThread, HazardSlot, Becomes, Hazard!Slots
<1>6. HazardThreads' /\ HazardSlots'
  <2>1. HazardThread(t)'
    BY <1>1, <1>2, <1>3, <1>4 DEF HazardThread, HazardTypes, Becomes, Hazard!Confirmed
  <2>2. HazardThreads'
    BY <1>1, <1>3, <2>1 DEF HazardThreads, HazardThread, Becomes
  <2>3. HazardSlot(t)'
    BY <1>1, <1>2, <1>3, <1>4 DEF HazardSlot, HazardThread, HazardTypes, Becomes, Hazard!Slots, Hazard!HasHazardPointer, Hazard!Confirmed
  <2>4. \A s \in Hazard!Slots : s # self[t].slot => pointer'[s] = pointer[s]
    BY <1>1, <1>2 DEF HazardTypes
  <2>5. HazardSlots'
    BY <1>1, <1>2, <1>3, <2>3, <2>4, HazardOwnSlot DEF Becomes
  <2> QED BY <2>2, <2>5
<1>7. HazardNodes(c)' /\ DataApart(HazardHeld(c))'
  <2>1. /\ Hazard!Owned(t)' = Hazard!Owned(t) /\ HazardHolds(t)' = HazardHolds(t)
        /\ (self[t].pc \in {"scan", "keep"} => self[t].current \notin self[t].mine)'
    BY <1>1, <1>2, <1>3, <1>4 DEF HazardThread, HazardNodes, Becomes, Hazard!Owned, HazardHolds, Hazard!Confirmed
  <2>2. \A u \in Threads \ {t} :
           /\ Hazard!Owned(u)' = Hazard!Owned(u) /\ HazardHolds(u)' = HazardHolds(u)
           /\ (self[u].pc \in {"scan", "keep"} => self[u].current \notin self[u].mine)'
    BY <1>1, <1>3 DEF HazardNodes, Becomes, Hazard!Owned, HazardHolds
  <2> QED BY <1>1, <1>2, <2>1, <2>2, HazardStay
<1>8. HazardGuard'
  <2>1. self'[t].pc \notin {"swing", "scan"} /\ alive \subseteq alive'
    BY <1>2, <1>3 DEF Becomes
  <2> QED BY <1>1, <1>3, <2>1, HazardElsewhere DEF Becomes
<1>9. (empties + Cardinality(HazardLooking) <= pops)'
  <2>1. HazardLooking' = HazardLooking
    BY <1>2, <1>3 DEF HazardLooking, Becomes, Hazard!HasHazardPointer, Hazard!Confirmed
  <2> QED BY <1>1, <1>2, <2>1
<1>10. HazardLifo(c, c)
  <2>1. HazardTakes(t)' = HazardTakes(t)
    BY <1>2, <1>3, <1>4 DEF HazardTakes, HazardThread, Becomes, Hazard!Confirmed, Hazard!HasHazardPointer
  <2> QED BY <1>2, <1>3, <2>1, HazardQuiet DEF Becomes
<1> QED BY <1>5, <1>6, <1>7, <1>8, <1>9, <1>10 DEF HazardInv

(* It announces what it read.                                               *)
LEMMA HazardProtect ==
  ASSUME NEW c, HazardInv(c), NEW t \in Threads, Hazard!Protect(t)
  PROVE  HazardInv(c)' /\ HazardLifo(c, c)
<1>1. /\ HazardTypes /\ HazardThreads /\ HazardSlots /\ HazardNodes(c) /\ HazardGuard
      /\ DataApart(HazardHeld(c)) /\ empties + Cardinality(HazardLooking) <= pops
  BY DEF HazardInv
<1>2. /\ self[t].pc = "protect" /\ head' = head /\ next' = next /\ data' = data
      /\ alive' = alive /\ id' = id
      /\ pointer' = [pointer EXCEPT ![self[t].slot] = self[t].old]
      /\ nodes_to_reclaim' = nodes_to_reclaim /\ pops' = pops /\ exits' = exits
      /\ out' = out /\ empties' = empties
  BY DEF Hazard!Protect,
    Hazard!heap, Hazard!hazards, Hazard!calls, Hazard!results
<1>3. Becomes(t, "reread", self[t].slot, self[t].i, self[t].old, self[t].current, self[t].mine)
  <2>1. self \in [Threads -> HazardLocals] /\ self[t] \in HazardLocals
    BY <1>1, HazardLocalTypes
  <2>2. "reread" \in Hazard!Places
    BY <1>1, <1>2, HazardLocalTypes DEF HazardTypes, HazardThreads, HazardThread, Hazard!Places, Hazard!Slots
  <2>3. self' = [self EXCEPT ![t].pc = "reread"]
    BY DEF Hazard!Protect
  <2> QED BY <2>1, <2>2, <2>3, SelfPc
<1>4. /\ HazardThread(t) /\ HazardSlot(t)
      /\ self[t].slot \in 0..MaxHazards /\ self[t].i \in 1..MaxHazards
      /\ self[t].old \in Nodes \cup {Null} /\ self[t].mine \in SUBSET Nodes
  BY <1>1, HazardLocalTypes DEF HazardThreads, HazardSlots
<1>5. HazardTypes'
  BY <1>1, <1>2, <1>3, <1>4 DEF HazardTypes, HazardThread, HazardSlot, Becomes, Hazard!Slots
<1>6. HazardThreads' /\ HazardSlots'
  <2>1. HazardThread(t)'
    BY <1>1, <1>2, <1>3, <1>4 DEF HazardThread, HazardTypes, Becomes, Hazard!Confirmed
  <2>2. HazardThreads'
    BY <1>1, <1>3, <2>1 DEF HazardThreads, HazardThread, Becomes
  <2>3. HazardSlot(t)'
    BY <1>1, <1>2, <1>3, <1>4 DEF HazardSlot, HazardThread, HazardTypes, Becomes, Hazard!Slots, Hazard!HasHazardPointer, Hazard!Confirmed
  <2>4. \A s \in Hazard!Slots : s # self[t].slot => pointer'[s] = pointer[s]
    BY <1>1, <1>2 DEF HazardTypes
  <2>5. HazardSlots'
    BY <1>1, <1>2, <1>3, <2>3, <2>4, HazardOwnSlot DEF Becomes
  <2> QED BY <2>2, <2>5
<1>7. HazardNodes(c)' /\ DataApart(HazardHeld(c))'
  <2>1. /\ Hazard!Owned(t)' = Hazard!Owned(t) /\ HazardHolds(t)' = HazardHolds(t)
        /\ (self[t].pc \in {"scan", "keep"} => self[t].current \notin self[t].mine)'
    BY <1>1, <1>2, <1>3, <1>4 DEF HazardThread, HazardNodes, Becomes, Hazard!Owned, HazardHolds, Hazard!Confirmed
  <2>2. \A u \in Threads \ {t} :
           /\ Hazard!Owned(u)' = Hazard!Owned(u) /\ HazardHolds(u)' = HazardHolds(u)
           /\ (self[u].pc \in {"scan", "keep"} => self[u].current \notin self[u].mine)'
    BY <1>1, <1>3 DEF HazardNodes, Becomes, Hazard!Owned, HazardHolds
  <2> QED BY <1>1, <1>2, <2>1, <2>2, HazardStay
<1>8. HazardGuard'
  <2>1. self'[t].pc \notin {"swing", "scan"} /\ alive \subseteq alive'
    BY <1>2, <1>3 DEF Becomes
  <2> QED BY <1>1, <1>3, <2>1, HazardElsewhere DEF Becomes
<1>9. (empties + Cardinality(HazardLooking) <= pops)'
  <2>1. HazardLooking' = HazardLooking
    BY <1>2, <1>3 DEF HazardLooking, Becomes, Hazard!HasHazardPointer, Hazard!Confirmed
  <2> QED BY <1>1, <1>2, <2>1
<1>10. HazardLifo(c, c)
  <2>1. HazardTakes(t)' = HazardTakes(t)
    BY <1>2, <1>3, <1>4 DEF HazardTakes, HazardThread, Becomes, Hazard!Confirmed, Hazard!HasHazardPointer
  <2> QED BY <1>2, <1>3, <2>1, HazardQuiet DEF Becomes
<1> QED BY <1>5, <1>6, <1>7, <1>8, <1>9, <1>10 DEF HazardInv

(* It confirms that this is the head.                                       *)
LEMMA HazardReread ==
  ASSUME NEW c, HazardInv(c), NEW t \in Threads, Hazard!Reread(t)
  PROVE  HazardInv(c)' /\ HazardLifo(c, c)
<1>1. /\ HazardTypes /\ HazardThreads /\ HazardSlots /\ HazardNodes(c) /\ HazardGuard
      /\ DataApart(HazardHeld(c)) /\ empties + Cardinality(HazardLooking) <= pops
  BY DEF HazardInv
<1>2. /\ self[t].pc = "reread" /\ ~(head = self[t].old /\ head = Null) /\ head' = head
      /\ next' = next /\ data' = data /\ alive' = alive /\ id' = id /\ pointer' = pointer
      /\ nodes_to_reclaim' = nodes_to_reclaim /\ pops' = pops /\ exits' = exits
      /\ out' = out /\ empties' = empties
  BY DEF Hazard!Reread, Hazard!Confirmed, Hazard!HeadIsNull,
    Hazard!heap, Hazard!hazards, Hazard!calls, Hazard!results
<1>3. Becomes(t, IF Hazard!Confirmed(t) THEN "swing" ELSE "protect", self[t].slot, self[t].i, head, self[t].current, self[t].mine)
  <2>1. self \in [Threads -> HazardLocals] /\ self[t] \in HazardLocals
    BY <1>1, HazardLocalTypes
  <2>2. /\ (IF Hazard!Confirmed(t) THEN "swing" ELSE "protect") \in Hazard!Places
        /\ head \in Nodes \cup {Null}
    BY <1>1, <1>2, HazardLocalTypes DEF HazardTypes, HazardThreads, HazardThread, Hazard!Places, Hazard!Slots
  <2>3. self' = [self EXCEPT ![t].pc = IF Hazard!Confirmed(t) THEN "swing" ELSE "protect", ![t].old = head]
    BY DEF Hazard!Reread
  <2> QED BY <2>1, <2>2, <2>3, SelfPcOld
<1>4. /\ HazardThread(t) /\ HazardSlot(t)
      /\ self[t].slot \in 0..MaxHazards /\ self[t].i \in 1..MaxHazards
      /\ self[t].old \in Nodes \cup {Null} /\ self[t].mine \in SUBSET Nodes
  BY <1>1, HazardLocalTypes DEF HazardThreads, HazardSlots
<1>5. HazardTypes'
  BY <1>1, <1>2, <1>3, <1>4 DEF HazardTypes, HazardThread, HazardSlot, Becomes, Hazard!Slots
<1>6. HazardThreads' /\ HazardSlots'
  <2>1. HazardThread(t)'
    BY <1>1, <1>2, <1>3, <1>4 DEF HazardThread, HazardTypes, Becomes, Hazard!Confirmed
  <2>2. HazardThreads'
    BY <1>1, <1>3, <2>1 DEF HazardThreads, HazardThread, Becomes
  <2>3. HazardSlot(t)'
    BY <1>1, <1>2, <1>3, <1>4 DEF HazardSlot, HazardThread, HazardTypes, Becomes, Hazard!Slots, Hazard!HasHazardPointer, Hazard!Confirmed
  <2>4. \A s \in Hazard!Slots : s # self[t].slot => pointer'[s] = pointer[s]
    BY <1>1, <1>2 DEF HazardTypes
  <2>5. HazardSlots'
    BY <1>1, <1>2, <1>3, <2>3, <2>4, HazardOwnSlot DEF Becomes
  <2> QED BY <2>2, <2>5
<1>7. HazardNodes(c)' /\ DataApart(HazardHeld(c))'
  <2>1. /\ Hazard!Owned(t)' = Hazard!Owned(t) /\ HazardHolds(t)' = HazardHolds(t)
        /\ (self[t].pc \in {"scan", "keep"} => self[t].current \notin self[t].mine)'
    BY <1>1, <1>2, <1>3, <1>4 DEF HazardThread, HazardNodes, Becomes, Hazard!Owned, HazardHolds, Hazard!Confirmed
  <2>2. \A u \in Threads \ {t} :
           /\ Hazard!Owned(u)' = Hazard!Owned(u) /\ HazardHolds(u)' = HazardHolds(u)
           /\ (self[u].pc \in {"scan", "keep"} => self[u].current \notin self[u].mine)'
    BY <1>1, <1>3 DEF HazardNodes, Becomes, Hazard!Owned, HazardHolds
  <2> QED BY <1>1, <1>2, <2>1, <2>2, HazardStay
<1>8. HazardGuard'
  <2>1. self'[t].pc # "scan"
    BY <1>3 DEF Becomes, Hazard!Confirmed
  <2>2. self'[t].pc = "swing" => head \in Members(c)
    <3>1. self'[t].pc = "swing" => head # Null
      BY <1>2, <1>3 DEF Becomes, Hazard!Confirmed
    <3> QED BY <1>1, <3>1, ListIsEmpty DEF HazardNodes
  <2>3. self'[t].old = head
    BY <1>3 DEF Becomes
  <2>4. self'[t].pc = "swing" =>
          /\ head \in alive
          /\ \A u \in Threads : self[u].pc = "scan" => self[u].current # head
    BY <1>1, <2>2 DEF HazardNodes, Hazard!Owned
  <2> QED BY <1>1, <1>2, <1>3, <2>1, <2>3, <2>4 DEF HazardGuard, Becomes
<1>9. (empties + Cardinality(HazardLooking) <= pops)'
  <2>1. HazardLooking' = HazardLooking
    BY <1>2, <1>3 DEF HazardLooking, Becomes, Hazard!HasHazardPointer, Hazard!Confirmed
  <2> QED BY <1>1, <1>2, <2>1
<1>10. HazardLifo(c, c)
  <2>1. HazardTakes(t)' = HazardTakes(t)
    BY <1>2, <1>3, <1>4 DEF HazardTakes, HazardThread, Becomes, Hazard!Confirmed, Hazard!HasHazardPointer
  <2> QED BY <1>2, <1>3, <2>1, HazardQuiet DEF Becomes
<1> QED BY <1>5, <1>6, <1>7, <1>8, <1>9, <1>10 DEF HazardInv

(* It finds the stack empty.                                                *)
LEMMA HazardRereadEmpty ==
  ASSUME NEW c, HazardInv(c), NEW t \in Threads, Hazard!RereadEmpty(t)
  PROVE  HazardInv(c)' /\ HazardLifo(c, c)
<1>1. /\ HazardTypes /\ HazardThreads /\ HazardSlots /\ HazardNodes(c) /\ HazardGuard
      /\ DataApart(HazardHeld(c)) /\ empties + Cardinality(HazardLooking) <= pops
  BY DEF HazardInv
<1>2. /\ self[t].pc = "reread" /\ head = self[t].old /\ head = Null /\ head' = head
      /\ next' = next /\ data' = data /\ alive' = alive /\ id' = id /\ pointer' = pointer
      /\ nodes_to_reclaim' = nodes_to_reclaim /\ pops' = pops /\ exits' = exits
      /\ out' = out /\ empties' = empties + 1
  BY DEF Hazard!RereadEmpty, Hazard!Confirmed, Hazard!HeadIsNull,
    Hazard!heap, Hazard!hazards, Hazard!calls, Hazard!results
<1>3. Becomes(t, "clear", self[t].slot, self[t].i, self[t].old, self[t].current, self[t].mine)
  <2>1. self \in [Threads -> HazardLocals] /\ self[t] \in HazardLocals
    BY <1>1, HazardLocalTypes
  <2>2. "clear" \in Hazard!Places
    BY <1>1, <1>2, HazardLocalTypes DEF HazardTypes, HazardThreads, HazardThread, Hazard!Places, Hazard!Slots
  <2>3. self' = [self EXCEPT ![t].pc = "clear"]
    BY DEF Hazard!RereadEmpty
  <2> QED BY <2>1, <2>2, <2>3, SelfPc
<1>4. /\ HazardThread(t) /\ HazardSlot(t)
      /\ self[t].slot \in 0..MaxHazards /\ self[t].i \in 1..MaxHazards
      /\ self[t].old \in Nodes \cup {Null} /\ self[t].mine \in SUBSET Nodes
  BY <1>1, HazardLocalTypes DEF HazardThreads, HazardSlots
<1>5. HazardTypes'
  BY <1>1, <1>2, <1>3, <1>4 DEF HazardTypes, HazardThread, HazardSlot, Becomes, Hazard!Slots
<1>6. HazardThreads' /\ HazardSlots'
  <2>1. HazardThread(t)'
    BY <1>1, <1>2, <1>3, <1>4 DEF HazardThread, HazardTypes, Becomes, Hazard!Confirmed
  <2>2. HazardThreads'
    BY <1>1, <1>3, <2>1 DEF HazardThreads, HazardThread, Becomes
  <2>3. HazardSlot(t)'
    BY <1>1, <1>2, <1>3, <1>4 DEF HazardSlot, HazardThread, HazardTypes, Becomes, Hazard!Slots, Hazard!HasHazardPointer, Hazard!Confirmed
  <2>4. \A s \in Hazard!Slots : s # self[t].slot => pointer'[s] = pointer[s]
    BY <1>1, <1>2 DEF HazardTypes
  <2>5. HazardSlots'
    BY <1>1, <1>2, <1>3, <2>3, <2>4, HazardOwnSlot DEF Becomes
  <2> QED BY <2>2, <2>5
<1>7. HazardNodes(c)' /\ DataApart(HazardHeld(c))'
  <2>1. /\ Hazard!Owned(t)' = Hazard!Owned(t) /\ HazardHolds(t)' = HazardHolds(t)
        /\ (self[t].pc \in {"scan", "keep"} => self[t].current \notin self[t].mine)'
    <3>1. /\ self[t].pc = "reread" /\ self'[t].pc = "clear" /\ self[t].old = Null
          /\ self'[t].old = Null /\ self'[t].mine = self[t].mine
      BY <1>2, <1>3 DEF Becomes
    <3>2. {Null} \ {Null} = {}
      OBVIOUS
    <3>3. HazardHolds(t)' = {} /\ HazardHolds(t) = {}
      BY <3>1, <3>2 DEF HazardHolds
    <3>4. Hazard!Owned(t)' = self'[t].mine \cup {} /\ Hazard!Owned(t) = self[t].mine \cup {}
      BY <3>1, <3>2 DEF Hazard!Owned
    <3> QED BY <3>1, <3>3, <3>4
  <2>2. \A u \in Threads \ {t} :
           /\ Hazard!Owned(u)' = Hazard!Owned(u) /\ HazardHolds(u)' = HazardHolds(u)
           /\ (self[u].pc \in {"scan", "keep"} => self[u].current \notin self[u].mine)'
    BY <1>1, <1>3 DEF HazardNodes, Becomes, Hazard!Owned, HazardHolds
  <2> QED BY <1>1, <1>2, <2>1, <2>2, HazardStay
<1>8. HazardGuard'
  <2>1. self'[t].pc \notin {"swing", "scan"} /\ alive \subseteq alive'
    BY <1>2, <1>3 DEF Becomes
  <2> QED BY <1>1, <1>3, <2>1, HazardElsewhere DEF Becomes
<1>9. (empties + Cardinality(HazardLooking) <= pops)'
  <2>1. HazardLooking' = HazardLooking \ {t} /\ t \in HazardLooking
    BY <1>2, <1>3 DEF HazardLooking, Becomes, Hazard!HasHazardPointer, Hazard!Confirmed
  <2>2. HazardLooking \in SUBSET Threads /\ pops \in Nat /\ empties \in Nat
    BY <1>1 DEF HazardLooking, HazardTypes
  <2>3. Cardinality(HazardLooking) \in Nat /\ Cardinality(HazardLooking)' = Cardinality(HazardLooking) - 1
    BY <2>1, <2>2, OneLess
  <2> QED BY <1>1, <1>2, <2>2, <2>3
<1>10. HazardLifo(c, c)
  <2>1. c = << >>
    BY <1>1, <1>2, ListIsEmpty DEF HazardNodes
  <2>2. \A u \in Threads : HazardTakes(u)' = HazardTakes(u)
    BY <1>2, <1>3 DEF HazardTakes, Becomes
  <2>3. HazardTaken' = HazardTaken
    BY <2>2 DEF HazardTaken
  <2> QED BY <1>2, <2>1, <2>3, LifoPopsNothing DEF HazardLifo
<1> QED BY <1>5, <1>6, <1>7, <1>8, <1>9, <1>10 DEF HazardInv

(* It takes the first node out.                                             *)
LEMMA HazardSwing ==
  ASSUME NEW c, HazardInv(c), NEW t \in Threads, Hazard!Swing(t),
         NEW d, d = Tail(c)
  PROVE  HazardInv(d)' /\ HazardLifo(c, d)
<1>1. /\ HazardTypes /\ HazardThreads /\ HazardSlots /\ HazardNodes(c) /\ HazardGuard
      /\ DataApart(HazardHeld(c)) /\ empties + Cardinality(HazardLooking) <= pops
  BY DEF HazardInv
<1>2. /\ self[t].pc = "swing" /\ head = self[t].old /\ head' = next[self[t].old]
      /\ next' = next /\ data' = data /\ alive' = alive /\ id' = id /\ pointer' = pointer
      /\ nodes_to_reclaim' = nodes_to_reclaim /\ pops' = pops /\ exits' = exits
      /\ out' = out /\ empties' = empties
  BY DEF Hazard!Swing,
    Hazard!heap, Hazard!hazards, Hazard!calls, Hazard!results
<1>3. Becomes(t, "clear", self[t].slot, self[t].i, self[t].old, self[t].current, self[t].mine)
  <2>1. self \in [Threads -> HazardLocals] /\ self[t] \in HazardLocals
    BY <1>1, HazardLocalTypes
  <2>2. "clear" \in Hazard!Places
    BY <1>1, <1>2, HazardLocalTypes DEF HazardTypes, HazardThreads, HazardThread, Hazard!Places, Hazard!Slots
  <2>3. self' = [self EXCEPT ![t].pc = "clear"]
    BY DEF Hazard!Swing
  <2> QED BY <2>1, <2>2, <2>3, SelfPc
<1>4. /\ HazardThread(t) /\ HazardSlot(t)
      /\ self[t].slot \in 0..MaxHazards /\ self[t].i \in 1..MaxHazards
      /\ self[t].old \in Nodes \cup {Null} /\ self[t].mine \in SUBSET Nodes
  BY <1>1, HazardLocalTypes DEF HazardThreads, HazardSlots
<1>5. HazardTypes'
  BY <1>1, <1>2, <1>3, <1>4 DEF HazardTypes, HazardThread, HazardSlot, Becomes, Hazard!Slots
<1>6. HazardThreads' /\ HazardSlots'
  <2>1. HazardThread(t)'
    BY <1>1, <1>2, <1>3, <1>4 DEF HazardThread, HazardTypes, Becomes, Hazard!Confirmed
  <2>2. HazardThreads'
    BY <1>1, <1>3, <2>1 DEF HazardThreads, HazardThread, Becomes
  <2>3. HazardSlot(t)'
    BY <1>1, <1>2, <1>3, <1>4 DEF HazardSlot, HazardThread, HazardTypes, Becomes, Hazard!Slots, Hazard!HasHazardPointer, Hazard!Confirmed
  <2>4. \A s \in Hazard!Slots : s # self[t].slot => pointer'[s] = pointer[s]
    BY <1>1, <1>2 DEF HazardTypes
  <2>5. HazardSlots'
    BY <1>1, <1>2, <1>3, <2>3, <2>4, HazardOwnSlot DEF Becomes
  <2> QED BY <2>2, <2>5
<1>7. HazardNodes(d)' /\ DataApart(HazardHeld(d))'
  <2>1. head \in Nodes /\ head # Null /\ Hazard!Owned(t) = {} /\ HazardHolds(t) = {}
    BY <1>1, <1>2, <1>4 DEF HazardThread, Hazard!Owned, HazardHolds
  <2>2. \A u \in Threads : Hazard!Owned(u)' = IF u = t THEN {head} ELSE Hazard!Owned(u)
    BY <1>1, <1>2, <1>3, <1>4, <2>1 DEF HazardThread, Becomes, Hazard!Owned
  <2>3. \A u \in Threads : HazardHolds(u)' = IF u = t THEN {head} ELSE HazardHolds(u)
    BY <1>1, <1>2, <1>3, <1>4, <2>1 DEF Becomes, HazardHolds
  <2>4. /\ ListFrom(Nodes, Null, next[head], next, d)
        /\ Members(d) = Members(c) \ {head} /\ head \in Members(c)
    BY <1>1, <2>1, ListPop DEF HazardNodes
  <2>5. head' = next[head]
    BY <1>2
  <2>6. HazardNodes(d)'
    BY <1>1, <1>2, <1>3, <1>4, <2>1, <2>2, <2>4, <2>5 DEF HazardNodes, Becomes
  <2>7. HazardHeld(d)' = HazardHeld(c)
    BY <2>1, <2>3, <2>4 DEF HazardHeld
  <2> QED BY <1>1, <1>2, <2>6, <2>7 DEF DataApart
<1>8. HazardGuard'
  <2>1. self'[t].pc \notin {"swing", "scan"} /\ alive \subseteq alive'
    BY <1>2, <1>3 DEF Becomes
  <2> QED BY <1>1, <1>3, <2>1, HazardElsewhere DEF Becomes
<1>9. (empties + Cardinality(HazardLooking) <= pops)'
  <2>1. HazardLooking' = HazardLooking \ {t} /\ t \in HazardLooking
    BY <1>2, <1>3 DEF HazardLooking, Becomes, Hazard!HasHazardPointer, Hazard!Confirmed
  <2>2. HazardLooking \in SUBSET Threads /\ pops \in Nat /\ empties \in Nat
    BY <1>1 DEF HazardLooking, HazardTypes
  <2>3. Cardinality(HazardLooking) \in Nat /\ Cardinality(HazardLooking)' = Cardinality(HazardLooking) - 1
    BY <2>1, <2>2, OneLess
  <2> QED BY <1>1, <1>2, <2>2, <2>3
<1>10. HazardLifo(c, d)
  <2>1. head \in Nodes /\ head # Null
    BY <1>2, <1>4 DEF HazardThread
  <2>2. c \in Seq(Nodes) /\ c # << >> /\ Head(c) = head
    BY <1>1, <2>1, ListIsEmpty DEF HazardNodes, ListFrom
  <2>3. \A u \in Threads : HazardTakes(u)' = IF u = t THEN {head} ELSE HazardTakes(u)
    BY <1>2, <1>3, <2>1 DEF HazardTakes, Becomes
  <2>4. HazardTakes(t) = {}
    BY <1>2 DEF HazardTakes
  <2>5. HazardTaken' = HazardTaken \cup {Head(c)}
    BY <2>2, <2>3, <2>4 DEF HazardTaken
  <2>6. LifoStep(Along(data, c), out \cup Elements(data, HazardTaken), empties,
                 Along(data, Tail(c)), out \cup Elements(data, HazardTaken \cup {Head(c)}), empties)
    BY <2>2, LifoPops
  <2> QED BY <1>2, <2>5, <2>6 DEF HazardLifo
<1> QED BY <1>5, <1>6, <1>7, <1>8, <1>9, <1>10 DEF HazardInv

(* It finds another head.                                                   *)
LEMMA HazardSwingFail ==
  ASSUME NEW c, HazardInv(c), NEW t \in Threads, Hazard!SwingFail(t)
  PROVE  HazardInv(c)' /\ HazardLifo(c, c)
<1>1. /\ HazardTypes /\ HazardThreads /\ HazardSlots /\ HazardNodes(c) /\ HazardGuard
      /\ DataApart(HazardHeld(c)) /\ empties + Cardinality(HazardLooking) <= pops
  BY DEF HazardInv
<1>2. /\ self[t].pc = "swing" /\ head # self[t].old /\ head' = head /\ next' = next
      /\ data' = data /\ alive' = alive /\ id' = id /\ pointer' = pointer
      /\ nodes_to_reclaim' = nodes_to_reclaim /\ pops' = pops /\ exits' = exits
      /\ out' = out /\ empties' = empties
  BY DEF Hazard!SwingFail,
    Hazard!heap, Hazard!hazards, Hazard!calls, Hazard!results
<1>3. Becomes(t, "protect", self[t].slot, self[t].i, head, self[t].current, self[t].mine)
  <2>1. self \in [Threads -> HazardLocals] /\ self[t] \in HazardLocals
    BY <1>1, HazardLocalTypes
  <2>2. "protect" \in Hazard!Places /\ head \in Nodes \cup {Null}
    BY <1>1, <1>2, HazardLocalTypes DEF HazardTypes, HazardThreads, HazardThread, Hazard!Places, Hazard!Slots
  <2>3. self' = [self EXCEPT ![t].pc = "protect", ![t].old = head]
    BY DEF Hazard!SwingFail
  <2> QED BY <2>1, <2>2, <2>3, SelfPcOld
<1>4. /\ HazardThread(t) /\ HazardSlot(t)
      /\ self[t].slot \in 0..MaxHazards /\ self[t].i \in 1..MaxHazards
      /\ self[t].old \in Nodes \cup {Null} /\ self[t].mine \in SUBSET Nodes
  BY <1>1, HazardLocalTypes DEF HazardThreads, HazardSlots
<1>5. HazardTypes'
  BY <1>1, <1>2, <1>3, <1>4 DEF HazardTypes, HazardThread, HazardSlot, Becomes, Hazard!Slots
<1>6. HazardThreads' /\ HazardSlots'
  <2>1. HazardThread(t)'
    BY <1>1, <1>2, <1>3, <1>4 DEF HazardThread, HazardTypes, Becomes, Hazard!Confirmed
  <2>2. HazardThreads'
    BY <1>1, <1>3, <2>1 DEF HazardThreads, HazardThread, Becomes
  <2>3. HazardSlot(t)'
    BY <1>1, <1>2, <1>3, <1>4 DEF HazardSlot, HazardThread, HazardTypes, Becomes, Hazard!Slots, Hazard!HasHazardPointer, Hazard!Confirmed
  <2>4. \A s \in Hazard!Slots : s # self[t].slot => pointer'[s] = pointer[s]
    BY <1>1, <1>2 DEF HazardTypes
  <2>5. HazardSlots'
    BY <1>1, <1>2, <1>3, <2>3, <2>4, HazardOwnSlot DEF Becomes
  <2> QED BY <2>2, <2>5
<1>7. HazardNodes(c)' /\ DataApart(HazardHeld(c))'
  <2>1. /\ Hazard!Owned(t)' = Hazard!Owned(t) /\ HazardHolds(t)' = HazardHolds(t)
        /\ (self[t].pc \in {"scan", "keep"} => self[t].current \notin self[t].mine)'
    BY <1>1, <1>2, <1>3, <1>4 DEF HazardThread, HazardNodes, Becomes, Hazard!Owned, HazardHolds, Hazard!Confirmed
  <2>2. \A u \in Threads \ {t} :
           /\ Hazard!Owned(u)' = Hazard!Owned(u) /\ HazardHolds(u)' = HazardHolds(u)
           /\ (self[u].pc \in {"scan", "keep"} => self[u].current \notin self[u].mine)'
    BY <1>1, <1>3 DEF HazardNodes, Becomes, Hazard!Owned, HazardHolds
  <2> QED BY <1>1, <1>2, <2>1, <2>2, HazardStay
<1>8. HazardGuard'
  <2>1. self'[t].pc \notin {"swing", "scan"} /\ alive \subseteq alive'
    BY <1>2, <1>3 DEF Becomes
  <2> QED BY <1>1, <1>3, <2>1, HazardElsewhere DEF Becomes
<1>9. (empties + Cardinality(HazardLooking) <= pops)'
  <2>1. HazardLooking' = HazardLooking
    BY <1>2, <1>3 DEF HazardLooking, Becomes, Hazard!HasHazardPointer, Hazard!Confirmed
  <2> QED BY <1>1, <1>2, <2>1
<1>10. HazardLifo(c, c)
  <2>1. HazardTakes(t)' = HazardTakes(t)
    BY <1>2, <1>3, <1>4 DEF HazardTakes, HazardThread, Becomes, Hazard!Confirmed, Hazard!HasHazardPointer
  <2> QED BY <1>2, <1>3, <2>1, HazardQuiet DEF Becomes
<1> QED BY <1>5, <1>6, <1>7, <1>8, <1>9, <1>10 DEF HazardInv

(* A pop of nothing takes its announcement back.                            *)
LEMMA HazardClearEmpty ==
  ASSUME NEW c, HazardInv(c), NEW t \in Threads, Hazard!ClearEmpty(t)
  PROVE  HazardInv(c)' /\ HazardLifo(c, c)
<1>1. /\ HazardTypes /\ HazardThreads /\ HazardSlots /\ HazardNodes(c) /\ HazardGuard
      /\ DataApart(HazardHeld(c)) /\ empties + Cardinality(HazardLooking) <= pops
  BY DEF HazardInv
<1>2. /\ self[t].pc = "clear" /\ self[t].old = Null /\ head' = head /\ next' = next
      /\ data' = data /\ alive' = alive /\ id' = id
      /\ pointer' = [pointer EXCEPT ![self[t].slot] = Null]
      /\ nodes_to_reclaim' = nodes_to_reclaim /\ pops' = pops /\ exits' = exits
      /\ out' = out /\ empties' = empties
  BY DEF Hazard!ClearEmpty, Hazard!ClearHazard,
    Hazard!heap, Hazard!hazards, Hazard!calls, Hazard!results
<1>3. Becomes(t, "idle", self[t].slot, self[t].i, self[t].old, self[t].current, self[t].mine)
  <2>1. self \in [Threads -> HazardLocals] /\ self[t] \in HazardLocals
    BY <1>1, HazardLocalTypes
  <2>2. "idle" \in Hazard!Places
    BY <1>1, <1>2, HazardLocalTypes DEF HazardTypes, HazardThreads, HazardThread, Hazard!Places, Hazard!Slots
  <2>3. self' = [self EXCEPT ![t].pc = "idle"]
    BY DEF Hazard!ClearEmpty
  <2> QED BY <2>1, <2>2, <2>3, SelfPc
<1>4. /\ HazardThread(t) /\ HazardSlot(t)
      /\ self[t].slot \in 0..MaxHazards /\ self[t].i \in 1..MaxHazards
      /\ self[t].old \in Nodes \cup {Null} /\ self[t].mine \in SUBSET Nodes
  BY <1>1, HazardLocalTypes DEF HazardThreads, HazardSlots
<1>5. HazardTypes'
  BY <1>1, <1>2, <1>3, <1>4 DEF HazardTypes, HazardThread, HazardSlot, Becomes, Hazard!Slots
<1>6. HazardThreads' /\ HazardSlots'
  <2>1. HazardThread(t)'
    BY <1>1, <1>2, <1>3, <1>4 DEF HazardThread, HazardTypes, Becomes, Hazard!Confirmed
  <2>2. HazardThreads'
    BY <1>1, <1>3, <2>1 DEF HazardThreads, HazardThread, Becomes
  <2>3. HazardSlot(t)'
    BY <1>1, <1>2, <1>3, <1>4 DEF HazardSlot, HazardThread, HazardTypes, Becomes, Hazard!Slots, Hazard!HasHazardPointer, Hazard!Confirmed
  <2>4. \A s \in Hazard!Slots : s # self[t].slot => pointer'[s] = pointer[s]
    BY <1>1, <1>2 DEF HazardTypes
  <2>5. HazardSlots'
    BY <1>1, <1>2, <1>3, <2>3, <2>4, HazardOwnSlot DEF Becomes
  <2> QED BY <2>2, <2>5
<1>7. HazardNodes(c)' /\ DataApart(HazardHeld(c))'
  <2>1. /\ Hazard!Owned(t)' = Hazard!Owned(t) /\ HazardHolds(t)' = HazardHolds(t)
        /\ (self[t].pc \in {"scan", "keep"} => self[t].current \notin self[t].mine)'
    BY <1>1, <1>2, <1>3, <1>4 DEF HazardThread, HazardNodes, Becomes, Hazard!Owned, HazardHolds, Hazard!Confirmed
  <2>2. \A u \in Threads \ {t} :
           /\ Hazard!Owned(u)' = Hazard!Owned(u) /\ HazardHolds(u)' = HazardHolds(u)
           /\ (self[u].pc \in {"scan", "keep"} => self[u].current \notin self[u].mine)'
    BY <1>1, <1>3 DEF HazardNodes, Becomes, Hazard!Owned, HazardHolds
  <2> QED BY <1>1, <1>2, <2>1, <2>2, HazardStay
<1>8. HazardGuard'
  <2>1. self'[t].pc \notin {"swing", "scan"} /\ alive \subseteq alive'
    BY <1>2, <1>3 DEF Becomes
  <2> QED BY <1>1, <1>3, <2>1, HazardElsewhere DEF Becomes
<1>9. (empties + Cardinality(HazardLooking) <= pops)'
  <2>1. HazardLooking' = HazardLooking
    BY <1>2, <1>3 DEF HazardLooking, Becomes, Hazard!HasHazardPointer, Hazard!Confirmed
  <2> QED BY <1>1, <1>2, <2>1
<1>10. HazardLifo(c, c)
  <2>1. HazardTakes(t)' = HazardTakes(t)
    BY <1>2, <1>3, <1>4 DEF HazardTakes, HazardThread, Becomes, Hazard!Confirmed, Hazard!HasHazardPointer
  <2> QED BY <1>2, <1>3, <2>1, HazardQuiet DEF Becomes
<1> QED BY <1>5, <1>6, <1>7, <1>8, <1>9, <1>10 DEF HazardInv

(* A pop takes its announcement back and the element.                       *)
LEMMA HazardClearTake ==
  ASSUME NEW c, HazardInv(c), NEW t \in Threads, Hazard!ClearTake(t)
  PROVE  HazardInv(c)' /\ HazardLifo(c, c)
<1>1. /\ HazardTypes /\ HazardThreads /\ HazardSlots /\ HazardNodes(c) /\ HazardGuard
      /\ DataApart(HazardHeld(c)) /\ empties + Cardinality(HazardLooking) <= pops
  BY DEF HazardInv
<1>2. /\ self[t].pc = "clear" /\ self[t].old # Null /\ head' = head /\ next' = next
      /\ data' = [data EXCEPT ![self[t].old] = Null] /\ alive' = alive /\ id' = id
      /\ pointer' = [pointer EXCEPT ![self[t].slot] = Null]
      /\ nodes_to_reclaim' = nodes_to_reclaim /\ pops' = pops /\ exits' = exits
      /\ out' = out \cup {data[self[t].old]} /\ empties' = empties
  BY DEF Hazard!ClearTake, Hazard!ClearHazard,
    Hazard!heap, Hazard!hazards, Hazard!calls, Hazard!results
<1>3. Becomes(t, "scan", self[t].slot, self[t].i, self[t].old, self[t].old, self[t].mine)
  <2>1. self \in [Threads -> HazardLocals] /\ self[t] \in HazardLocals
    BY <1>1, HazardLocalTypes
  <2>2. "scan" \in Hazard!Places /\ self[t].old \in Nodes \cup {Null}
    BY <1>1, <1>2, HazardLocalTypes DEF HazardTypes, HazardThreads, HazardThread, Hazard!Places, Hazard!Slots
  <2>3. self' = [self EXCEPT ![t].pc = "scan", ![t].current = self[t].old]
    BY DEF Hazard!ClearTake
  <2> QED BY <2>1, <2>2, <2>3, SelfPcCurrent
<1>4. /\ HazardThread(t) /\ HazardSlot(t)
      /\ self[t].slot \in 0..MaxHazards /\ self[t].i \in 1..MaxHazards
      /\ self[t].old \in Nodes \cup {Null} /\ self[t].mine \in SUBSET Nodes
  BY <1>1, HazardLocalTypes DEF HazardThreads, HazardSlots
<1>5. HazardTypes'
  <2>1. data[self[t].old] \in Values
    BY <1>1, <1>2 DEF DataApart, HazardHeld, HazardHolds
  <2> QED BY <1>1, <1>2, <1>3, <1>4, <2>1 DEF HazardTypes, HazardThread, HazardSlot, Becomes, Hazard!Slots
<1>6. HazardThreads' /\ HazardSlots'
  <2>1. HazardThread(t)'
    BY <1>1, <1>2, <1>3, <1>4 DEF HazardThread, HazardTypes, Becomes, Hazard!Confirmed
  <2>2. HazardThreads'
    BY <1>1, <1>3, <2>1 DEF HazardThreads, HazardThread, Becomes
  <2>3. HazardSlot(t)'
    BY <1>1, <1>2, <1>3, <1>4 DEF HazardSlot, HazardThread, HazardTypes, Becomes, Hazard!Slots, Hazard!HasHazardPointer, Hazard!Confirmed
  <2>4. \A s \in Hazard!Slots : s # self[t].slot => pointer'[s] = pointer[s]
    BY <1>1, <1>2 DEF HazardTypes
  <2>5. HazardSlots'
    BY <1>1, <1>2, <1>3, <2>3, <2>4, HazardOwnSlot DEF Becomes
  <2> QED BY <2>2, <2>5
<1>7. HazardNodes(c)' /\ DataApart(HazardHeld(c))'
  <2> DEFINE n == self[t].old
  <2>1. n \in Nodes /\ Hazard!Owned(t) = {n} /\ HazardHolds(t) = {n}
    BY <1>1, <1>2, <1>4 DEF HazardThread, Hazard!Owned, HazardHolds
  <2>2. \A u \in Threads : Hazard!Owned(u)' = Hazard!Owned(u)
    BY <1>1, <1>2, <1>3, <1>4, <2>1 DEF HazardThread, Becomes, Hazard!Owned
  <2>3. \A u \in Threads : HazardHolds(u)' = IF u = t THEN {} ELSE HazardHolds(u)
    BY <1>1, <1>2, <1>3, <1>4 DEF Becomes, HazardHolds
  <2>4. HazardNodes(c)'
    BY <1>1, <1>2, <1>3, <1>4, <2>2 DEF HazardNodes, HazardThread, Becomes
  <2>5. n \notin Members(c) /\ \A u \in Threads \ {t} : n \notin HazardHolds(u)
    BY <1>1, <2>1, HazardHeldAlive DEF HazardNodes
  <2>6. HazardHeld(c)' = HazardHeld(c) \ {n} /\ n \in HazardHeld(c)
    BY <2>1, <2>3, <2>5 DEF HazardHeld
  <2>7. \A m \in HazardHeld(c) \ {n} : data'[m] = data[m]
    BY <1>1, <1>2 DEF HazardTypes
  <2>8. out' = out \cup {data[n]}
    BY <1>2
  <2> HIDE DEF n
  <2>9. DataApart(HazardHeld(c))'
    BY <1>1, <2>6, <2>7, <2>8 DEF DataApart
  <2> QED BY <2>4, <2>9
<1>8. HazardGuard'
  <2>1. /\ self'[t].pc = "scan" /\ self'[t].i = 1 /\ alive' = alive
        /\ \A u \in Threads \ {t} : self'[u] = self[u]
    BY <1>2, <1>3, <1>4 DEF Becomes, HazardThread
  <2>2. \A u \in Threads : self[u].pc = "swing" => 1 <= self[u].slot
    BY <1>1, HazardLocalTypes DEF HazardSlots, HazardSlot
  <2> QED BY <1>1, <2>1, <2>2 DEF HazardGuard
<1>9. (empties + Cardinality(HazardLooking) <= pops)'
  <2>1. HazardLooking' = HazardLooking
    BY <1>2, <1>3 DEF HazardLooking, Becomes, Hazard!HasHazardPointer, Hazard!Confirmed
  <2> QED BY <1>1, <1>2, <2>1
<1>10. HazardLifo(c, c)
  <2> DEFINE n == self[t].old
  <2>1. n \in Nodes /\ n \in HazardTakes(t) /\ HazardHolds(t) = {n} /\ n \in Hazard!Owned(t)
    BY <1>2, <1>4 DEF HazardThread, HazardHolds, HazardTakes, Hazard!Owned
  <2>2. n \notin Members(c) /\ \A u \in Threads \ {t} : n \notin HazardTakes(u)
    BY <1>1, <2>1, HazardHeldAlive, HazardTakesHeld DEF HazardNodes
  <2>3. \A u \in Threads : HazardTakes(u)' = HazardTakes(u) \ {n}
    <3>1. HazardTakes(t)' = {} /\ HazardTakes(t) = {n}
      BY <1>2, <1>3, <2>1 DEF HazardTakes, Becomes
    <3>2. ASSUME NEW u \in Threads \ {t} PROVE HazardTakes(u)' = HazardTakes(u)
      BY <1>3 DEF HazardTakes, Becomes
    <3> QED BY <2>2, <3>1, <3>2
  <2>4. HazardTaken' = HazardTaken \ {n} /\ n \in HazardTaken
    BY <2>1, <2>3 DEF HazardTaken
  <2>5. out' = out \cup {data[n]} /\ data' = [data EXCEPT ![n] = Null]
    BY <1>2
  <2> HIDE DEF n
  <2>6. \A m \in Members(c) \cup (HazardTaken \ {n}) : data'[m] = data[m]
    BY <1>1, <2>2, <2>5 DEF HazardTypes
  <2>7. LifoStep(Along(data, c), out \cup Elements(data, HazardTaken), empties,
                 Along(data', c), (out \cup {data[n]}) \cup Elements(data', HazardTaken \ {n}), empties)
    BY <2>4, <2>6, LifoTakes
  <2> QED BY <1>2, <2>4, <2>5, <2>7 DEF HazardLifo
<1> QED BY <1>5, <1>6, <1>7, <1>8, <1>9, <1>10 DEF HazardInv

(* A slot does not announce the node.                                       *)
LEMMA HazardScanNext ==
  ASSUME NEW c, HazardInv(c), NEW t \in Threads, Hazard!ScanNext(t)
  PROVE  HazardInv(c)' /\ HazardLifo(c, c)
<1>1. /\ HazardTypes /\ HazardThreads /\ HazardSlots /\ HazardNodes(c) /\ HazardGuard
      /\ DataApart(HazardHeld(c)) /\ empties + Cardinality(HazardLooking) <= pops
  BY DEF HazardInv
<1>2. /\ self[t].pc = "scan" /\ pointer[self[t].i] # self[t].current
      /\ self[t].i # MaxHazards /\ head' = head /\ next' = next /\ data' = data
      /\ alive' = alive /\ id' = id /\ pointer' = pointer
      /\ nodes_to_reclaim' = nodes_to_reclaim /\ pops' = pops /\ exits' = exits
      /\ out' = out /\ empties' = empties
  BY DEF Hazard!ScanNext, Hazard!Outstanding, Hazard!LastSlot,
    Hazard!heap, Hazard!hazards, Hazard!calls, Hazard!results
<1>3. Becomes(t, self[t].pc, self[t].slot, self[t].i + 1, self[t].old, self[t].current, self[t].mine)
  <2>1. self \in [Threads -> HazardLocals] /\ self[t] \in HazardLocals
    BY <1>1, HazardLocalTypes
  <2>2. (self[t].i + 1) \in Hazard!Slots
    BY <1>1, <1>2, HazardLocalTypes DEF HazardTypes, HazardThreads, HazardThread, Hazard!Places, Hazard!Slots
  <2>3. self' = [self EXCEPT ![t].i = self[t].i + 1]
    BY DEF Hazard!ScanNext
  <2> QED BY <2>1, <2>2, <2>3, SelfI
<1>4. /\ HazardThread(t) /\ HazardSlot(t)
      /\ self[t].slot \in 0..MaxHazards /\ self[t].i \in 1..MaxHazards
      /\ self[t].old \in Nodes \cup {Null} /\ self[t].mine \in SUBSET Nodes
  BY <1>1, HazardLocalTypes DEF HazardThreads, HazardSlots
<1>5. HazardTypes'
  BY <1>1, <1>2, <1>3, <1>4 DEF HazardTypes, HazardThread, HazardSlot, Becomes, Hazard!Slots
<1>6. HazardThreads' /\ HazardSlots'
  <2>1. HazardThread(t)'
    BY <1>1, <1>2, <1>3, <1>4 DEF HazardThread, HazardTypes, Becomes, Hazard!Confirmed
  <2>2. HazardThreads'
    BY <1>1, <1>3, <2>1 DEF HazardThreads, HazardThread, Becomes
  <2>3. HazardSlot(t)'
    BY <1>1, <1>2, <1>3, <1>4 DEF HazardSlot, HazardThread, HazardTypes, Becomes, Hazard!Slots, Hazard!HasHazardPointer, Hazard!Confirmed
  <2>4. \A s \in Hazard!Slots : s # self[t].slot => pointer'[s] = pointer[s]
    BY <1>1, <1>2 DEF HazardTypes
  <2>5. HazardSlots'
    BY <1>1, <1>2, <1>3, <2>3, <2>4, HazardOwnSlot DEF Becomes
  <2> QED BY <2>2, <2>5
<1>7. HazardNodes(c)' /\ DataApart(HazardHeld(c))'
  <2>1. /\ Hazard!Owned(t)' = Hazard!Owned(t) /\ HazardHolds(t)' = HazardHolds(t)
        /\ (self[t].pc \in {"scan", "keep"} => self[t].current \notin self[t].mine)'
    BY <1>1, <1>2, <1>3, <1>4 DEF HazardThread, HazardNodes, Becomes, Hazard!Owned, HazardHolds, Hazard!Confirmed
  <2>2. \A u \in Threads \ {t} :
           /\ Hazard!Owned(u)' = Hazard!Owned(u) /\ HazardHolds(u)' = HazardHolds(u)
           /\ (self[u].pc \in {"scan", "keep"} => self[u].current \notin self[u].mine)'
    BY <1>1, <1>3 DEF HazardNodes, Becomes, Hazard!Owned, HazardHolds
  <2> QED BY <1>1, <1>2, <2>1, <2>2, HazardStay
<1>8. HazardGuard'
  <2>1. ASSUME NEW u \in Threads, self[u].pc = "swing", self[u].old = self[t].current
        PROVE  self[t].i + 1 <= self[u].slot
    <3>1. /\ HazardSlot(u) /\ self[u].slot \in 0..MaxHazards
          /\ self[t].i \in 1..MaxHazards /\ self[t].i <= self[u].slot
      BY <1>1, <1>2, <2>1, HazardLocalTypes DEF HazardSlots, HazardGuard
    <3>2. pointer[self[u].slot] = self[t].current
      BY <2>1, <3>1 DEF HazardSlot
    <3>3. self[u].slot # self[t].i
      BY <1>2, <3>2
    <3> QED BY <3>1, <3>3
  <2>2. \A u \in Threads \ {t} : self'[u] = self[u]
    BY <1>3 DEF Becomes
  <2>3. /\ self'[t].pc = "scan" /\ self'[t].current = self[t].current
        /\ self'[t].i = self[t].i + 1 /\ alive' = alive
    BY <1>2, <1>3 DEF Becomes
  <2> QED BY <1>1, <2>1, <2>2, <2>3 DEF HazardGuard
<1>9. (empties + Cardinality(HazardLooking) <= pops)'
  <2>1. HazardLooking' = HazardLooking
    BY <1>2, <1>3 DEF HazardLooking, Becomes, Hazard!HasHazardPointer, Hazard!Confirmed
  <2> QED BY <1>1, <1>2, <2>1
<1>10. HazardLifo(c, c)
  <2>1. HazardTakes(t)' = HazardTakes(t)
    BY <1>2, <1>3, <1>4 DEF HazardTakes, HazardThread, Becomes, Hazard!Confirmed, Hazard!HasHazardPointer
  <2> QED BY <1>2, <1>3, <2>1, HazardQuiet DEF Becomes
<1> QED BY <1>5, <1>6, <1>7, <1>8, <1>9, <1>10 DEF HazardInv

(* A slot announces the node.                                               *)
LEMMA HazardScanFound ==
  ASSUME NEW c, HazardInv(c), NEW t \in Threads, Hazard!ScanFound(t)
  PROVE  HazardInv(c)' /\ HazardLifo(c, c)
<1>1. /\ HazardTypes /\ HazardThreads /\ HazardSlots /\ HazardNodes(c) /\ HazardGuard
      /\ DataApart(HazardHeld(c)) /\ empties + Cardinality(HazardLooking) <= pops
  BY DEF HazardInv
<1>2. /\ self[t].pc = "scan" /\ head' = head /\ next' = next /\ data' = data
      /\ alive' = alive /\ id' = id /\ pointer' = pointer
      /\ nodes_to_reclaim' = nodes_to_reclaim /\ pops' = pops /\ exits' = exits
      /\ out' = out /\ empties' = empties
  BY DEF Hazard!ScanFound, Hazard!Outstanding,
    Hazard!heap, Hazard!hazards, Hazard!calls, Hazard!results
<1>3. Becomes(t, "keep", self[t].slot, 1, self[t].old, self[t].current, self[t].mine)
  <2>1. self \in [Threads -> HazardLocals] /\ self[t] \in HazardLocals
    BY <1>1, HazardLocalTypes
  <2>2. "keep" \in Hazard!Places /\ 1 \in Hazard!Slots
    BY <1>1, <1>2, HazardLocalTypes DEF HazardTypes, HazardThreads, HazardThread, Hazard!Places, Hazard!Slots
  <2>3. self' = [self EXCEPT ![t].pc = "keep", ![t].i = 1]
    BY DEF Hazard!ScanFound
  <2> QED BY <2>1, <2>2, <2>3, SelfPcI
<1>4. /\ HazardThread(t) /\ HazardSlot(t)
      /\ self[t].slot \in 0..MaxHazards /\ self[t].i \in 1..MaxHazards
      /\ self[t].old \in Nodes \cup {Null} /\ self[t].mine \in SUBSET Nodes
  BY <1>1, HazardLocalTypes DEF HazardThreads, HazardSlots
<1>5. HazardTypes'
  BY <1>1, <1>2, <1>3, <1>4 DEF HazardTypes, HazardThread, HazardSlot, Becomes, Hazard!Slots
<1>6. HazardThreads' /\ HazardSlots'
  <2>1. HazardThread(t)'
    BY <1>1, <1>2, <1>3, <1>4 DEF HazardThread, HazardTypes, Becomes, Hazard!Confirmed
  <2>2. HazardThreads'
    BY <1>1, <1>3, <2>1 DEF HazardThreads, HazardThread, Becomes
  <2>3. HazardSlot(t)'
    BY <1>1, <1>2, <1>3, <1>4 DEF HazardSlot, HazardThread, HazardTypes, Becomes, Hazard!Slots, Hazard!HasHazardPointer, Hazard!Confirmed
  <2>4. \A s \in Hazard!Slots : s # self[t].slot => pointer'[s] = pointer[s]
    BY <1>1, <1>2 DEF HazardTypes
  <2>5. HazardSlots'
    BY <1>1, <1>2, <1>3, <2>3, <2>4, HazardOwnSlot DEF Becomes
  <2> QED BY <2>2, <2>5
<1>7. HazardNodes(c)' /\ DataApart(HazardHeld(c))'
  <2>1. /\ Hazard!Owned(t)' = Hazard!Owned(t) /\ HazardHolds(t)' = HazardHolds(t)
        /\ (self[t].pc \in {"scan", "keep"} => self[t].current \notin self[t].mine)'
    BY <1>1, <1>2, <1>3, <1>4 DEF HazardThread, HazardNodes, Becomes, Hazard!Owned, HazardHolds, Hazard!Confirmed
  <2>2. \A u \in Threads \ {t} :
           /\ Hazard!Owned(u)' = Hazard!Owned(u) /\ HazardHolds(u)' = HazardHolds(u)
           /\ (self[u].pc \in {"scan", "keep"} => self[u].current \notin self[u].mine)'
    BY <1>1, <1>3 DEF HazardNodes, Becomes, Hazard!Owned, HazardHolds
  <2> QED BY <1>1, <1>2, <2>1, <2>2, HazardStay
<1>8. HazardGuard'
  <2>1. self'[t].pc \notin {"swing", "scan"} /\ alive \subseteq alive'
    BY <1>2, <1>3 DEF Becomes
  <2> QED BY <1>1, <1>3, <2>1, HazardElsewhere DEF Becomes
<1>9. (empties + Cardinality(HazardLooking) <= pops)'
  <2>1. HazardLooking' = HazardLooking
    BY <1>2, <1>3 DEF HazardLooking, Becomes, Hazard!HasHazardPointer, Hazard!Confirmed
  <2> QED BY <1>1, <1>2, <2>1
<1>10. HazardLifo(c, c)
  <2>1. HazardTakes(t)' = HazardTakes(t)
    BY <1>2, <1>3, <1>4 DEF HazardTakes, HazardThread, Becomes, Hazard!Confirmed, Hazard!HasHazardPointer
  <2> QED BY <1>2, <1>3, <2>1, HazardQuiet DEF Becomes
<1> QED BY <1>5, <1>6, <1>7, <1>8, <1>9, <1>10 DEF HazardInv

(* No slot announces the node, which is deleted.                            *)
LEMMA HazardDelete ==
  ASSUME NEW c, HazardInv(c), NEW t \in Threads, Hazard!Delete(t)
  PROVE  HazardInv(c)' /\ HazardLifo(c, c)
<1>1. /\ HazardTypes /\ HazardThreads /\ HazardSlots /\ HazardNodes(c) /\ HazardGuard
      /\ DataApart(HazardHeld(c)) /\ empties + Cardinality(HazardLooking) <= pops
  BY DEF HazardInv
<1>2. /\ self[t].pc = "scan" /\ pointer[self[t].i] # self[t].current
      /\ self[t].i = MaxHazards /\ head' = head /\ next' = next /\ data' = data
      /\ alive' = alive \ {self[t].current} /\ id' = id /\ pointer' = pointer
      /\ nodes_to_reclaim' = nodes_to_reclaim /\ pops' = pops /\ exits' = exits
      /\ out' = out /\ empties' = empties
  BY DEF Hazard!Delete, Hazard!Outstanding, Hazard!LastSlot, Hazard!DeleteNode, Hazard!Dealt,
    Hazard!heap, Hazard!hazards, Hazard!calls, Hazard!results
<1>3. Becomes(t, IF self[t].old # Null THEN "sweep" ELSE "next", self[t].slot, 1, self[t].old, Null, self[t].mine)
  <2>1. self \in [Threads -> HazardLocals] /\ self[t] \in HazardLocals
    BY <1>1, HazardLocalTypes
  <2>2. /\ (IF self[t].old # Null THEN "sweep" ELSE "next") \in Hazard!Places
        /\ Null \in Nodes \cup {Null} /\ 1 \in Hazard!Slots
    BY <1>1, <1>2, HazardLocalTypes DEF HazardTypes, HazardThreads, HazardThread, Hazard!Places, Hazard!Slots
  <2>3. self' = [self EXCEPT ![t].pc = IF self[t].old # Null THEN "sweep" ELSE "next", ![t].i = 1, ![t].current = Null]
    BY DEF Hazard!Delete, Hazard!Dealt
  <2> QED BY <2>1, <2>2, <2>3, SelfPcCurrentI
<1>4. /\ HazardThread(t) /\ HazardSlot(t)
      /\ self[t].slot \in 0..MaxHazards /\ self[t].i \in 1..MaxHazards
      /\ self[t].old \in Nodes \cup {Null} /\ self[t].mine \in SUBSET Nodes
  BY <1>1, HazardLocalTypes DEF HazardThreads, HazardSlots
<1>5. HazardTypes'
  BY <1>1, <1>2, <1>3, <1>4 DEF HazardTypes, HazardThread, HazardSlot, Becomes, Hazard!Slots
<1>6. HazardThreads' /\ HazardSlots'
  <2>1. HazardThread(t)'
    BY <1>1, <1>2, <1>3, <1>4 DEF HazardThread, HazardTypes, Becomes, Hazard!Confirmed
  <2>2. HazardThreads'
    BY <1>1, <1>3, <2>1 DEF HazardThreads, HazardThread, Becomes
  <2>3. HazardSlot(t)'
    BY <1>1, <1>2, <1>3, <1>4 DEF HazardSlot, HazardThread, HazardTypes, Becomes, Hazard!Slots, Hazard!HasHazardPointer, Hazard!Confirmed
  <2>4. \A s \in Hazard!Slots : s # self[t].slot => pointer'[s] = pointer[s]
    BY <1>1, <1>2 DEF HazardTypes
  <2>5. HazardSlots'
    BY <1>1, <1>2, <1>3, <2>3, <2>4, HazardOwnSlot DEF Becomes
  <2> QED BY <2>2, <2>5
<1>7. HazardNodes(c)' /\ DataApart(HazardHeld(c))'
  <2> DEFINE n == self[t].current
  <2>1. n \in Hazard!Owned(t)
    BY <1>1, <1>2, <1>4 DEF HazardThread, Hazard!Owned
  <2>2. \A u \in Threads : Hazard!Owned(u)' = IF u = t THEN Hazard!Owned(t) \ {n} ELSE Hazard!Owned(u)
    BY <1>1, <1>2, <1>3, <1>4 DEF HazardThread, HazardNodes, Becomes, Hazard!Owned
  <2>3. \A u \in Threads : HazardHolds(u)' = HazardHolds(u)
    BY <1>1, <1>2, <1>3, <1>4 DEF Becomes, HazardHolds
  <2>4. alive' = alive \ {n}
    BY <1>2
  <2> HIDE DEF n
  <2>5. HazardNodes(c)'
    BY <1>1, <1>2, <1>3, <1>4, <2>1, <2>2, <2>4 DEF HazardNodes, Becomes
  <2>6. HazardHeld(c)' = HazardHeld(c)
    BY <2>3 DEF HazardHeld
  <2> QED BY <1>1, <1>2, <2>5, <2>6 DEF DataApart
<1>8. HazardGuard'
  <2>1. /\ self'[t].pc \notin {"swing", "scan"} /\ alive' = alive \ {self[t].current}
        /\ \A u \in Threads \ {t} : self'[u] = self[u]
    BY <1>2, <1>3 DEF Becomes
  <2>2. ASSUME NEW u \in Threads, self[u].pc = "swing" PROVE self[u].old # self[t].current
    <3> SUFFICES ASSUME self[u].old = self[t].current PROVE FALSE
      OBVIOUS
    <3>1. /\ HazardSlot(u) /\ self[u].slot \in 0..MaxHazards
          /\ self[t].i <= self[u].slot
      BY <1>1, <1>2, <2>2, HazardLocalTypes DEF HazardSlots, HazardGuard
    <3>2. pointer[self[u].slot] = self[t].current
      BY <2>2, <3>1 DEF HazardSlot
    <3> QED BY <1>2, <3>1, <3>2
  <2> QED BY <1>1, <2>1, <2>2 DEF HazardGuard
<1>9. (empties + Cardinality(HazardLooking) <= pops)'
  <2>1. HazardLooking' = HazardLooking
    BY <1>2, <1>3 DEF HazardLooking, Becomes, Hazard!HasHazardPointer, Hazard!Confirmed
  <2> QED BY <1>1, <1>2, <2>1
<1>10. HazardLifo(c, c)
  <2>1. HazardTakes(t)' = HazardTakes(t)
    BY <1>2, <1>3, <1>4 DEF HazardTakes, HazardThread, Becomes, Hazard!Confirmed, Hazard!HasHazardPointer
  <2> QED BY <1>2, <1>3, <2>1, HazardQuiet DEF Becomes
<1> QED BY <1>5, <1>6, <1>7, <1>8, <1>9, <1>10 DEF HazardInv

(* The node goes to nodes_to_reclaim.                                       *)
LEMMA HazardKeep ==
  ASSUME NEW c, HazardInv(c), NEW t \in Threads, Hazard!Keep(t)
  PROVE  HazardInv(c)' /\ HazardLifo(c, c)
<1>1. /\ HazardTypes /\ HazardThreads /\ HazardSlots /\ HazardNodes(c) /\ HazardGuard
      /\ DataApart(HazardHeld(c)) /\ empties + Cardinality(HazardLooking) <= pops
  BY DEF HazardInv
<1>2. /\ self[t].pc = "keep" /\ head' = head /\ next' = next /\ data' = data
      /\ alive' = alive /\ id' = id /\ pointer' = pointer
      /\ nodes_to_reclaim' = nodes_to_reclaim \cup {self[t].current} /\ pops' = pops
      /\ exits' = exits /\ out' = out /\ empties' = empties
  BY DEF Hazard!Keep, Hazard!KeepNode, Hazard!Dealt,
    Hazard!heap, Hazard!hazards, Hazard!calls, Hazard!results
<1>3. Becomes(t, IF self[t].old # Null THEN "sweep" ELSE "next", self[t].slot, 1, self[t].old, Null, self[t].mine)
  <2>1. self \in [Threads -> HazardLocals] /\ self[t] \in HazardLocals
    BY <1>1, HazardLocalTypes
  <2>2. /\ (IF self[t].old # Null THEN "sweep" ELSE "next") \in Hazard!Places
        /\ Null \in Nodes \cup {Null} /\ 1 \in Hazard!Slots
    BY <1>1, <1>2, HazardLocalTypes DEF HazardTypes, HazardThreads, HazardThread, Hazard!Places, Hazard!Slots
  <2>3. self' = [self EXCEPT ![t].pc = IF self[t].old # Null THEN "sweep" ELSE "next", ![t].i = 1, ![t].current = Null]
    BY DEF Hazard!Keep, Hazard!Dealt
  <2> QED BY <2>1, <2>2, <2>3, SelfPcCurrentI
<1>4. /\ HazardThread(t) /\ HazardSlot(t)
      /\ self[t].slot \in 0..MaxHazards /\ self[t].i \in 1..MaxHazards
      /\ self[t].old \in Nodes \cup {Null} /\ self[t].mine \in SUBSET Nodes
  BY <1>1, HazardLocalTypes DEF HazardThreads, HazardSlots
<1>5. HazardTypes'
  BY <1>1, <1>2, <1>3, <1>4 DEF HazardTypes, HazardThread, HazardSlot, Becomes, Hazard!Slots
<1>6. HazardThreads' /\ HazardSlots'
  <2>1. HazardThread(t)'
    BY <1>1, <1>2, <1>3, <1>4 DEF HazardThread, HazardTypes, Becomes, Hazard!Confirmed
  <2>2. HazardThreads'
    BY <1>1, <1>3, <2>1 DEF HazardThreads, HazardThread, Becomes
  <2>3. HazardSlot(t)'
    BY <1>1, <1>2, <1>3, <1>4 DEF HazardSlot, HazardThread, HazardTypes, Becomes, Hazard!Slots, Hazard!HasHazardPointer, Hazard!Confirmed
  <2>4. \A s \in Hazard!Slots : s # self[t].slot => pointer'[s] = pointer[s]
    BY <1>1, <1>2 DEF HazardTypes
  <2>5. HazardSlots'
    BY <1>1, <1>2, <1>3, <2>3, <2>4, HazardOwnSlot DEF Becomes
  <2> QED BY <2>2, <2>5
<1>7. HazardNodes(c)' /\ DataApart(HazardHeld(c))'
  <2> DEFINE n == self[t].current
  <2>1. n \in Hazard!Owned(t)
    BY <1>1, <1>2, <1>4 DEF HazardThread, Hazard!Owned
  <2>2. \A u \in Threads : Hazard!Owned(u)' = IF u = t THEN Hazard!Owned(t) \ {n} ELSE Hazard!Owned(u)
    BY <1>1, <1>2, <1>3, <1>4 DEF HazardThread, HazardNodes, Becomes, Hazard!Owned
  <2>3. \A u \in Threads : HazardHolds(u)' = HazardHolds(u)
    BY <1>1, <1>2, <1>3, <1>4 DEF Becomes, HazardHolds
  <2>4. nodes_to_reclaim' = nodes_to_reclaim \cup {n}
    BY <1>2
  <2> HIDE DEF n
  <2>5. HazardNodes(c)'
    BY <1>1, <1>2, <1>3, <1>4, <2>1, <2>2, <2>4 DEF HazardNodes, Becomes
  <2>6. HazardHeld(c)' = HazardHeld(c)
    BY <2>3 DEF HazardHeld
  <2> QED BY <1>1, <1>2, <2>5, <2>6 DEF DataApart
<1>8. HazardGuard'
  <2>1. self'[t].pc \notin {"swing", "scan"} /\ alive \subseteq alive'
    BY <1>2, <1>3 DEF Becomes
  <2> QED BY <1>1, <1>3, <2>1, HazardElsewhere DEF Becomes
<1>9. (empties + Cardinality(HazardLooking) <= pops)'
  <2>1. HazardLooking' = HazardLooking
    BY <1>2, <1>3 DEF HazardLooking, Becomes, Hazard!HasHazardPointer, Hazard!Confirmed
  <2> QED BY <1>1, <1>2, <2>1
<1>10. HazardLifo(c, c)
  <2>1. HazardTakes(t)' = HazardTakes(t)
    BY <1>2, <1>3, <1>4 DEF HazardTakes, HazardThread, Becomes, Hazard!Confirmed, Hazard!HasHazardPointer
  <2> QED BY <1>2, <1>3, <2>1, HazardQuiet DEF Becomes
<1> QED BY <1>5, <1>6, <1>7, <1>8, <1>9, <1>10 DEF HazardInv

(* A pop takes nodes_to_reclaim.                                            *)
LEMMA HazardSweep ==
  ASSUME NEW c, HazardInv(c), NEW t \in Threads, Hazard!Sweep(t)
  PROVE  HazardInv(c)' /\ HazardLifo(c, c)
<1>1. /\ HazardTypes /\ HazardThreads /\ HazardSlots /\ HazardNodes(c) /\ HazardGuard
      /\ DataApart(HazardHeld(c)) /\ empties + Cardinality(HazardLooking) <= pops
  BY DEF HazardInv
<1>2. /\ self[t].pc = "sweep" /\ head' = head /\ next' = next /\ data' = data
      /\ alive' = alive /\ id' = id /\ pointer' = pointer /\ nodes_to_reclaim' = {}
      /\ pops' = pops /\ exits' = exits /\ out' = out /\ empties' = empties
  BY DEF Hazard!Sweep,
    Hazard!heap, Hazard!hazards, Hazard!calls, Hazard!results
<1>3. Becomes(t, "next", self[t].slot, self[t].i, Null, self[t].current, nodes_to_reclaim)
  <2>1. self \in [Threads -> HazardLocals] /\ self[t] \in HazardLocals
    BY <1>1, HazardLocalTypes
  <2>2. /\ "next" \in Hazard!Places /\ Null \in Nodes \cup {Null}
        /\ nodes_to_reclaim \in SUBSET Nodes
    BY <1>1, <1>2, HazardLocalTypes DEF HazardTypes, HazardThreads, HazardThread, Hazard!Places, Hazard!Slots
  <2>3. self' = [self EXCEPT ![t].pc = "next", ![t].old = Null, ![t].mine = nodes_to_reclaim]
    BY DEF Hazard!Sweep
  <2> QED BY <2>1, <2>2, <2>3, SelfPcOldMine
<1>4. /\ HazardThread(t) /\ HazardSlot(t)
      /\ self[t].slot \in 0..MaxHazards /\ self[t].i \in 1..MaxHazards
      /\ self[t].old \in Nodes \cup {Null} /\ self[t].mine \in SUBSET Nodes
  BY <1>1, HazardLocalTypes DEF HazardThreads, HazardSlots
<1>5. HazardTypes'
  BY <1>1, <1>2, <1>3, <1>4 DEF HazardTypes, HazardThread, HazardSlot, Becomes, Hazard!Slots
<1>6. HazardThreads' /\ HazardSlots'
  <2>1. HazardThread(t)'
    BY <1>1, <1>2, <1>3, <1>4 DEF HazardThread, HazardTypes, Becomes, Hazard!Confirmed
  <2>2. HazardThreads'
    BY <1>1, <1>3, <2>1 DEF HazardThreads, HazardThread, Becomes
  <2>3. HazardSlot(t)'
    BY <1>1, <1>2, <1>3, <1>4 DEF HazardSlot, HazardThread, HazardTypes, Becomes, Hazard!Slots, Hazard!HasHazardPointer, Hazard!Confirmed
  <2>4. \A s \in Hazard!Slots : s # self[t].slot => pointer'[s] = pointer[s]
    BY <1>1, <1>2 DEF HazardTypes
  <2>5. HazardSlots'
    BY <1>1, <1>2, <1>3, <2>3, <2>4, HazardOwnSlot DEF Becomes
  <2> QED BY <2>2, <2>5
<1>7. HazardNodes(c)' /\ DataApart(HazardHeld(c))'
  <2>1. \A u \in Threads : Hazard!Owned(u)' = IF u = t THEN nodes_to_reclaim ELSE Hazard!Owned(u)
    BY <1>1, <1>2, <1>3, <1>4 DEF HazardThread, Becomes, Hazard!Owned
  <2>2. Hazard!Owned(t) = {}
    BY <1>1, <1>2, <1>4 DEF HazardThread, Hazard!Owned
  <2>3. \A u \in Threads : HazardHolds(u)' = HazardHolds(u)
    BY <1>1, <1>2, <1>3, <1>4 DEF Becomes, HazardHolds
  <2>4. HazardNodes(c)'
    BY <1>1, <1>2, <1>3, <1>4, <2>1, <2>2 DEF HazardNodes, Becomes
  <2>5. HazardHeld(c)' = HazardHeld(c)
    BY <2>3 DEF HazardHeld
  <2> QED BY <1>1, <1>2, <2>4, <2>5 DEF DataApart
<1>8. HazardGuard'
  <2>1. self'[t].pc \notin {"swing", "scan"} /\ alive \subseteq alive'
    BY <1>2, <1>3 DEF Becomes
  <2> QED BY <1>1, <1>3, <2>1, HazardElsewhere DEF Becomes
<1>9. (empties + Cardinality(HazardLooking) <= pops)'
  <2>1. HazardLooking' = HazardLooking
    BY <1>2, <1>3 DEF HazardLooking, Becomes, Hazard!HasHazardPointer, Hazard!Confirmed
  <2> QED BY <1>1, <1>2, <2>1
<1>10. HazardLifo(c, c)
  <2>1. HazardTakes(t)' = HazardTakes(t)
    BY <1>2, <1>3, <1>4 DEF HazardTakes, HazardThread, Becomes, Hazard!Confirmed, Hazard!HasHazardPointer
  <2> QED BY <1>2, <1>3, <2>1, HazardQuiet DEF Becomes
<1> QED BY <1>5, <1>6, <1>7, <1>8, <1>9, <1>10 DEF HazardInv

(* The next of the nodes it took.                                           *)
LEMMA HazardSweepNext ==
  ASSUME NEW c, HazardInv(c), NEW t \in Threads, NEW n \in Nodes, Hazard!SweepNext(t, n)
  PROVE  HazardInv(c)' /\ HazardLifo(c, c)
<1>1. /\ HazardTypes /\ HazardThreads /\ HazardSlots /\ HazardNodes(c) /\ HazardGuard
      /\ DataApart(HazardHeld(c)) /\ empties + Cardinality(HazardLooking) <= pops
  BY DEF HazardInv
<1>2. /\ self[t].pc = "next" /\ n \in self[t].mine /\ head' = head /\ next' = next
      /\ data' = data /\ alive' = alive /\ id' = id /\ pointer' = pointer
      /\ nodes_to_reclaim' = nodes_to_reclaim /\ pops' = pops /\ exits' = exits
      /\ out' = out /\ empties' = empties
  BY DEF Hazard!SweepNext,
    Hazard!heap, Hazard!hazards, Hazard!calls, Hazard!results
<1>3. Becomes(t, "scan", self[t].slot, self[t].i, self[t].old, n, self[t].mine \ {n})
  <2>1. self \in [Threads -> HazardLocals] /\ self[t] \in HazardLocals
    BY <1>1, HazardLocalTypes
  <2>2. /\ "scan" \in Hazard!Places /\ n \in Nodes \cup {Null}
        /\ (self[t].mine \ {n}) \in SUBSET Nodes
    BY <1>1, <1>2, HazardLocalTypes DEF HazardTypes, HazardThreads, HazardThread, Hazard!Places, Hazard!Slots
  <2>3. self' = [self EXCEPT ![t].pc = "scan", ![t].current = n, ![t].mine = self[t].mine \ {n}]
    BY DEF Hazard!SweepNext
  <2> QED BY <2>1, <2>2, <2>3, SelfPcCurrentMine
<1>4. /\ HazardThread(t) /\ HazardSlot(t)
      /\ self[t].slot \in 0..MaxHazards /\ self[t].i \in 1..MaxHazards
      /\ self[t].old \in Nodes \cup {Null} /\ self[t].mine \in SUBSET Nodes
  BY <1>1, HazardLocalTypes DEF HazardThreads, HazardSlots
<1>5. HazardTypes'
  BY <1>1, <1>2, <1>3, <1>4 DEF HazardTypes, HazardThread, HazardSlot, Becomes, Hazard!Slots
<1>6. HazardThreads' /\ HazardSlots'
  <2>1. HazardThread(t)'
    BY <1>1, <1>2, <1>3, <1>4 DEF HazardThread, HazardTypes, Becomes, Hazard!Confirmed
  <2>2. HazardThreads'
    BY <1>1, <1>3, <2>1 DEF HazardThreads, HazardThread, Becomes
  <2>3. HazardSlot(t)'
    BY <1>1, <1>2, <1>3, <1>4 DEF HazardSlot, HazardThread, HazardTypes, Becomes, Hazard!Slots, Hazard!HasHazardPointer, Hazard!Confirmed
  <2>4. \A s \in Hazard!Slots : s # self[t].slot => pointer'[s] = pointer[s]
    BY <1>1, <1>2 DEF HazardTypes
  <2>5. HazardSlots'
    BY <1>1, <1>2, <1>3, <2>3, <2>4, HazardOwnSlot DEF Becomes
  <2> QED BY <2>2, <2>5
<1>7. HazardNodes(c)' /\ DataApart(HazardHeld(c))'
  <2>1. /\ Hazard!Owned(t)' = Hazard!Owned(t) /\ HazardHolds(t)' = HazardHolds(t)
        /\ (self[t].pc \in {"scan", "keep"} => self[t].current \notin self[t].mine)'
    BY <1>1, <1>2, <1>3, <1>4 DEF HazardThread, HazardNodes, Becomes, Hazard!Owned, HazardHolds, Hazard!Confirmed
  <2>2. \A u \in Threads \ {t} :
           /\ Hazard!Owned(u)' = Hazard!Owned(u) /\ HazardHolds(u)' = HazardHolds(u)
           /\ (self[u].pc \in {"scan", "keep"} => self[u].current \notin self[u].mine)'
    BY <1>1, <1>3 DEF HazardNodes, Becomes, Hazard!Owned, HazardHolds
  <2> QED BY <1>1, <1>2, <2>1, <2>2, HazardStay
<1>8. HazardGuard'
  <2>1. /\ self'[t].pc = "scan" /\ self'[t].i = 1 /\ alive' = alive
        /\ \A u \in Threads \ {t} : self'[u] = self[u]
    BY <1>2, <1>3, <1>4 DEF Becomes, HazardThread
  <2>2. \A u \in Threads : self[u].pc = "swing" => 1 <= self[u].slot
    BY <1>1, HazardLocalTypes DEF HazardSlots, HazardSlot
  <2> QED BY <1>1, <2>1, <2>2 DEF HazardGuard
<1>9. (empties + Cardinality(HazardLooking) <= pops)'
  <2>1. HazardLooking' = HazardLooking
    BY <1>2, <1>3 DEF HazardLooking, Becomes, Hazard!HasHazardPointer, Hazard!Confirmed
  <2> QED BY <1>1, <1>2, <2>1
<1>10. HazardLifo(c, c)
  <2>1. HazardTakes(t)' = HazardTakes(t)
    BY <1>2, <1>3, <1>4 DEF HazardTakes, HazardThread, Becomes, Hazard!Confirmed, Hazard!HasHazardPointer
  <2> QED BY <1>2, <1>3, <2>1, HazardQuiet DEF Becomes
<1> QED BY <1>5, <1>6, <1>7, <1>8, <1>9, <1>10 DEF HazardInv

(* All have been dealt with.                                                *)
LEMMA HazardSweepEnd ==
  ASSUME NEW c, HazardInv(c), NEW t \in Threads, Hazard!SweepEnd(t)
  PROVE  HazardInv(c)' /\ HazardLifo(c, c)
<1>1. /\ HazardTypes /\ HazardThreads /\ HazardSlots /\ HazardNodes(c) /\ HazardGuard
      /\ DataApart(HazardHeld(c)) /\ empties + Cardinality(HazardLooking) <= pops
  BY DEF HazardInv
<1>2. /\ self[t].pc = "next" /\ self[t].mine = {} /\ head' = head /\ next' = next
      /\ data' = data /\ alive' = alive /\ id' = id /\ pointer' = pointer
      /\ nodes_to_reclaim' = nodes_to_reclaim /\ pops' = pops /\ exits' = exits
      /\ out' = out /\ empties' = empties
  BY DEF Hazard!SweepEnd,
    Hazard!heap, Hazard!hazards, Hazard!calls, Hazard!results
<1>3. Becomes(t, "idle", self[t].slot, self[t].i, self[t].old, self[t].current, self[t].mine)
  <2>1. self \in [Threads -> HazardLocals] /\ self[t] \in HazardLocals
    BY <1>1, HazardLocalTypes
  <2>2. "idle" \in Hazard!Places
    BY <1>1, <1>2, HazardLocalTypes DEF HazardTypes, HazardThreads, HazardThread, Hazard!Places, Hazard!Slots
  <2>3. self' = [self EXCEPT ![t].pc = "idle"]
    BY DEF Hazard!SweepEnd
  <2> QED BY <2>1, <2>2, <2>3, SelfPc
<1>4. /\ HazardThread(t) /\ HazardSlot(t)
      /\ self[t].slot \in 0..MaxHazards /\ self[t].i \in 1..MaxHazards
      /\ self[t].old \in Nodes \cup {Null} /\ self[t].mine \in SUBSET Nodes
  BY <1>1, HazardLocalTypes DEF HazardThreads, HazardSlots
<1>5. HazardTypes'
  BY <1>1, <1>2, <1>3, <1>4 DEF HazardTypes, HazardThread, HazardSlot, Becomes, Hazard!Slots
<1>6. HazardThreads' /\ HazardSlots'
  <2>1. HazardThread(t)'
    BY <1>1, <1>2, <1>3, <1>4 DEF HazardThread, HazardTypes, Becomes, Hazard!Confirmed
  <2>2. HazardThreads'
    BY <1>1, <1>3, <2>1 DEF HazardThreads, HazardThread, Becomes
  <2>3. HazardSlot(t)'
    BY <1>1, <1>2, <1>3, <1>4 DEF HazardSlot, HazardThread, HazardTypes, Becomes, Hazard!Slots, Hazard!HasHazardPointer, Hazard!Confirmed
  <2>4. \A s \in Hazard!Slots : s # self[t].slot => pointer'[s] = pointer[s]
    BY <1>1, <1>2 DEF HazardTypes
  <2>5. HazardSlots'
    BY <1>1, <1>2, <1>3, <2>3, <2>4, HazardOwnSlot DEF Becomes
  <2> QED BY <2>2, <2>5
<1>7. HazardNodes(c)' /\ DataApart(HazardHeld(c))'
  <2>1. /\ Hazard!Owned(t)' = Hazard!Owned(t) /\ HazardHolds(t)' = HazardHolds(t)
        /\ (self[t].pc \in {"scan", "keep"} => self[t].current \notin self[t].mine)'
    BY <1>1, <1>2, <1>3, <1>4 DEF HazardThread, HazardNodes, Becomes, Hazard!Owned, HazardHolds, Hazard!Confirmed
  <2>2. \A u \in Threads \ {t} :
           /\ Hazard!Owned(u)' = Hazard!Owned(u) /\ HazardHolds(u)' = HazardHolds(u)
           /\ (self[u].pc \in {"scan", "keep"} => self[u].current \notin self[u].mine)'
    BY <1>1, <1>3 DEF HazardNodes, Becomes, Hazard!Owned, HazardHolds
  <2> QED BY <1>1, <1>2, <2>1, <2>2, HazardStay
<1>8. HazardGuard'
  <2>1. self'[t].pc \notin {"swing", "scan"} /\ alive \subseteq alive'
    BY <1>2, <1>3 DEF Becomes
  <2> QED BY <1>1, <1>3, <2>1, HazardElsewhere DEF Becomes
<1>9. (empties + Cardinality(HazardLooking) <= pops)'
  <2>1. HazardLooking' = HazardLooking
    BY <1>2, <1>3 DEF HazardLooking, Becomes, Hazard!HasHazardPointer, Hazard!Confirmed
  <2> QED BY <1>1, <1>2, <2>1
<1>10. HazardLifo(c, c)
  <2>1. HazardTakes(t)' = HazardTakes(t)
    BY <1>2, <1>3, <1>4 DEF HazardTakes, HazardThread, Becomes, Hazard!Confirmed, Hazard!HasHazardPointer
  <2> QED BY <1>2, <1>3, <2>1, HazardQuiet DEF Becomes
<1> QED BY <1>5, <1>6, <1>7, <1>8, <1>9, <1>10 DEF HazardInv

(* The list is the one that Chain follows.                                  *)
LEMMA HazardPath ==
  ASSUME NEW c, HazardInv(c)
  PROVE  Hazard!Linked = Members(c) /\ Hazard!Chain = c
<1> DEFINE K == Cardinality(Nodes)
           p == PathFrom(head, next, K)
<1>1. Hazard!Path = p
  BY DEF PathFrom, Hazard!Path, Hazard!Cardinality, Cardinality, Hazard!IsFiniteSet, IsFiniteSet
<1> HIDE DEF p, K
<1>2. Whole(c, p) /\ c \in Seq(Nodes)
  BY ListWhole DEF p, K, HazardInv, HazardNodes, HazardTypes, ListFrom
<1>3. Hazard!Linked = Members(c)
  <2>1. { p[k] : k \in 0..K } \ {Null} = Members(c)
    BY <1>2 DEF K, Whole
  <2>2. Hazard!Linked = { p[k] : k \in 0..K } \ {Null}
    BY <1>1 DEF K, Hazard!Linked, Hazard!Cardinality, Cardinality, Hazard!IsFiniteSet, IsFiniteSet
  <2> QED BY <2>1, <2>2
<1>4. Hazard!Chain = [k \in 1..Len(c) |-> p[k - 1]]
  BY <1>1, <1>2 DEF K, Whole, Hazard!Chain, Hazard!Cardinality, Cardinality,
    Hazard!IsFiniteSet, IsFiniteSet
<1>5. [k \in 1..Len(c) |-> p[k - 1]] = c
  BY <1>2, ListIsItself DEF Whole
<1> QED BY <1>3, <1>4, <1>5

(* And after a step.                                                        *)
LEMMA HazardPathNext ==
  ASSUME NEW c, HazardInv(c)'
  PROVE  Hazard!Chain' = c
<1> DEFINE K == Cardinality(Nodes)
           p == PathFrom(head', next', K)
<1>1. Hazard!Path' = p
  BY DEF PathFrom, Hazard!Path, Hazard!Cardinality, Cardinality, Hazard!IsFiniteSet, IsFiniteSet
<1> HIDE DEF p, K
<1>2. Whole(c, p) /\ c \in Seq(Nodes)
  BY ListWhole DEF p, K, HazardInv, HazardNodes, HazardTypes, ListFrom
<1>3. Hazard!Chain' = [k \in 1..Len(c) |-> p[k - 1]]
  BY <1>1, <1>2 DEF K, Whole, Hazard!Chain, Hazard!Cardinality, Cardinality,
    Hazard!IsFiniteSet, IsFiniteSet
<1>4. [k \in 1..Len(c) |-> p[k - 1]] = c
  BY <1>2, ListIsItself DEF Whole
<1> QED BY <1>3, <1>4

(* What the invariant says of the properties of HazardStack.                *)
LEMMA HazardMeans ==
  ASSUME NEW c, HazardInv(c)
  PROVE  /\ Hazard!TypeOK /\ Hazard!NoUseAfterDelete /\ Hazard!OneOwner
         /\ Hazard!SlotsHandedOver
<1>1. /\ HazardTypes /\ HazardThreads /\ HazardSlots /\ HazardNodes(c) /\ HazardGuard
      /\ empties + Cardinality(HazardLooking) <= pops
  BY DEF HazardInv
<1>2. Hazard!Linked = Members(c)
  BY HazardPath
<1>3. Hazard!TypeOK
  <2>1. empties \in 0..MaxPops
    <3>1. empties \in Nat /\ pops \in 0..MaxPops /\ MaxPops \in Nat
      BY <1>1 DEF HazardTypes
    <3>2. HazardLooking \in SUBSET Threads
      BY DEF HazardLooking
    <3>3. Cardinality(HazardLooking) \in Nat
      BY <3>2, FS_Subset, FS_CardinalityType
    <3> QED BY <1>1, <3>1, <3>3
  <2>2. \A t \in Threads :
          /\ self[t].pc \in {"push", "swing"} => self[t].old \in Nodes
          /\ self[t].pc \in {"load", "protect", "reread", "swing", "clear", "exit"}
               => self[t].slot # 0
    BY <1>1 DEF HazardThreads, HazardThread, HazardSlots, HazardSlot
  <2> QED BY <1>1, <2>1, <2>2 DEF HazardTypes, HazardLocals, Hazard!TypeOK
<1>4. Hazard!NoUseAfterDelete
  BY <1>1, <1>2 DEF HazardNodes, HazardGuard, Hazard!NoUseAfterDelete
<1>5. Hazard!OneOwner
  <2> SUFFICES ASSUME NEW n \in alive
               PROVE  Cardinality({ t \in Threads : n \in Hazard!Owned(t) })
                        + (IF n \in Members(c) THEN 1 ELSE 0)
                        + (IF n \in nodes_to_reclaim THEN 1 ELSE 0) = 1
    BY <1>2 DEF Hazard!OneOwner, Hazard!Cardinality, Cardinality, Hazard!IsFiniteSet, IsFiniteSet
  <2> DEFINE own == { t \in Threads : n \in Hazard!Owned(t) }
  <2>1. CASE n \in Members(c) \cup nodes_to_reclaim
    <3>1. own = {}
      BY <1>1, <2>1 DEF HazardNodes
    <3>2. Cardinality(own) = 0
      BY <3>1, FS_EmptySet
    <3>3. ~(n \in Members(c) /\ n \in nodes_to_reclaim)
      BY <1>1 DEF HazardNodes
    <3> QED BY <2>1, <3>2, <3>3
  <2>2. CASE n \notin Members(c) \cup nodes_to_reclaim
    <3>1. PICK t \in Threads : n \in Hazard!Owned(t)
      BY <1>1, <2>2 DEF HazardNodes
    <3>2. own = {t}
      BY <1>1, <3>1 DEF HazardNodes
    <3>3. Cardinality(own) = 1
      BY <3>2, FS_Singleton
    <3> QED BY <2>2, <3>3
  <2> QED BY <2>1, <2>2
<1>6. Hazard!SlotsHandedOver
  BY <1>1 DEF HazardSlots, HazardSlot, Hazard!SlotsHandedOver
<1> QED BY <1>3, <1>4, <1>5, <1>6

(* The stack is empty, and no thread has anything.                          *)
LEMMA HazardInit ==
  ASSUME Hazard!Init
  PROVE  HazardInv(<< >>) /\ Hazard!Lifo!Init
<1>1. HazardTypes
  BY DEF Hazard!Init, HazardTypes, HazardLocals, Hazard!Places, Hazard!Slots
<1>2. /\ \A t \in Threads : /\ self[t].pc = "idle" /\ self[t].slot = 0 /\ self[t].i = 1
                            /\ self[t].old = Null /\ self[t].mine = {}
      /\ head = Null /\ alive = {} /\ nodes_to_reclaim = {} /\ empties = 0 /\ pops = 0 /\ out = {}
      /\ \A s \in Hazard!Slots : pointer[s] = Null
  BY DEF Hazard!Init
<1>3. HazardThreads /\ HazardSlots
  BY <1>2 DEF HazardThreads, HazardThread, HazardSlots, HazardSlot
<1>4. ListFrom(Nodes, Null, head, next, << >>) /\ Members(<< >>) = {}
  <2>1. ListFrom(Nodes, Null, Null, next, << >>) /\ Members(<< >>) = {}
    BY ListEmpty
  <2> QED BY <1>2, <2>1
<1>5. \A t \in Threads : Hazard!Owned(t) = {} /\ HazardHolds(t) = {} /\ HazardTakes(t) = {}
  BY <1>2 DEF Hazard!Owned, HazardHolds, HazardTakes
<1>6. HazardNodes(<< >>)
  BY <1>2, <1>4, <1>5 DEF HazardNodes
<1>7. HazardGuard
  BY <1>2 DEF HazardGuard
<1>8. HazardHeld(<< >>) = {}
  BY <1>4, <1>5 DEF HazardHeld
<1>9. DataApart(HazardHeld(<< >>))
  BY <1>8 DEF DataApart
<1>10. empties + Cardinality(HazardLooking) <= pops
  <2>1. HazardLooking = {}
    BY <1>2 DEF HazardLooking
  <2> QED BY <1>2, <2>1, FS_EmptySet
<1>11. HazardInv(<< >>)
  BY <1>1, <1>3, <1>6, <1>7, <1>9, <1>10 DEF HazardInv
<1>12. Hazard!Chain = << >>
  BY <1>11, HazardPath
<1>13. Hazard!Popped = {}
  BY <1>2 DEF Hazard!Popped
<1>14. [k \in 1..Len(Hazard!Chain) |-> data[Hazard!Chain[k]]] = << >>
  BY <1>12, AlongEmpty DEF Along
<1> QED BY <1>2, <1>11, <1>13, <1>14 DEF Hazard!Lifo!Init

(* Every step of HazardStack.                                               *)
LEMMA HazardStep ==
  ASSUME NEW c, HazardInv(c), Hazard!Next
  PROVE  \E d : HazardInv(d)' /\ HazardLifo(c, d)
<1>1. PICK t \in Threads :
        \/ \E x \in Values, n \in Nodes : Hazard!Push(t, x, n)
        \/ Hazard!PushLink(t) \/ Hazard!PushRetry(t)
        \/ Hazard!Pop(t) \/ Hazard!Claim(t) \/ Hazard!ClaimNext(t) \/ Hazard!ClaimThrows(t)
        \/ Hazard!ExitClear(t) \/ Hazard!ExitFree(t)
        \/ Hazard!Load(t) \/ Hazard!Protect(t) \/ Hazard!Reread(t) \/ Hazard!RereadEmpty(t)
        \/ Hazard!Swing(t) \/ Hazard!SwingFail(t) \/ Hazard!ClearEmpty(t) \/ Hazard!ClearTake(t)
        \/ Hazard!ScanNext(t) \/ Hazard!ScanFound(t) \/ Hazard!Delete(t) \/ Hazard!Keep(t)
        \/ Hazard!Sweep(t) \/ (\E n \in Nodes : Hazard!SweepNext(t, n)) \/ Hazard!SweepEnd(t)
  BY DEF Hazard!Next
<1>2. CASE \E x \in Values, n \in Nodes : Hazard!Push(t, x, n)
  BY <1>2, HazardPush
<1>3. CASE Hazard!PushLink(t)
  BY <1>3, HazardPushLink
<1>4. CASE Hazard!PushRetry(t) \/ Hazard!Pop(t)
  BY <1>4, HazardPushRetry, HazardPop
<1>5. CASE Hazard!Claim(t) \/ Hazard!ClaimNext(t) \/ Hazard!ClaimThrows(t)
  BY <1>5, HazardClaim, HazardClaimNext, HazardClaimThrows
<1>6. CASE Hazard!ExitClear(t) \/ Hazard!ExitFree(t)
  BY <1>6, HazardExitClear, HazardExitFree
<1>7. CASE Hazard!Load(t) \/ Hazard!Protect(t) \/ Hazard!Reread(t) \/ Hazard!RereadEmpty(t)
  BY <1>7, HazardLoad, HazardProtect, HazardReread, HazardRereadEmpty
<1>8. CASE Hazard!Swing(t)
  BY <1>8, HazardSwing
<1>9. CASE Hazard!SwingFail(t) \/ Hazard!ClearEmpty(t) \/ Hazard!ClearTake(t)
  BY <1>9, HazardSwingFail, HazardClearEmpty, HazardClearTake
<1>10. CASE Hazard!ScanNext(t) \/ Hazard!ScanFound(t) \/ Hazard!Delete(t) \/ Hazard!Keep(t)
  BY <1>10, HazardScanNext, HazardScanFound, HazardDelete, HazardKeep
<1>11. CASE Hazard!Sweep(t) \/ (\E n \in Nodes : Hazard!SweepNext(t, n)) \/ Hazard!SweepEnd(t)
  BY <1>11, HazardSweep, HazardSweepNext, HazardSweepEnd
<1> QED BY <1>1, <1>2, <1>3, <1>4, <1>5, <1>6, <1>7, <1>8, <1>9, <1>10, <1>11

(* It is one of LifoStack, or none.                                         *)
LEMMA HazardImplements ==
  ASSUME NEW c, HazardInv(c), NEW d, HazardInv(d)', HazardLifo(c, d)
  PROVE  [Hazard!Lifo!Next]_(Hazard!Lifo!stackVars)
<1>1. Hazard!Chain = c /\ Hazard!Chain' = d
  BY HazardPath, HazardPathNext
<1>2. PICK s, o, s2, o2 :
        /\ s = [k \in 1..Len(Hazard!Chain) |-> data[Hazard!Chain[k]]]
        /\ s2 = [k \in 1..Len(Hazard!Chain) |-> data[Hazard!Chain[k]]]'
        /\ o = out \cup Hazard!Popped /\ o2 = (out \cup Hazard!Popped)'
  OBVIOUS
<1>3. s = Along(data, c) /\ s2 = Along(data', d)
  BY <1>1, <1>2 DEF Along
<1>4. /\ Hazard!Popped = Elements(data, HazardTaken)
      /\ Hazard!Popped' = Elements(data', HazardTaken')
  <2>1. Hazard!Popped = Elements(data, HazardTaken)
    BY DEF Hazard!Popped, Elements, HazardTaken, HazardTakes
  <2>2. Hazard!Popped' = Elements(data', HazardTaken')
    BY DEF Hazard!Popped, Elements, HazardTaken, HazardTakes
  <2> QED BY <2>1, <2>2
<1>5. LifoStep(s, o, empties, s2, o2, empties')
  BY <1>2, <1>3, <1>4 DEF HazardLifo
<1>6. CASE s2 = s /\ o2 = o /\ empties' = empties
  BY <1>2, <1>6 DEF Hazard!Lifo!stackVars
<1>7. CASE \E x \in Values : /\ x \notin { s[i] : i \in 1..Len(s) } \cup o
                           /\ s2 = << x >> \o s /\ o2 = o /\ empties' = empties
  <2>1. PICK x \in Values : /\ x \notin { s[i] : i \in 1..Len(s) } \cup o
                           /\ s2 = << x >> \o s /\ o2 = o /\ empties' = empties
    BY <1>7
  <2>2. Hazard!Lifo!Contents = { s[i] : i \in 1..Len(s) }
    BY <1>2 DEF Hazard!Lifo!Contents
  <2>3. Hazard!Lifo!Push(x)
    BY <1>2, <2>1, <2>2 DEF Hazard!Lifo!Push
  <2> QED BY <2>3 DEF Hazard!Lifo!Next
<1>8. CASE s # << >> /\ s2 = Tail(s) /\ o2 = o \cup {Head(s)} /\ empties' = empties
  BY <1>2, <1>8 DEF Hazard!Lifo!Next, Hazard!Lifo!Pop
<1>9. CASE s = << >> /\ empties' = empties + 1 /\ s2 = s /\ o2 = o
  BY <1>2, <1>9 DEF Hazard!Lifo!Next, Hazard!Lifo!PopEmpty
<1> QED BY <1>5, <1>6, <1>7, <1>8, <1>9 DEF LifoStep

-----------------------------------------------------------------------------
(* LockFreeStackUseThreadCount. *)

CountPlaces == {"idle", "push", "load", "swing", "check", "claim", "leave", "delete",
                "rechain", "chain", "uncount"}

(* The type invariant, but for the bound of empties.                        *)
CountTypes ==
  /\ head \in Nodes \cup {Null}
  /\ next \in [Nodes -> Nodes \cup {Null}]
  /\ data \in [Nodes -> Values \cup {Null}]
  /\ alive \subseteq Nodes /\ to_be_deleted \subseteq Nodes
  /\ threads_in_pop \in Nat
  /\ pc \in [Threads -> CountPlaces]
  /\ old \in [Threads -> Nodes \cup {Null}]
  /\ claimed \in [Threads -> SUBSET Nodes]
  /\ pops \in 0..(MaxPops + 1) /\ empties \in Nat
  /\ out \subseteq Values
  /\ process \in {"up", "crashed"}

(* Where a thread is determines what its variables hold.                    *)
CountThread(t) ==
  /\ pc[t] \in {"push", "swing"} => old[t] \in Nodes
  /\ claimed[t] # {} => pc[t] \in {"leave", "delete", "rechain"}

(* Every node allocated is in the list c from head, on to_be_deleted, or    *)
(* with one thread.                                                         *)
CountNodes(c) ==
  /\ ListFrom(Nodes, Null, head, next, c)
  /\ Members(c) \cup to_be_deleted \subseteq alive
  /\ Members(c) \cap to_be_deleted = {}
  /\ \A t \in Threads :
       /\ ThreadCount!Owned(t) \subseteq alive \ (Members(c) \cup to_be_deleted)
       /\ old[t] \notin claimed[t]
       /\ \A u \in Threads \ {t} : ThreadCount!Owned(t) \cap ThreadCount!Owned(u) = {}
  /\ \A n \in alive : \/ n \in Members(c) \cup to_be_deleted
                      \/ \E t \in Threads : n \in ThreadCount!Owned(t)

(* What a thread that was alone is about to delete.                         *)
CountDooms(t) ==
  (IF pc[t] \in {"claim", "leave", "delete", "rechain"} THEN {old[t]} ELSE {})
    \cup (IF pc[t] = "delete" THEN claimed[t] ELSE {})

(* It is nothing that another will dereference.                             *)
CountGuard ==
  \A u \in Threads : pc[u] = "swing" =>
    old[u] \in alive /\ \A t \in Threads : old[u] \notin CountDooms(t)

(* The nodes whose element is still to be returned.                         *)
CountHolds(t) == IF pc[t] = "push" THEN {old[t]} ELSE {}

CountHeld(c) == Members(c) \cup UNION { CountHolds(t) : t \in Threads }

(* The pops that may still find the stack empty.                            *)
CountLooking == { t \in Threads : pc[t] \in {"load", "swing"} }

CountInv(c) ==
  /\ CountTypes /\ (\A t \in Threads : CountThread(t))
  /\ CountNodes(c) /\ CountGuard /\ DataApart(CountHeld(c))
  /\ threads_in_pop = Cardinality(ThreadCount!Popping)
  /\ empties + Cardinality(CountLooking) <= pops

(* What a step from the list c to the list d does for the callers.          *)
CountLifo(c, d) == LifoStep(Along(data, c), out, empties, Along(data', d), out', empties')

(* The step of thread t gives its variables these values and leaves those   *)
(* of the other threads alone.                                              *)
CountBecomes(t, p, o, m) ==
  /\ pc' \in [Threads -> CountPlaces] /\ old' \in [Threads -> Nodes \cup {Null}]
  /\ claimed' \in [Threads -> SUBSET Nodes]
  /\ pc'[t] = p /\ old'[t] = o /\ claimed'[t] = m
  /\ \A u \in Threads \ {t} : pc'[u] = pc[u] /\ old'[u] = old[u] /\ claimed'[u] = claimed[u]

(* A step that moves no node keeps all lists and owners.                    *)
LEMMA CountStay ==
  ASSUME NEW c, CountNodes(c), DataApart(CountHeld(c)), NEW t \in Threads,
         NEW p, NEW o, NEW m, CountBecomes(t, p, o, m), o \notin m,
         ThreadCount!Owned(t)' = ThreadCount!Owned(t), CountHolds(t)' = CountHolds(t),
         head' = head, next' = next, data' = data, alive' = alive,
         to_be_deleted' = to_be_deleted, out' = out
  PROVE  CountNodes(c)' /\ DataApart(CountHeld(c))'
<1>1. \A u \in Threads : ThreadCount!Owned(u)' = ThreadCount!Owned(u) /\ CountHolds(u)' = CountHolds(u)
  BY DEF CountBecomes, ThreadCount!Owned, CountHolds
<1>2. \A u \in Threads : (old[u] \notin claimed[u])'
  BY DEF CountBecomes, CountNodes
<1>3. CountNodes(c)'
  BY <1>1, <1>2 DEF CountNodes
<1>4. CountHeld(c)' = CountHeld(c)
  BY <1>1 DEF CountHeld
<1>5. DataApart(CountHeld(c))'
  BY <1>4 DEF DataApart
<1> QED BY <1>3, <1>5

(* What holds an element is allocated, and owned.                           *)
LEMMA CountHeldAlive ==
  ASSUME NEW c, CountNodes(c), \A t \in Threads : CountThread(t)
  PROVE  /\ CountHeld(c) \subseteq alive
         /\ \A u \in Threads : CountHolds(u) \subseteq ThreadCount!Owned(u)
<1>1. \A u \in Threads : CountHolds(u) \subseteq ThreadCount!Owned(u)
  BY DEF CountHolds, CountThread, ThreadCount!Owned
<1> QED BY <1>1 DEF CountHeld, CountNodes

(* A step that neither reads head nor dooms or deletes a node.              *)
LEMMA CountElsewhere ==
  ASSUME CountGuard, NEW t \in Threads, NEW p, NEW o, NEW m, CountBecomes(t, p, o, m),
         p # "swing", CountDooms(t)' \subseteq CountDooms(t), alive \subseteq alive'
  PROVE  CountGuard'
<1>1. \A u \in Threads : CountDooms(u)' \subseteq CountDooms(u)
  BY DEF CountBecomes, CountDooms
<1> QED BY <1>1 DEF CountGuard, CountBecomes

(* A thread that is alone in pop looks out for itself.                      *)
LEMMA CountAlone ==
  ASSUME threads_in_pop = Cardinality(ThreadCount!Popping), threads_in_pop = 1,
         NEW t \in ThreadCount!Popping
  PROVE  \A u \in Threads : pc[u] = "swing" => u = t
<1>1. ThreadCount!Popping \in SUBSET Threads
  BY DEF ThreadCount!Popping
<1>2. Cardinality(ThreadCount!Popping \ {t}) = Cardinality(ThreadCount!Popping) - 1
  BY <1>1, OneLess
<1>3. IsFiniteSet(ThreadCount!Popping \ {t})
  BY <1>1, FS_Subset
<1>4. Cardinality(ThreadCount!Popping \ {t}) = 0
  BY <1>2
<1>5. ThreadCount!Popping \ {t} = {}
  BY <1>3, <1>4, FS_EmptySet
<1> QED BY <1>5 DEF ThreadCount!Popping

(* A push allocates its node.                                               *)
LEMMA CountPush ==
  ASSUME NEW c, CountInv(c), NEW t \in Threads, NEW x \in Values, NEW n \in Nodes,
         ThreadCount!Push(t, x, n)
  PROVE  CountInv(c)' /\ CountLifo(c, c)
<1>1. /\ CountTypes /\ CountThread(t) /\ (\A u \in Threads : CountThread(u))
      /\ CountNodes(c) /\ CountGuard /\ DataApart(CountHeld(c))
      /\ threads_in_pop = Cardinality(ThreadCount!Popping)
      /\ empties + Cardinality(CountLooking) <= pops
  BY DEF CountInv
<1>2. /\ pc[t] = "idle" /\ x \in ThreadCount!Fresh /\ n \in Nodes \ alive /\ head' = head
      /\ next' = [next EXCEPT ![n] = head] /\ data' = [data EXCEPT ![n] = x]
      /\ alive' = alive \cup {n} /\ to_be_deleted' = to_be_deleted
      /\ threads_in_pop' = threads_in_pop /\ pops' = pops /\ out' = out
      /\ empties' = empties /\ process' = process
  BY DEF ThreadCount!Push, ThreadCount!stack, ThreadCount!reclaim, ThreadCount!history, ThreadCount!Goto
<1>3. CountBecomes(t, "push", n, claimed[t])
  BY <1>1 DEF CountTypes, CountPlaces, CountBecomes, ThreadCount!Push, ThreadCount!stack,
    ThreadCount!reclaim, ThreadCount!Goto
<1>4. /\ head \in Nodes \cup {Null} /\ old[t] \in Nodes \cup {Null}
      /\ claimed[t] \in SUBSET Nodes /\ to_be_deleted \in SUBSET Nodes
  BY <1>1 DEF CountTypes
<1>5. CountTypes'
  BY <1>1, <1>2, <1>3, <1>4 DEF CountTypes, CountThread, CountBecomes
<1>6. \A u \in Threads : CountThread(u)'
  BY <1>1, <1>2, <1>3, <1>4 DEF CountThread, CountBecomes
<1>7. CountNodes(c)' /\ DataApart(CountHeld(c))'
  <2>1. \A u \in Threads : ThreadCount!Owned(u)' = IF u = t THEN {n} ELSE ThreadCount!Owned(u)
    BY <1>1, <1>2, <1>3 DEF CountThread, CountBecomes, ThreadCount!Owned
  <2>2. \A u \in Threads : CountHolds(u)' = IF u = t THEN {n} ELSE CountHolds(u)
    BY <1>2, <1>3 DEF CountBecomes, CountHolds
  <2>3. /\ n \notin Members(c) \cup to_be_deleted /\ \A u \in Threads : n \notin ThreadCount!Owned(u)
        /\ ThreadCount!Owned(t) = {} /\ CountHolds(t) = {} /\ claimed[t] = {}
    BY <1>1, <1>2 DEF CountNodes, CountThread, ThreadCount!Owned, CountHolds
  <2>4. ListFrom(Nodes, Null, head', next', c)
    <3>1. \A m \in Members(c) : next'[m] = next[m]
      BY <1>1, <1>2, <2>3 DEF CountTypes, CountNodes
    <3>2. ListFrom(Nodes, Null, head, next', c)
      BY <1>1, <3>1, ListStays DEF CountNodes
    <3> QED BY <1>2, <3>2
  <2>5. CountNodes(c)'
    <3>1. ASSUME NEW u \in Threads
          PROVE  /\ (ThreadCount!Owned(u) \subseteq alive \ (Members(c) \cup to_be_deleted))'
                 /\ (old[u] \notin claimed[u])'
      BY <1>1, <1>2, <1>3, <2>1, <2>3 DEF CountNodes, CountBecomes
    <3>2. ASSUME NEW u \in Threads, NEW v \in Threads \ {u}
          PROVE  (ThreadCount!Owned(u) \cap ThreadCount!Owned(v) = {})'
      BY <1>1, <2>1, <2>3 DEF CountNodes
    <3>3. \A m \in alive' : \/ m \in Members(c) \cup to_be_deleted'
                            \/ \E u \in Threads : m \in ThreadCount!Owned(u)'
      BY <1>1, <1>2, <2>1, <2>3 DEF CountNodes
    <3>4. /\ Members(c) \cup to_be_deleted' \subseteq alive'
          /\ Members(c) \cap to_be_deleted' = {}
      BY <1>1, <1>2 DEF CountNodes
    <3> QED BY <2>4, <3>1, <3>2, <3>3, <3>4 DEF CountNodes
  <2>6. CountHeld(c)' = CountHeld(c) \cup {n}
    BY <2>2, <2>3 DEF CountHeld
  <2>7. CountHeld(c) \subseteq alive /\ alive \subseteq Nodes
    BY <1>1, CountHeldAlive DEF CountTypes
  <2>8. x \in Values \ out /\ \A m \in alive : data[m] # x
    BY <1>2 DEF ThreadCount!Fresh
  <2>9. data'[n] = x /\ \A m \in CountHeld(c) : m # n /\ data'[m] = data[m]
    BY <1>1, <1>2, <2>7 DEF CountTypes
  <2>10. DataApart(CountHeld(c))'
    BY <1>2, <1>1, <2>6, <2>7, <2>8, <2>9 DEF DataApart
  <2> QED BY <2>5, <2>10
<1>8. CountGuard'
  <2>1. CountDooms(t)' \subseteq CountDooms(t) /\ alive \subseteq alive'
    BY <1>1, <1>2, <1>3 DEF CountDooms, CountThread, CountBecomes
  <2> QED BY <1>1, <1>2, <1>3, <2>1, CountElsewhere
<1>9. /\ threads_in_pop' = Cardinality(ThreadCount!Popping)'
      /\ (empties + Cardinality(CountLooking) <= pops)'
  <2>1. threads_in_pop' = Cardinality(ThreadCount!Popping)'
    <3>1. ThreadCount!Popping' = ThreadCount!Popping
      BY <1>2, <1>3 DEF ThreadCount!Popping, CountBecomes
    <3> QED BY <1>1, <1>2, <3>1
  <2>2. (empties + Cardinality(CountLooking) <= pops)'
    <3>1. CountLooking' = CountLooking
      BY <1>2, <1>3 DEF CountLooking, CountBecomes
    <3> QED BY <1>1, <1>2, <3>1
  <2> QED BY <2>1, <2>2
<1>10. CountLifo(c, c)
  <2>1. CountHeld(c) \subseteq alive
    BY <1>1, CountHeldAlive
  <2>2. \A m \in Members(c) : data'[m] = data[m]
    BY <1>1, <1>2, <2>1 DEF CountTypes, CountHeld
  <2>3. Along(data', c) = Along(data, c)
    BY <2>2, AlongSame
  <2> QED BY <1>2, <2>3 DEF CountLifo, LifoStep
<1> QED BY <1>5, <1>6, <1>7, <1>8, <1>9, <1>10 DEF CountInv

(* A push links its node.                                                   *)
LEMMA CountPushLink ==
  ASSUME NEW c, CountInv(c), NEW t \in Threads, ThreadCount!PushLink(t),
         NEW d, d = << old[t] >> \o c
  PROVE  CountInv(d)' /\ CountLifo(c, d)
<1>1. /\ CountTypes /\ CountThread(t) /\ (\A u \in Threads : CountThread(u))
      /\ CountNodes(c) /\ CountGuard /\ DataApart(CountHeld(c))
      /\ threads_in_pop = Cardinality(ThreadCount!Popping)
      /\ empties + Cardinality(CountLooking) <= pops
  BY DEF CountInv
<1>2. /\ pc[t] = "push" /\ head = next[old[t]] /\ head' = old[t] /\ next' = next
      /\ data' = data /\ alive' = alive /\ to_be_deleted' = to_be_deleted
      /\ threads_in_pop' = threads_in_pop /\ pops' = pops /\ out' = out
      /\ empties' = empties /\ process' = process
  BY DEF ThreadCount!PushLink, ThreadCount!stack, ThreadCount!reclaim, ThreadCount!history, ThreadCount!Goto, ThreadCount!PushExpected
<1>3. CountBecomes(t, "idle", old[t], claimed[t])
  BY <1>1 DEF CountTypes, CountPlaces, CountBecomes, ThreadCount!PushLink, ThreadCount!stack,
    ThreadCount!reclaim, ThreadCount!Goto
<1>4. /\ head \in Nodes \cup {Null} /\ old[t] \in Nodes \cup {Null}
      /\ claimed[t] \in SUBSET Nodes /\ to_be_deleted \in SUBSET Nodes
  BY <1>1 DEF CountTypes
<1>5. CountTypes'
  BY <1>1, <1>2, <1>3, <1>4 DEF CountTypes, CountThread, CountBecomes
<1>6. \A u \in Threads : CountThread(u)'
  BY <1>1, <1>2, <1>3, <1>4 DEF CountThread, CountBecomes
<1>7. CountNodes(d)' /\ DataApart(CountHeld(d))'
  <2> DEFINE n == old[t]
  <2>1. n \in Nodes /\ ThreadCount!Owned(t) = {n} /\ CountHolds(t) = {n} /\ claimed[t] = {}
    BY <1>1, <1>2 DEF CountThread, ThreadCount!Owned, CountHolds
  <2> HIDE DEF n
  <2>2. \A u \in Threads : ThreadCount!Owned(u)' = IF u = t THEN {} ELSE ThreadCount!Owned(u)
    BY <1>2, <1>3, <2>1 DEF CountBecomes, ThreadCount!Owned
  <2>3. \A u \in Threads : CountHolds(u)' = IF u = t THEN {} ELSE CountHolds(u)
    BY <1>2, <1>3 DEF CountBecomes, CountHolds
  <2>4. n \in alive /\ n \notin Members(c) /\ n \notin to_be_deleted
        /\ \A u \in Threads \ {t} : n \notin ThreadCount!Owned(u)
    BY <1>1, <2>1 DEF CountNodes
  <2>5. ListFrom(Nodes, Null, n, next, d) /\ Members(d) = Members(c) \cup {n}
    <3>1. next[n] = head
      BY <1>2 DEF n
    <3>2. d = << n >> \o c
      BY DEF n
    <3>3. ListFrom(Nodes, Null, head, next, c)
      BY <1>1 DEF CountNodes
    <3> QED BY <2>1, <2>4, <3>1, <3>2, <3>3, ListPush
  <2>6. head' = n
    BY <1>2 DEF n
  <2>7. CountNodes(d)'
    <3>1. ASSUME NEW u \in Threads
          PROVE  /\ (ThreadCount!Owned(u) \subseteq alive \ (Members(d) \cup to_be_deleted))'
                 /\ (old[u] \notin claimed[u])'
      BY <1>1, <1>2, <1>3, <2>2, <2>4, <2>5 DEF CountNodes, CountBecomes
    <3>2. ASSUME NEW u \in Threads, NEW v \in Threads \ {u}
          PROVE  (ThreadCount!Owned(u) \cap ThreadCount!Owned(v) = {})'
      BY <1>1, <2>2 DEF CountNodes
    <3>3. \A m \in alive' : \/ m \in Members(d) \cup to_be_deleted'
                            \/ \E u \in Threads : m \in ThreadCount!Owned(u)'
      BY <1>1, <1>2, <2>1, <2>2, <2>5 DEF CountNodes
    <3>4. /\ Members(d) \cup to_be_deleted' \subseteq alive'
          /\ Members(d) \cap to_be_deleted' = {}
      BY <1>1, <1>2, <2>4, <2>5 DEF CountNodes
    <3>5. ListFrom(Nodes, Null, head', next', d)
      BY <1>2, <2>5, <2>6
    <3> QED BY <3>1, <3>2, <3>3, <3>4, <3>5 DEF CountNodes
  <2>8. CountHeld(d)' = CountHeld(c)
    <3>1. ASSUME NEW m \in CountHeld(d)' PROVE m \in CountHeld(c)
      BY <2>1, <2>3, <2>5 DEF CountHeld
    <3>2. ASSUME NEW m \in CountHeld(c) PROVE m \in CountHeld(d)'
      BY <2>1, <2>3, <2>5 DEF CountHeld
    <3> QED BY <3>1, <3>2
  <2> QED BY <1>1, <1>2, <2>7, <2>8 DEF DataApart
<1>8. CountGuard'
  <2>1. CountDooms(t)' \subseteq CountDooms(t) /\ alive \subseteq alive'
    BY <1>1, <1>2, <1>3 DEF CountDooms, CountThread, CountBecomes
  <2> QED BY <1>1, <1>2, <1>3, <2>1, CountElsewhere
<1>9. /\ threads_in_pop' = Cardinality(ThreadCount!Popping)'
      /\ (empties + Cardinality(CountLooking) <= pops)'
  <2>1. threads_in_pop' = Cardinality(ThreadCount!Popping)'
    <3>1. ThreadCount!Popping' = ThreadCount!Popping
      BY <1>2, <1>3 DEF ThreadCount!Popping, CountBecomes
    <3> QED BY <1>1, <1>2, <3>1
  <2>2. (empties + Cardinality(CountLooking) <= pops)'
    <3>1. CountLooking' = CountLooking
      BY <1>2, <1>3 DEF CountLooking, CountBecomes
    <3> QED BY <1>1, <1>2, <3>1
  <2> QED BY <2>1, <2>2
<1>10. CountLifo(c, d)
  <2> DEFINE n == old[t]
  <2>1. n \in Nodes /\ n \in CountHeld(c) /\ n \notin Members(c) /\ c \in Seq(Nodes)
    BY <1>1, <1>2 DEF CountThread, CountHeld, CountHolds, CountNodes, ThreadCount!Owned, ListFrom
  <2>2. d = << n >> \o c
    OBVIOUS
  <2> HIDE DEF n
  <2>3. data[n] \in Values \ out /\ \A m \in Members(c) \cup {} : data[m] # data[n]
    BY <1>1, <2>1 DEF DataApart, CountHeld
  <2>4. LifoStep(Along(data, c), out \cup Elements(data, {}), empties,
                 Along(data, << n >> \o c), out \cup Elements(data, {}), empties)
    BY <2>1, <2>3, LifoPushes
  <2>5. out \cup Elements(data, {}) = out
    BY DEF Elements
  <2> QED BY <1>2, <2>2, <2>4, <2>5 DEF CountLifo
<1> QED BY <1>5, <1>6, <1>7, <1>8, <1>9, <1>10 DEF CountInv

(* A push that finds another head starts again.                             *)
LEMMA CountPushRetry ==
  ASSUME NEW c, CountInv(c), NEW t \in Threads, ThreadCount!PushRetry(t)
  PROVE  CountInv(c)' /\ CountLifo(c, c)
<1>1. /\ CountTypes /\ CountThread(t) /\ (\A u \in Threads : CountThread(u))
      /\ CountNodes(c) /\ CountGuard /\ DataApart(CountHeld(c))
      /\ threads_in_pop = Cardinality(ThreadCount!Popping)
      /\ empties + Cardinality(CountLooking) <= pops
  BY DEF CountInv
<1>2. /\ pc[t] = "push" /\ head' = head /\ next' = [next EXCEPT ![old[t]] = head]
      /\ data' = data /\ alive' = alive /\ to_be_deleted' = to_be_deleted
      /\ threads_in_pop' = threads_in_pop /\ pops' = pops /\ out' = out
      /\ empties' = empties /\ process' = process
  BY DEF ThreadCount!PushRetry, ThreadCount!stack, ThreadCount!reclaim, ThreadCount!history, ThreadCount!Goto, ThreadCount!PushExpected
<1>3. CountBecomes(t, pc[t], old[t], claimed[t])
  BY <1>1 DEF CountTypes, CountPlaces, CountBecomes, ThreadCount!PushRetry, ThreadCount!stack,
    ThreadCount!reclaim, ThreadCount!Goto
<1>4. /\ head \in Nodes \cup {Null} /\ old[t] \in Nodes \cup {Null}
      /\ claimed[t] \in SUBSET Nodes /\ to_be_deleted \in SUBSET Nodes
  BY <1>1 DEF CountTypes
<1>5. CountTypes'
  BY <1>1, <1>2, <1>3, <1>4 DEF CountTypes, CountThread, CountBecomes
<1>6. \A u \in Threads : CountThread(u)'
  BY <1>1, <1>2, <1>3, <1>4 DEF CountThread, CountBecomes
<1>7. CountNodes(c)' /\ DataApart(CountHeld(c))'
  <2>1. old[t] \in Nodes /\ old[t] \notin Members(c)
    BY <1>1, <1>2 DEF CountThread, CountNodes, ThreadCount!Owned
  <2>2. ListFrom(Nodes, Null, head', next', c)
    <3>1. \A m \in Members(c) : next'[m] = next[m]
      BY <1>1, <1>2, <2>1 DEF CountTypes, CountNodes
    <3>2. ListFrom(Nodes, Null, head, next', c)
      BY <1>1, <3>1, ListStays DEF CountNodes
    <3> QED BY <1>2, <3>2
  <2>3. pc' = pc /\ old' = old /\ claimed' = claimed
    BY DEF ThreadCount!PushRetry, ThreadCount!reclaim
  <2>4. CountNodes(c)'
    BY <1>1, <1>2, <2>2, <2>3 DEF CountNodes, ThreadCount!Owned
  <2>5. CountHeld(c)' = CountHeld(c)
    BY <2>3 DEF CountHeld, CountHolds
  <2> QED BY <1>1, <1>2, <2>4, <2>5 DEF DataApart
<1>8. CountGuard'
  <2>1. CountDooms(t)' \subseteq CountDooms(t) /\ alive \subseteq alive'
    BY <1>1, <1>2, <1>3 DEF CountDooms, CountThread, CountBecomes
  <2> QED BY <1>1, <1>2, <1>3, <2>1, CountElsewhere
<1>9. /\ threads_in_pop' = Cardinality(ThreadCount!Popping)'
      /\ (empties + Cardinality(CountLooking) <= pops)'
  <2>1. threads_in_pop' = Cardinality(ThreadCount!Popping)'
    <3>1. ThreadCount!Popping' = ThreadCount!Popping
      BY <1>2, <1>3 DEF ThreadCount!Popping, CountBecomes
    <3> QED BY <1>1, <1>2, <3>1
  <2>2. (empties + Cardinality(CountLooking) <= pops)'
    <3>1. CountLooking' = CountLooking
      BY <1>2, <1>3 DEF CountLooking, CountBecomes
    <3> QED BY <1>1, <1>2, <3>1
  <2> QED BY <2>1, <2>2
<1>10. CountLifo(c, c)
  BY <1>2 DEF CountLifo, LifoStep
<1> QED BY <1>5, <1>6, <1>7, <1>8, <1>9, <1>10 DEF CountInv

(* A pop begins, and is counted.                                            *)
LEMMA CountPop ==
  ASSUME NEW c, CountInv(c), NEW t \in Threads, ThreadCount!Pop(t)
  PROVE  CountInv(c)' /\ CountLifo(c, c)
<1>1. /\ CountTypes /\ CountThread(t) /\ (\A u \in Threads : CountThread(u))
      /\ CountNodes(c) /\ CountGuard /\ DataApart(CountHeld(c))
      /\ threads_in_pop = Cardinality(ThreadCount!Popping)
      /\ empties + Cardinality(CountLooking) <= pops
  BY DEF CountInv
<1>2. /\ pc[t] = "idle" /\ pops < MaxPops + 1 /\ head' = head /\ next' = next
      /\ data' = data /\ alive' = alive /\ to_be_deleted' = to_be_deleted
      /\ threads_in_pop' = threads_in_pop + 1 /\ pops' = pops + 1 /\ out' = out
      /\ empties' = empties /\ process' = process
  BY DEF ThreadCount!Pop, ThreadCount!stack, ThreadCount!reclaim, ThreadCount!history, ThreadCount!Goto
<1>3. CountBecomes(t, "load", old[t], claimed[t])
  BY <1>1 DEF CountTypes, CountPlaces, CountBecomes, ThreadCount!Pop, ThreadCount!stack,
    ThreadCount!reclaim, ThreadCount!Goto
<1>4. /\ head \in Nodes \cup {Null} /\ old[t] \in Nodes \cup {Null}
      /\ claimed[t] \in SUBSET Nodes /\ to_be_deleted \in SUBSET Nodes
  BY <1>1 DEF CountTypes
<1>5. CountTypes'
  BY <1>1, <1>2, <1>3, <1>4 DEF CountTypes, CountThread, CountBecomes
<1>6. \A u \in Threads : CountThread(u)'
  BY <1>1, <1>2, <1>3, <1>4 DEF CountThread, CountBecomes
<1>7. CountNodes(c)' /\ DataApart(CountHeld(c))'
  <2>1. /\ claimed[t] \in SUBSET Nodes /\ (old[t]) \notin claimed[t]
        /\ ThreadCount!Owned(t)' = ThreadCount!Owned(t) /\ CountHolds(t)' = CountHolds(t)
    BY <1>1, <1>2, <1>3, <1>4 DEF CountThread, CountNodes, CountBecomes, ThreadCount!Owned, CountHolds
  <2> QED BY <1>1, <1>2, <1>3, <2>1, CountStay
<1>8. CountGuard'
  <2>1. CountDooms(t)' \subseteq CountDooms(t) /\ alive \subseteq alive'
    BY <1>1, <1>2, <1>3 DEF CountDooms, CountThread, CountBecomes
  <2> QED BY <1>1, <1>2, <1>3, <2>1, CountElsewhere
<1>9. /\ threads_in_pop' = Cardinality(ThreadCount!Popping)'
      /\ (empties + Cardinality(CountLooking) <= pops)'
  <2>1. threads_in_pop' = Cardinality(ThreadCount!Popping)'
    <3>1. ThreadCount!Popping' = ThreadCount!Popping \cup {t} /\ t \notin ThreadCount!Popping
      BY <1>2, <1>3 DEF ThreadCount!Popping, CountBecomes
    <3>2. ThreadCount!Popping \in SUBSET Threads /\ pops \in Nat /\ empties \in Nat
      BY <1>1 DEF ThreadCount!Popping, CountTypes
    <3>3. Cardinality(ThreadCount!Popping) \in Nat /\ Cardinality(ThreadCount!Popping)' = Cardinality(ThreadCount!Popping) + 1
      BY <3>1, <3>2, OneMore
    <3> QED BY <1>1, <1>2, <3>2, <3>3
  <2>2. (empties + Cardinality(CountLooking) <= pops)'
    <3>1. CountLooking' = CountLooking \cup {t} /\ t \notin CountLooking
      BY <1>2, <1>3 DEF CountLooking, CountBecomes
    <3>2. CountLooking \in SUBSET Threads /\ pops \in Nat /\ empties \in Nat
      BY <1>1 DEF CountLooking, CountTypes
    <3>3. Cardinality(CountLooking) \in Nat /\ Cardinality(CountLooking)' = Cardinality(CountLooking) + 1
      BY <3>1, <3>2, OneMore
    <3> QED BY <1>1, <1>2, <3>2, <3>3
  <2> QED BY <2>1, <2>2
<1>10. CountLifo(c, c)
  BY <1>2 DEF CountLifo, LifoStep
<1> QED BY <1>5, <1>6, <1>7, <1>8, <1>9, <1>10 DEF CountInv

(* A pop reads head, at first or because it finds another.                  *)
LEMMA CountLoad ==
  ASSUME NEW c, CountInv(c), NEW t \in Threads, ThreadCount!Load(t)
  PROVE  CountInv(c)' /\ CountLifo(c, c)
<1>1. /\ CountTypes /\ CountThread(t) /\ (\A u \in Threads : CountThread(u))
      /\ CountNodes(c) /\ CountGuard /\ DataApart(CountHeld(c))
      /\ threads_in_pop = Cardinality(ThreadCount!Popping)
      /\ empties + Cardinality(CountLooking) <= pops
  BY DEF CountInv
<1>2. /\ pc[t] \in {"load", "swing"} /\ head' = head /\ next' = next /\ data' = data
      /\ alive' = alive /\ to_be_deleted' = to_be_deleted
      /\ threads_in_pop' = threads_in_pop /\ pops' = pops /\ out' = out
      /\ empties' = (IF head = Null THEN empties + 1 ELSE empties) /\ process' = process
  BY DEF ThreadCount!Load, ThreadCount!stack, ThreadCount!reclaim, ThreadCount!history, ThreadCount!Goto, ThreadCount!HeadIsNull
<1>3. CountBecomes(t, IF head = Null THEN "check" ELSE "swing", head, claimed[t])
  BY <1>1 DEF CountTypes, CountPlaces, CountBecomes, ThreadCount!Load, ThreadCount!stack,
    ThreadCount!reclaim, ThreadCount!Goto, ThreadCount!HeadIsNull
<1>4. /\ head \in Nodes \cup {Null} /\ old[t] \in Nodes \cup {Null}
      /\ claimed[t] \in SUBSET Nodes /\ to_be_deleted \in SUBSET Nodes
  BY <1>1 DEF CountTypes
<1>5. CountTypes'
  BY <1>1, <1>2, <1>3, <1>4 DEF CountTypes, CountThread, CountBecomes
<1>6. \A u \in Threads : CountThread(u)'
  BY <1>1, <1>2, <1>3, <1>4 DEF CountThread, CountBecomes
<1>7. CountNodes(c)' /\ DataApart(CountHeld(c))'
  <2>1. claimed[t] = {} /\ ThreadCount!Owned(t) = {} /\ CountHolds(t) = {} /\ CountHolds(t)' = {}
    BY <1>1, <1>2, <1>3 DEF CountThread, ThreadCount!Owned, CountHolds, CountBecomes
  <2>2. ThreadCount!Owned(t)' = {}
    <3>1. CASE head = Null
      BY <1>3, <2>1, <3>1 DEF CountBecomes, ThreadCount!Owned
    <3>2. CASE head # Null
      BY <1>3, <2>1, <3>2 DEF CountBecomes, ThreadCount!Owned
    <3> QED BY <3>1, <3>2
  <2>3. head \notin claimed[t]
    BY <2>1
  <2> QED BY <1>1, <1>2, <1>3, <2>1, <2>2, <2>3, CountStay
<1>8. CountGuard'
  <2>1. claimed[t] = {} /\ CountDooms(t)' = {}
    BY <1>1, <1>2, <1>3 DEF CountThread, CountBecomes, CountDooms
  <2>2. \A u \in Threads \ {t} : CountDooms(u)' = CountDooms(u)
    BY <1>3 DEF CountBecomes, CountDooms
  <2>3. head # Null => head \in Members(c)
    BY <1>1, ListIsEmpty DEF CountNodes
  <2>4. head # Null => /\ head \in alive
                       /\ \A u \in Threads : head \notin CountDooms(u)
    BY <1>1, <2>3 DEF CountNodes, CountDooms, ThreadCount!Owned
  <2>5. pc'[t] = "swing" => head # Null /\ old'[t] = head
    BY <1>3 DEF CountBecomes
  <2> QED BY <1>1, <1>2, <1>3, <2>1, <2>2, <2>4, <2>5 DEF CountGuard, CountBecomes
<1>9. /\ threads_in_pop' = Cardinality(ThreadCount!Popping)'
      /\ (empties + Cardinality(CountLooking) <= pops)'
  <2>1. threads_in_pop' = Cardinality(ThreadCount!Popping)'
    <3>1. ThreadCount!Popping' = ThreadCount!Popping
      BY <1>2, <1>3 DEF ThreadCount!Popping, CountBecomes
    <3> QED BY <1>1, <1>2, <3>1
  <2>2. (empties + Cardinality(CountLooking) <= pops)'
    <3>1. CASE head = Null
      <4>1. CountLooking' = CountLooking \ {t} /\ t \in CountLooking
        BY <1>2, <3>1, <1>3 DEF CountLooking, CountBecomes
      <4>2. CountLooking \in SUBSET Threads /\ pops \in Nat /\ empties \in Nat
        BY <1>1 DEF CountLooking, CountTypes
      <4>3. Cardinality(CountLooking) \in Nat /\ Cardinality(CountLooking)' = Cardinality(CountLooking) - 1
        BY <4>1, <4>2, OneLess
      <4> QED BY <1>1, <1>2, <3>1, <4>2, <4>3
    <3>2. CASE head # Null
      <4>1. CountLooking' = CountLooking
        BY <1>2, <3>2, <1>3 DEF CountLooking, CountBecomes
      <4> QED BY <1>1, <1>2, <3>2, <4>1
    <3> QED BY <3>1, <3>2
  <2> QED BY <2>1, <2>2
<1>10. CountLifo(c, c)
  <2>1. CASE head = Null
    <3>1. c = << >>
      BY <1>1, <2>1, ListIsEmpty DEF CountNodes
    <3> QED BY <1>2, <2>1, <3>1, LifoPopsNothing DEF CountLifo
  <2>2. CASE head # Null
    BY <1>2, <2>2 DEF CountLifo, LifoStep
  <2> QED BY <2>1, <2>2
<1> QED BY <1>5, <1>6, <1>7, <1>8, <1>9, <1>10 DEF CountInv

(* It takes the first node out, and its element.                            *)
LEMMA CountSwing ==
  ASSUME NEW c, CountInv(c), NEW t \in Threads, ThreadCount!Swing(t),
         NEW d, d = Tail(c)
  PROVE  CountInv(d)' /\ CountLifo(c, d)
<1>1. /\ CountTypes /\ CountThread(t) /\ (\A u \in Threads : CountThread(u))
      /\ CountNodes(c) /\ CountGuard /\ DataApart(CountHeld(c))
      /\ threads_in_pop = Cardinality(ThreadCount!Popping)
      /\ empties + Cardinality(CountLooking) <= pops
  BY DEF CountInv
<1>2. /\ pc[t] = "swing" /\ head = old[t] /\ head' = next[old[t]] /\ next' = next
      /\ data' = [data EXCEPT ![old[t]] = Null] /\ alive' = alive
      /\ to_be_deleted' = to_be_deleted /\ threads_in_pop' = threads_in_pop /\ pops' = pops
      /\ out' = out \cup {data[old[t]]} /\ empties' = empties /\ process' = process
  BY DEF ThreadCount!Swing, ThreadCount!stack, ThreadCount!reclaim, ThreadCount!history, ThreadCount!Goto
<1>3. CountBecomes(t, "check", old[t], claimed[t])
  BY <1>1 DEF CountTypes, CountPlaces, CountBecomes, ThreadCount!Swing, ThreadCount!stack,
    ThreadCount!reclaim, ThreadCount!Goto
<1>4. /\ head \in Nodes \cup {Null} /\ old[t] \in Nodes \cup {Null}
      /\ claimed[t] \in SUBSET Nodes /\ to_be_deleted \in SUBSET Nodes
  BY <1>1 DEF CountTypes
<1>5. CountTypes'
  <2>1. head \in Members(c)
    BY <1>1, <1>2, ListIsEmpty DEF CountThread, CountNodes
  <2>2. data[head] \in Values
    BY <1>1, <2>1 DEF CountHeld, DataApart
  <2> QED BY <1>1, <1>2, <1>3, <1>4, <2>2 DEF CountTypes, CountThread, CountBecomes
<1>6. \A u \in Threads : CountThread(u)'
  BY <1>1, <1>2, <1>3, <1>4 DEF CountThread, CountBecomes
<1>7. CountNodes(d)' /\ DataApart(CountHeld(d))'
  <2>1. /\ head \in Nodes /\ head # Null /\ ThreadCount!Owned(t) = {} /\ claimed[t] = {}
        /\ CountHolds(t) = {}
    BY <1>1, <1>2 DEF CountThread, ThreadCount!Owned, CountHolds
  <2>2. \A u \in Threads : ThreadCount!Owned(u)' = IF u = t THEN {head} ELSE ThreadCount!Owned(u)
    BY <1>1, <1>2, <1>3, <2>1 DEF CountBecomes, ThreadCount!Owned
  <2>3. \A u \in Threads : CountHolds(u)' = CountHolds(u)
    BY <1>2, <1>3, <2>1 DEF CountBecomes, CountHolds
  <2>4. /\ ListFrom(Nodes, Null, next[head], next, d)
        /\ Members(d) = Members(c) \ {head} /\ head \in Members(c)
    BY <1>1, <2>1, ListPop DEF CountNodes
  <2>5. head' = next[head] /\ out' = out \cup {data[head]} /\ data' = [data EXCEPT ![head] = Null]
    BY <1>2
  <2>6. CountNodes(d)'
    BY <1>1, <1>2, <1>3, <2>1, <2>2, <2>4, <2>5 DEF CountNodes, CountBecomes
  <2>7. \A u \in Threads : head \notin CountHolds(u)
    BY <1>1, <2>4, CountHeldAlive DEF CountNodes
  <2>8. CountHeld(d)' = CountHeld(c) \ {head} /\ head \in CountHeld(c)
    BY <2>3, <2>4, <2>7 DEF CountHeld
  <2>9. \A m \in CountHeld(c) \ {head} : data'[m] = data[m]
    BY <1>1, <2>5 DEF CountTypes
  <2>10. DataApart(CountHeld(d))'
    BY <1>1, <2>5, <2>8, <2>9 DEF DataApart
  <2> QED BY <2>6, <2>10
<1>8. CountGuard'
  <2>1. CountDooms(t)' \subseteq CountDooms(t) /\ alive \subseteq alive'
    BY <1>1, <1>2, <1>3 DEF CountDooms, CountThread, CountBecomes
  <2> QED BY <1>1, <1>2, <1>3, <2>1, CountElsewhere
<1>9. /\ threads_in_pop' = Cardinality(ThreadCount!Popping)'
      /\ (empties + Cardinality(CountLooking) <= pops)'
  <2>1. threads_in_pop' = Cardinality(ThreadCount!Popping)'
    <3>1. ThreadCount!Popping' = ThreadCount!Popping
      BY <1>2, <1>3 DEF ThreadCount!Popping, CountBecomes
    <3> QED BY <1>1, <1>2, <3>1
  <2>2. (empties + Cardinality(CountLooking) <= pops)'
    <3>1. CountLooking' = CountLooking \ {t} /\ t \in CountLooking
      BY <1>2, <1>3 DEF CountLooking, CountBecomes
    <3>2. CountLooking \in SUBSET Threads /\ pops \in Nat /\ empties \in Nat
      BY <1>1 DEF CountLooking, CountTypes
    <3>3. Cardinality(CountLooking) \in Nat /\ Cardinality(CountLooking)' = Cardinality(CountLooking) - 1
      BY <3>1, <3>2, OneLess
    <3> QED BY <1>1, <1>2, <3>2, <3>3
  <2> QED BY <2>1, <2>2
<1>10. CountLifo(c, d)
  <2>1. head \in Nodes /\ head # Null
    BY <1>1, <1>2 DEF CountThread
  <2>2. c \in Seq(Nodes) /\ c # << >> /\ Head(c) = head
    BY <1>1, <2>1, ListIsEmpty DEF CountNodes, ListFrom
  <2>3. Members(Tail(c)) = Members(c) \ {head}
    BY <1>1, <2>1, ListPop DEF CountNodes
  <2>4. out' = out \cup {data[head]} /\ data' = [data EXCEPT ![head] = Null]
    BY <1>2
  <2>5. \A m \in Members(Tail(c)) : data'[m] = data[m]
    BY <1>1, <2>3, <2>4 DEF CountTypes
  <2>6. LifoStep(Along(data, c), out, empties, Along(data', Tail(c)), out \cup {data[Head(c)]}, empties)
    BY <2>2, <2>5, LifoPopsAtOnce
  <2> QED BY <1>2, <2>2, <2>4, <2>6 DEF CountLifo
<1> QED BY <1>5, <1>6, <1>7, <1>8, <1>9, <1>10 DEF CountInv

(* A pop looks whether it is alone.                                         *)
LEMMA CountCheck ==
  ASSUME NEW c, CountInv(c), NEW t \in Threads, ThreadCount!Check(t)
  PROVE  CountInv(c)' /\ CountLifo(c, c)
<1>1. /\ CountTypes /\ CountThread(t) /\ (\A u \in Threads : CountThread(u))
      /\ CountNodes(c) /\ CountGuard /\ DataApart(CountHeld(c))
      /\ threads_in_pop = Cardinality(ThreadCount!Popping)
      /\ empties + Cardinality(CountLooking) <= pops
  BY DEF CountInv
<1>2. /\ pc[t] = "check" /\ head' = head /\ next' = next /\ data' = data /\ alive' = alive
      /\ to_be_deleted' = to_be_deleted /\ threads_in_pop' = threads_in_pop /\ pops' = pops
      /\ out' = out /\ empties' = empties /\ process' = process
  BY DEF ThreadCount!Check, ThreadCount!stack, ThreadCount!reclaim, ThreadCount!history, ThreadCount!Goto
<1>3. CountBecomes(t, IF threads_in_pop = 1 THEN "claim" ELSE "chain", old[t], claimed[t])
  BY <1>1 DEF CountTypes, CountPlaces, CountBecomes, ThreadCount!Check, ThreadCount!stack,
    ThreadCount!reclaim, ThreadCount!Goto
<1>4. /\ head \in Nodes \cup {Null} /\ old[t] \in Nodes \cup {Null}
      /\ claimed[t] \in SUBSET Nodes /\ to_be_deleted \in SUBSET Nodes
  BY <1>1 DEF CountTypes
<1>5. CountTypes'
  BY <1>1, <1>2, <1>3, <1>4 DEF CountTypes, CountThread, CountBecomes
<1>6. \A u \in Threads : CountThread(u)'
  BY <1>1, <1>2, <1>3, <1>4 DEF CountThread, CountBecomes
<1>7. CountNodes(c)' /\ DataApart(CountHeld(c))'
  <2>1. /\ claimed[t] \in SUBSET Nodes /\ (old[t]) \notin claimed[t]
        /\ ThreadCount!Owned(t)' = ThreadCount!Owned(t) /\ CountHolds(t)' = CountHolds(t)
    BY <1>1, <1>2, <1>3, <1>4 DEF CountThread, CountNodes, CountBecomes, ThreadCount!Owned, CountHolds
  <2> QED BY <1>1, <1>2, <1>3, <2>1, CountStay
<1>8. CountGuard'
  <2>1. t \in ThreadCount!Popping
    BY <1>2 DEF ThreadCount!Popping
  <2>2. CASE threads_in_pop = 1
    <3>1. \A u \in Threads : pc[u] = "swing" => u = t
      BY <1>1, <2>1, <2>2, CountAlone
    <3> QED BY <1>2, <1>3, <3>1 DEF CountGuard, CountBecomes
  <2>3. CASE threads_in_pop # 1
    <3>1. CountDooms(t)' \subseteq CountDooms(t) /\ alive \subseteq alive'
      BY <1>2, <1>3, <2>3 DEF CountDooms, CountBecomes
    <3> QED BY <1>1, <1>3, <3>1, CountElsewhere
  <2> QED BY <2>2, <2>3
<1>9. /\ threads_in_pop' = Cardinality(ThreadCount!Popping)'
      /\ (empties + Cardinality(CountLooking) <= pops)'
  <2>1. threads_in_pop' = Cardinality(ThreadCount!Popping)'
    <3>1. ThreadCount!Popping' = ThreadCount!Popping
      BY <1>2, <1>3 DEF ThreadCount!Popping, CountBecomes
    <3> QED BY <1>1, <1>2, <3>1
  <2>2. (empties + Cardinality(CountLooking) <= pops)'
    <3>1. CountLooking' = CountLooking
      BY <1>2, <1>3 DEF CountLooking, CountBecomes
    <3> QED BY <1>1, <1>2, <3>1
  <2> QED BY <2>1, <2>2
<1>10. CountLifo(c, c)
  BY <1>2 DEF CountLifo, LifoStep
<1> QED BY <1>5, <1>6, <1>7, <1>8, <1>9, <1>10 DEF CountInv

(* If it was, it takes to_be_deleted.                                       *)
LEMMA CountClaim ==
  ASSUME NEW c, CountInv(c), NEW t \in Threads, ThreadCount!Claim(t)
  PROVE  CountInv(c)' /\ CountLifo(c, c)
<1>1. /\ CountTypes /\ CountThread(t) /\ (\A u \in Threads : CountThread(u))
      /\ CountNodes(c) /\ CountGuard /\ DataApart(CountHeld(c))
      /\ threads_in_pop = Cardinality(ThreadCount!Popping)
      /\ empties + Cardinality(CountLooking) <= pops
  BY DEF CountInv
<1>2. /\ pc[t] = "claim" /\ head' = head /\ next' = next /\ data' = data /\ alive' = alive
      /\ to_be_deleted' = {} /\ threads_in_pop' = threads_in_pop /\ pops' = pops
      /\ out' = out /\ empties' = empties /\ process' = process
  BY DEF ThreadCount!Claim, ThreadCount!stack, ThreadCount!reclaim, ThreadCount!history, ThreadCount!Goto, ThreadCount!ClearList
<1>3. CountBecomes(t, "leave", old[t], to_be_deleted)
  BY <1>1 DEF CountTypes, CountPlaces, CountBecomes, ThreadCount!Claim, ThreadCount!stack,
    ThreadCount!reclaim, ThreadCount!Goto
<1>4. /\ head \in Nodes \cup {Null} /\ old[t] \in Nodes \cup {Null}
      /\ claimed[t] \in SUBSET Nodes /\ to_be_deleted \in SUBSET Nodes
  BY <1>1 DEF CountTypes
<1>5. CountTypes'
  BY <1>1, <1>2, <1>3, <1>4 DEF CountTypes, CountThread, CountBecomes
<1>6. \A u \in Threads : CountThread(u)'
  BY <1>1, <1>2, <1>3, <1>4 DEF CountThread, CountBecomes
<1>7. CountNodes(c)' /\ DataApart(CountHeld(c))'
  <2>1. claimed[t] = {} /\ ThreadCount!Owned(t) = {old[t]} \ {Null} /\ CountHolds(t) = {}
    BY <1>1, <1>2 DEF CountThread, ThreadCount!Owned, CountHolds
  <2>2. \A u \in Threads : ThreadCount!Owned(u)' = IF u = t THEN to_be_deleted \cup ({old[t]} \ {Null})
                                                 ELSE ThreadCount!Owned(u)
    BY <1>2, <1>3 DEF CountBecomes, ThreadCount!Owned
  <2>3. \A u \in Threads : CountHolds(u)' = CountHolds(u)
    BY <1>2, <1>3 DEF CountBecomes, CountHolds
  <2>4. old[t] \notin to_be_deleted
    BY <1>1, <1>4, <2>1 DEF CountNodes
  <2> DEFINE n == {old[t]} \ {Null}
  <2> HIDE DEF n
  <2>5. /\ ThreadCount!Owned(t) = n
        /\ \A u \in Threads : ThreadCount!Owned(u)' = IF u = t THEN to_be_deleted \cup n
                                                      ELSE ThreadCount!Owned(u)
    BY <2>1, <2>2 DEF n
  <2>6. CountNodes(c)'
    BY <1>1, <1>2, <1>3, <2>4, <2>5 DEF CountNodes, CountBecomes
  <2>7. CountHeld(c)' = CountHeld(c)
    BY <2>3 DEF CountHeld
  <2> QED BY <1>1, <1>2, <2>6, <2>7 DEF DataApart
<1>8. CountGuard'
  <2>1. CountDooms(t)' \subseteq CountDooms(t) /\ alive \subseteq alive'
    BY <1>1, <1>2, <1>3 DEF CountDooms, CountThread, CountBecomes
  <2> QED BY <1>1, <1>2, <1>3, <2>1, CountElsewhere
<1>9. /\ threads_in_pop' = Cardinality(ThreadCount!Popping)'
      /\ (empties + Cardinality(CountLooking) <= pops)'
  <2>1. threads_in_pop' = Cardinality(ThreadCount!Popping)'
    <3>1. ThreadCount!Popping' = ThreadCount!Popping
      BY <1>2, <1>3 DEF ThreadCount!Popping, CountBecomes
    <3> QED BY <1>1, <1>2, <3>1
  <2>2. (empties + Cardinality(CountLooking) <= pops)'
    <3>1. CountLooking' = CountLooking
      BY <1>2, <1>3 DEF CountLooking, CountBecomes
    <3> QED BY <1>1, <1>2, <3>1
  <2> QED BY <2>1, <2>2
<1>10. CountLifo(c, c)
  BY <1>2 DEF CountLifo, LifoStep
<1> QED BY <1>5, <1>6, <1>7, <1>8, <1>9, <1>10 DEF CountInv

(* It is not counted any longer, and looks again whether it was alone.      *)
LEMMA CountLeave ==
  ASSUME NEW c, CountInv(c), NEW t \in Threads, ThreadCount!Leave(t)
  PROVE  CountInv(c)' /\ CountLifo(c, c)
<1>1. /\ CountTypes /\ CountThread(t) /\ (\A u \in Threads : CountThread(u))
      /\ CountNodes(c) /\ CountGuard /\ DataApart(CountHeld(c))
      /\ threads_in_pop = Cardinality(ThreadCount!Popping)
      /\ empties + Cardinality(CountLooking) <= pops
  BY DEF CountInv
<1>2. /\ pc[t] = "leave" /\ head' = head /\ next' = next /\ data' = data /\ alive' = alive
      /\ to_be_deleted' = to_be_deleted /\ threads_in_pop' = threads_in_pop - 1
      /\ pops' = pops /\ out' = out /\ empties' = empties /\ process' = process
  BY DEF ThreadCount!Leave, ThreadCount!stack, ThreadCount!reclaim, ThreadCount!history, ThreadCount!Goto, ThreadCount!UncountSelf, ThreadCount!StillAlone
<1>3. CountBecomes(t, IF threads_in_pop = 1 \/ claimed[t] = {} THEN "delete" ELSE "rechain", old[t], claimed[t])
  BY <1>1 DEF CountTypes, CountPlaces, CountBecomes, ThreadCount!Leave, ThreadCount!stack,
    ThreadCount!reclaim, ThreadCount!Goto, ThreadCount!StillAlone
<1>4. /\ head \in Nodes \cup {Null} /\ old[t] \in Nodes \cup {Null}
      /\ claimed[t] \in SUBSET Nodes /\ to_be_deleted \in SUBSET Nodes
  BY <1>1 DEF CountTypes
<1>5. CountTypes'
  <2>1. t \in ThreadCount!Popping /\ ThreadCount!Popping \in SUBSET Threads
    BY <1>2 DEF ThreadCount!Popping
  <2>2. threads_in_pop \in Nat \ {0}
    BY <1>1, <2>1, OneLess
  <2> QED BY <1>1, <1>2, <1>3, <2>2 DEF CountTypes, CountBecomes
<1>6. \A u \in Threads : CountThread(u)'
  BY <1>1, <1>2, <1>3, <1>4 DEF CountThread, CountBecomes
<1>7. CountNodes(c)' /\ DataApart(CountHeld(c))'
  <2>1. /\ claimed[t] \in SUBSET Nodes /\ (old[t]) \notin claimed[t]
        /\ ThreadCount!Owned(t)' = ThreadCount!Owned(t) /\ CountHolds(t)' = CountHolds(t)
    BY <1>1, <1>2, <1>3, <1>4 DEF CountThread, CountNodes, CountBecomes, ThreadCount!Owned, CountHolds
  <2> QED BY <1>1, <1>2, <1>3, <2>1, CountStay
<1>8. CountGuard'
  <2>1. t \in ThreadCount!Popping
    BY <1>2 DEF ThreadCount!Popping
  <2>2. CASE threads_in_pop = 1
    <3>1. \A u \in Threads : pc[u] = "swing" => u = t
      BY <1>1, <2>1, <2>2, CountAlone
    <3> QED BY <1>2, <1>3, <3>1 DEF CountGuard, CountBecomes
  <2>3. CASE threads_in_pop # 1
    <3>1. CountDooms(t)' \subseteq CountDooms(t) /\ alive \subseteq alive'
      BY <1>2, <1>3, <2>3 DEF CountDooms, CountBecomes
    <3> QED BY <1>1, <1>3, <3>1, CountElsewhere
  <2> QED BY <2>2, <2>3
<1>9. /\ threads_in_pop' = Cardinality(ThreadCount!Popping)'
      /\ (empties + Cardinality(CountLooking) <= pops)'
  <2>1. threads_in_pop' = Cardinality(ThreadCount!Popping)'
    <3>1. ThreadCount!Popping' = ThreadCount!Popping \ {t} /\ t \in ThreadCount!Popping
      BY <1>2, <1>3 DEF ThreadCount!Popping, CountBecomes
    <3>2. ThreadCount!Popping \in SUBSET Threads /\ pops \in Nat /\ empties \in Nat
      BY <1>1 DEF ThreadCount!Popping, CountTypes
    <3>3. Cardinality(ThreadCount!Popping) \in Nat /\ Cardinality(ThreadCount!Popping)' = Cardinality(ThreadCount!Popping) - 1
      BY <3>1, <3>2, OneLess
    <3> QED BY <1>1, <1>2, <3>2, <3>3
  <2>2. (empties + Cardinality(CountLooking) <= pops)'
    <3>1. CountLooking' = CountLooking
      BY <1>2, <1>3 DEF CountLooking, CountBecomes
    <3> QED BY <1>1, <1>2, <3>1
  <2> QED BY <2>1, <2>2
<1>10. CountLifo(c, c)
  BY <1>2 DEF CountLifo, LifoStep
<1> QED BY <1>5, <1>6, <1>7, <1>8, <1>9, <1>10 DEF CountInv

(* It deletes a node of the list it took.                                   *)
LEMMA CountDeleteClaimed ==
  ASSUME NEW c, CountInv(c), NEW t \in Threads, NEW n \in Nodes,
         ThreadCount!DeleteClaimed(t, n)
  PROVE  CountInv(c)' /\ CountLifo(c, c)
<1>1. /\ CountTypes /\ CountThread(t) /\ (\A u \in Threads : CountThread(u))
      /\ CountNodes(c) /\ CountGuard /\ DataApart(CountHeld(c))
      /\ threads_in_pop = Cardinality(ThreadCount!Popping)
      /\ empties + Cardinality(CountLooking) <= pops
  BY DEF CountInv
<1>2. /\ pc[t] = "delete" /\ n \in claimed[t] /\ head' = head /\ next' = next
      /\ data' = data /\ alive' = alive \ {n} /\ to_be_deleted' = to_be_deleted
      /\ threads_in_pop' = threads_in_pop /\ pops' = pops /\ out' = out
      /\ empties' = empties /\ process' = process
  BY DEF ThreadCount!DeleteClaimed, ThreadCount!stack, ThreadCount!reclaim, ThreadCount!history, ThreadCount!Goto
<1>3. CountBecomes(t, pc[t], old[t], claimed[t] \ {n})
  BY <1>1 DEF CountTypes, CountPlaces, CountBecomes, ThreadCount!DeleteClaimed, ThreadCount!stack,
    ThreadCount!reclaim, ThreadCount!Goto
<1>4. /\ head \in Nodes \cup {Null} /\ old[t] \in Nodes \cup {Null}
      /\ claimed[t] \in SUBSET Nodes /\ to_be_deleted \in SUBSET Nodes
  BY <1>1 DEF CountTypes
<1>5. CountTypes'
  BY <1>1, <1>2, <1>3, <1>4 DEF CountTypes, CountThread, CountBecomes
<1>6. \A u \in Threads : CountThread(u)'
  BY <1>1, <1>2, <1>3, <1>4 DEF CountThread, CountBecomes
<1>7. CountNodes(c)' /\ DataApart(CountHeld(c))'
  <2>1. n \in ThreadCount!Owned(t) /\ n # old[t]
    BY <1>1, <1>2 DEF CountNodes, ThreadCount!Owned
  <2>2. \A u \in Threads : ThreadCount!Owned(u)' = IF u = t THEN ThreadCount!Owned(t) \ {n}
                                                 ELSE ThreadCount!Owned(u)
    BY <1>2, <1>3, <2>1 DEF CountBecomes, ThreadCount!Owned
  <2>3. \A u \in Threads : CountHolds(u)' = CountHolds(u)
    BY <1>2, <1>3 DEF CountBecomes, CountHolds
  <2>4. CountNodes(c)'
    BY <1>1, <1>2, <1>3, <2>1, <2>2 DEF CountNodes, CountBecomes
  <2>5. CountHeld(c)' = CountHeld(c)
    BY <2>3 DEF CountHeld
  <2> QED BY <1>1, <1>2, <2>4, <2>5 DEF DataApart
<1>8. CountGuard'
  <2>1. \A u \in Threads : CountDooms(u)' \subseteq CountDooms(u)
    BY <1>2, <1>3 DEF CountDooms, CountBecomes
  <2>2. n \in CountDooms(t)
    BY <1>2 DEF CountDooms
  <2> QED BY <1>1, <1>2, <1>3, <2>1, <2>2 DEF CountGuard, CountBecomes
<1>9. /\ threads_in_pop' = Cardinality(ThreadCount!Popping)'
      /\ (empties + Cardinality(CountLooking) <= pops)'
  <2>1. threads_in_pop' = Cardinality(ThreadCount!Popping)'
    <3>1. ThreadCount!Popping' = ThreadCount!Popping
      BY <1>2, <1>3 DEF ThreadCount!Popping, CountBecomes
    <3> QED BY <1>1, <1>2, <3>1
  <2>2. (empties + Cardinality(CountLooking) <= pops)'
    <3>1. CountLooking' = CountLooking
      BY <1>2, <1>3 DEF CountLooking, CountBecomes
    <3> QED BY <1>1, <1>2, <3>1
  <2> QED BY <2>1, <2>2
<1>10. CountLifo(c, c)
  BY <1>2 DEF CountLifo, LifoStep
<1> QED BY <1>5, <1>6, <1>7, <1>8, <1>9, <1>10 DEF CountInv

(* And the node it popped.                                                  *)
LEMMA CountDeletePopped ==
  ASSUME NEW c, CountInv(c), NEW t \in Threads, ThreadCount!DeletePopped(t)
  PROVE  CountInv(c)' /\ CountLifo(c, c)
<1>1. /\ CountTypes /\ CountThread(t) /\ (\A u \in Threads : CountThread(u))
      /\ CountNodes(c) /\ CountGuard /\ DataApart(CountHeld(c))
      /\ threads_in_pop = Cardinality(ThreadCount!Popping)
      /\ empties + Cardinality(CountLooking) <= pops
  BY DEF CountInv
<1>2. /\ pc[t] = "delete" /\ claimed[t] = {} /\ head' = head /\ next' = next
      /\ data' = data /\ alive' = alive \ {old[t]} /\ to_be_deleted' = to_be_deleted
      /\ threads_in_pop' = threads_in_pop /\ pops' = pops /\ out' = out
      /\ empties' = empties /\ process' = process
  BY DEF ThreadCount!DeletePopped, ThreadCount!stack, ThreadCount!reclaim, ThreadCount!history, ThreadCount!Goto
<1>3. CountBecomes(t, "idle", old[t], claimed[t])
  BY <1>1 DEF CountTypes, CountPlaces, CountBecomes, ThreadCount!DeletePopped, ThreadCount!stack,
    ThreadCount!reclaim, ThreadCount!Goto
<1>4. /\ head \in Nodes \cup {Null} /\ old[t] \in Nodes \cup {Null}
      /\ claimed[t] \in SUBSET Nodes /\ to_be_deleted \in SUBSET Nodes
  BY <1>1 DEF CountTypes
<1>5. CountTypes'
  BY <1>1, <1>2, <1>3, <1>4 DEF CountTypes, CountThread, CountBecomes
<1>6. \A u \in Threads : CountThread(u)'
  BY <1>1, <1>2, <1>3, <1>4 DEF CountThread, CountBecomes
<1>7. CountNodes(c)' /\ DataApart(CountHeld(c))'
  <2> DEFINE n == old[t]
  <2>1. ThreadCount!Owned(t) = {n} \ {Null} /\ claimed[t] = {} /\ alive' = alive \ {n} /\ Null \notin alive
    BY <1>1, <1>2 DEF CountTypes, ThreadCount!Owned
  <2> HIDE DEF n
  <2>2. \A u \in Threads : ThreadCount!Owned(u)' = IF u = t THEN {} ELSE ThreadCount!Owned(u)
    BY <1>2, <1>3, <2>1 DEF CountBecomes, ThreadCount!Owned
  <2>3. \A u \in Threads : CountHolds(u)' = CountHolds(u)
    BY <1>2, <1>3 DEF CountBecomes, CountHolds
  <2>4. CountNodes(c)'
    BY <1>1, <1>2, <1>3, <2>1, <2>2 DEF CountNodes, CountBecomes
  <2>5. CountHeld(c)' = CountHeld(c)
    BY <2>3 DEF CountHeld
  <2> QED BY <1>1, <1>2, <2>4, <2>5 DEF DataApart
<1>8. CountGuard'
  <2>1. \A u \in Threads : CountDooms(u)' \subseteq CountDooms(u)
    BY <1>2, <1>3 DEF CountDooms, CountBecomes
  <2>2. old[t] \in CountDooms(t)
    BY <1>2 DEF CountDooms
  <2> QED BY <1>1, <1>2, <1>3, <2>1, <2>2 DEF CountGuard, CountBecomes
<1>9. /\ threads_in_pop' = Cardinality(ThreadCount!Popping)'
      /\ (empties + Cardinality(CountLooking) <= pops)'
  <2>1. threads_in_pop' = Cardinality(ThreadCount!Popping)'
    <3>1. ThreadCount!Popping' = ThreadCount!Popping
      BY <1>2, <1>3 DEF ThreadCount!Popping, CountBecomes
    <3> QED BY <1>1, <1>2, <3>1
  <2>2. (empties + Cardinality(CountLooking) <= pops)'
    <3>1. CountLooking' = CountLooking
      BY <1>2, <1>3 DEF CountLooking, CountBecomes
    <3> QED BY <1>1, <1>2, <3>1
  <2> QED BY <2>1, <2>2
<1>10. CountLifo(c, c)
  BY <1>2 DEF CountLifo, LifoStep
<1> QED BY <1>5, <1>6, <1>7, <1>8, <1>9, <1>10 DEF CountInv

(* It was not alone: the list it took goes back.                            *)
LEMMA CountRechain ==
  ASSUME NEW c, CountInv(c), NEW t \in Threads, ThreadCount!Rechain(t)
  PROVE  CountInv(c)' /\ CountLifo(c, c)
<1>1. /\ CountTypes /\ CountThread(t) /\ (\A u \in Threads : CountThread(u))
      /\ CountNodes(c) /\ CountGuard /\ DataApart(CountHeld(c))
      /\ threads_in_pop = Cardinality(ThreadCount!Popping)
      /\ empties + Cardinality(CountLooking) <= pops
  BY DEF CountInv
<1>2. /\ pc[t] = "rechain" /\ head' = head /\ next' = next /\ data' = data
      /\ alive' = alive /\ to_be_deleted' = to_be_deleted \cup claimed[t]
      /\ threads_in_pop' = threads_in_pop /\ pops' = pops /\ out' = out
      /\ empties' = empties /\ process' = process
  BY DEF ThreadCount!Rechain, ThreadCount!stack, ThreadCount!reclaim, ThreadCount!history, ThreadCount!Goto
<1>3. CountBecomes(t, "delete", old[t], {})
  BY <1>1 DEF CountTypes, CountPlaces, CountBecomes, ThreadCount!Rechain, ThreadCount!stack,
    ThreadCount!reclaim, ThreadCount!Goto
<1>4. /\ head \in Nodes \cup {Null} /\ old[t] \in Nodes \cup {Null}
      /\ claimed[t] \in SUBSET Nodes /\ to_be_deleted \in SUBSET Nodes
  BY <1>1 DEF CountTypes
<1>5. CountTypes'
  BY <1>1, <1>2, <1>3, <1>4 DEF CountTypes, CountThread, CountBecomes
<1>6. \A u \in Threads : CountThread(u)'
  BY <1>1, <1>2, <1>3, <1>4 DEF CountThread, CountBecomes
<1>7. CountNodes(c)' /\ DataApart(CountHeld(c))'
  <2> DEFINE n == {old[t]} \ {Null}
           m == claimed[t]
  <2>1. ThreadCount!Owned(t) = m \cup n
    BY <1>2 DEF ThreadCount!Owned
  <2>2. \A u \in Threads : ThreadCount!Owned(u)' = IF u = t THEN n ELSE ThreadCount!Owned(u)
    BY <1>2, <1>3 DEF CountBecomes, ThreadCount!Owned
  <2>3. \A u \in Threads : CountHolds(u)' = CountHolds(u)
    BY <1>2, <1>3 DEF CountBecomes, CountHolds
  <2>4. n \cap m = {} /\ to_be_deleted' = to_be_deleted \cup m
    BY <1>1, <1>2 DEF CountNodes
  <2> HIDE DEF n, m
  <2>5. CountNodes(c)'
    BY <1>1, <1>2, <1>3, <2>1, <2>2, <2>4 DEF CountNodes, CountBecomes
  <2>6. CountHeld(c)' = CountHeld(c)
    BY <2>3 DEF CountHeld
  <2> QED BY <1>1, <1>2, <2>5, <2>6 DEF DataApart
<1>8. CountGuard'
  <2>1. CountDooms(t)' \subseteq CountDooms(t) /\ alive \subseteq alive'
    BY <1>1, <1>2, <1>3 DEF CountDooms, CountThread, CountBecomes
  <2> QED BY <1>1, <1>2, <1>3, <2>1, CountElsewhere
<1>9. /\ threads_in_pop' = Cardinality(ThreadCount!Popping)'
      /\ (empties + Cardinality(CountLooking) <= pops)'
  <2>1. threads_in_pop' = Cardinality(ThreadCount!Popping)'
    <3>1. ThreadCount!Popping' = ThreadCount!Popping
      BY <1>2, <1>3 DEF ThreadCount!Popping, CountBecomes
    <3> QED BY <1>1, <1>2, <3>1
  <2>2. (empties + Cardinality(CountLooking) <= pops)'
    <3>1. CountLooking' = CountLooking
      BY <1>2, <1>3 DEF CountLooking, CountBecomes
    <3> QED BY <1>1, <1>2, <3>1
  <2> QED BY <2>1, <2>2
<1>10. CountLifo(c, c)
  BY <1>2 DEF CountLifo, LifoStep
<1> QED BY <1>5, <1>6, <1>7, <1>8, <1>9, <1>10 DEF CountInv

(* A pop that is not alone puts its node on to_be_deleted.                  *)
LEMMA CountChain ==
  ASSUME NEW c, CountInv(c), NEW t \in Threads, ThreadCount!Chain(t)
  PROVE  CountInv(c)' /\ CountLifo(c, c)
<1>1. /\ CountTypes /\ CountThread(t) /\ (\A u \in Threads : CountThread(u))
      /\ CountNodes(c) /\ CountGuard /\ DataApart(CountHeld(c))
      /\ threads_in_pop = Cardinality(ThreadCount!Popping)
      /\ empties + Cardinality(CountLooking) <= pops
  BY DEF CountInv
<1>2. /\ pc[t] = "chain" /\ old[t] # Null /\ head' = head /\ next' = next /\ data' = data
      /\ alive' = alive /\ to_be_deleted' = to_be_deleted \cup {old[t]}
      /\ threads_in_pop' = threads_in_pop /\ pops' = pops /\ out' = out
      /\ empties' = empties /\ process' = process
  BY DEF ThreadCount!Chain, ThreadCount!stack, ThreadCount!reclaim, ThreadCount!history, ThreadCount!Goto
<1>3. CountBecomes(t, "uncount", old[t], claimed[t])
  BY <1>1 DEF CountTypes, CountPlaces, CountBecomes, ThreadCount!Chain, ThreadCount!stack,
    ThreadCount!reclaim, ThreadCount!Goto
<1>4. /\ head \in Nodes \cup {Null} /\ old[t] \in Nodes \cup {Null}
      /\ claimed[t] \in SUBSET Nodes /\ to_be_deleted \in SUBSET Nodes
  BY <1>1 DEF CountTypes
<1>5. CountTypes'
  BY <1>1, <1>2, <1>3, <1>4 DEF CountTypes, CountThread, CountBecomes
<1>6. \A u \in Threads : CountThread(u)'
  BY <1>1, <1>2, <1>3, <1>4 DEF CountThread, CountBecomes
<1>7. CountNodes(c)' /\ DataApart(CountHeld(c))'
  <2> DEFINE n == old[t]
  <2>1. ThreadCount!Owned(t) = {n} /\ claimed[t] = {} /\ to_be_deleted' = to_be_deleted \cup {n}
    BY <1>1, <1>2 DEF CountThread, ThreadCount!Owned
  <2>2. \A u \in Threads : ThreadCount!Owned(u)' = IF u = t THEN {} ELSE ThreadCount!Owned(u)
    BY <1>2, <1>3, <2>1 DEF CountBecomes, ThreadCount!Owned
  <2>3. \A u \in Threads : CountHolds(u)' = CountHolds(u)
    BY <1>2, <1>3 DEF CountBecomes, CountHolds
  <2> HIDE DEF n
  <2>4. CountNodes(c)'
    BY <1>1, <1>2, <1>3, <2>1, <2>2 DEF CountNodes, CountBecomes
  <2>5. CountHeld(c)' = CountHeld(c)
    BY <2>3 DEF CountHeld
  <2> QED BY <1>1, <1>2, <2>4, <2>5 DEF DataApart
<1>8. CountGuard'
  <2>1. CountDooms(t)' \subseteq CountDooms(t) /\ alive \subseteq alive'
    BY <1>1, <1>2, <1>3 DEF CountDooms, CountThread, CountBecomes
  <2> QED BY <1>1, <1>2, <1>3, <2>1, CountElsewhere
<1>9. /\ threads_in_pop' = Cardinality(ThreadCount!Popping)'
      /\ (empties + Cardinality(CountLooking) <= pops)'
  <2>1. threads_in_pop' = Cardinality(ThreadCount!Popping)'
    <3>1. ThreadCount!Popping' = ThreadCount!Popping
      BY <1>2, <1>3 DEF ThreadCount!Popping, CountBecomes
    <3> QED BY <1>1, <1>2, <3>1
  <2>2. (empties + Cardinality(CountLooking) <= pops)'
    <3>1. CountLooking' = CountLooking
      BY <1>2, <1>3 DEF CountLooking, CountBecomes
    <3> QED BY <1>1, <1>2, <3>1
  <2> QED BY <2>1, <2>2
<1>10. CountLifo(c, c)
  BY <1>2 DEF CountLifo, LifoStep
<1> QED BY <1>5, <1>6, <1>7, <1>8, <1>9, <1>10 DEF CountInv

(* A pop of nothing that is not alone crashes the program.                  *)
LEMMA CountChainNull ==
  ASSUME NEW c, CountInv(c), NEW t \in Threads, ThreadCount!ChainNull(t)
  PROVE  CountInv(c)' /\ CountLifo(c, c)
<1>1. /\ CountTypes /\ CountThread(t) /\ (\A u \in Threads : CountThread(u))
      /\ CountNodes(c) /\ CountGuard /\ DataApart(CountHeld(c))
      /\ threads_in_pop = Cardinality(ThreadCount!Popping)
      /\ empties + Cardinality(CountLooking) <= pops
  BY DEF CountInv
<1>2. /\ pc[t] = "chain" /\ old[t] = Null /\ head' = head /\ next' = next /\ data' = data
      /\ alive' = alive /\ to_be_deleted' = to_be_deleted
      /\ threads_in_pop' = threads_in_pop /\ pops' = pops /\ out' = out
      /\ empties' = empties /\ process' = "crashed"
  BY DEF ThreadCount!ChainNull, ThreadCount!stack, ThreadCount!reclaim, ThreadCount!history, ThreadCount!Goto
<1>3. CountBecomes(t, pc[t], old[t], claimed[t])
  BY <1>1 DEF CountTypes, CountPlaces, CountBecomes, ThreadCount!ChainNull, ThreadCount!stack,
    ThreadCount!reclaim, ThreadCount!Goto
<1>4. /\ head \in Nodes \cup {Null} /\ old[t] \in Nodes \cup {Null}
      /\ claimed[t] \in SUBSET Nodes /\ to_be_deleted \in SUBSET Nodes
  BY <1>1 DEF CountTypes
<1>5. CountTypes'
  BY <1>1, <1>2, <1>3, <1>4 DEF CountTypes, CountThread, CountBecomes
<1>6. \A u \in Threads : CountThread(u)'
  BY <1>1, <1>2, <1>3, <1>4 DEF CountThread, CountBecomes
<1>7. CountNodes(c)' /\ DataApart(CountHeld(c))'
  <2>1. /\ claimed[t] \in SUBSET Nodes /\ (old[t]) \notin claimed[t]
        /\ ThreadCount!Owned(t)' = ThreadCount!Owned(t) /\ CountHolds(t)' = CountHolds(t)
    BY <1>1, <1>2, <1>3, <1>4 DEF CountThread, CountNodes, CountBecomes, ThreadCount!Owned, CountHolds
  <2> QED BY <1>1, <1>2, <1>3, <2>1, CountStay
<1>8. CountGuard'
  <2>1. CountDooms(t)' \subseteq CountDooms(t) /\ alive \subseteq alive'
    BY <1>1, <1>2, <1>3 DEF CountDooms, CountThread, CountBecomes
  <2> QED BY <1>1, <1>2, <1>3, <2>1, CountElsewhere
<1>9. /\ threads_in_pop' = Cardinality(ThreadCount!Popping)'
      /\ (empties + Cardinality(CountLooking) <= pops)'
  <2>1. threads_in_pop' = Cardinality(ThreadCount!Popping)'
    <3>1. ThreadCount!Popping' = ThreadCount!Popping
      BY <1>2, <1>3 DEF ThreadCount!Popping, CountBecomes
    <3> QED BY <1>1, <1>2, <3>1
  <2>2. (empties + Cardinality(CountLooking) <= pops)'
    <3>1. CountLooking' = CountLooking
      BY <1>2, <1>3 DEF CountLooking, CountBecomes
    <3> QED BY <1>1, <1>2, <3>1
  <2> QED BY <2>1, <2>2
<1>10. CountLifo(c, c)
  BY <1>2 DEF CountLifo, LifoStep
<1> QED BY <1>5, <1>6, <1>7, <1>8, <1>9, <1>10 DEF CountInv

(* It is not counted any longer.                                            *)
LEMMA CountUncount ==
  ASSUME NEW c, CountInv(c), NEW t \in Threads, ThreadCount!Uncount(t)
  PROVE  CountInv(c)' /\ CountLifo(c, c)
<1>1. /\ CountTypes /\ CountThread(t) /\ (\A u \in Threads : CountThread(u))
      /\ CountNodes(c) /\ CountGuard /\ DataApart(CountHeld(c))
      /\ threads_in_pop = Cardinality(ThreadCount!Popping)
      /\ empties + Cardinality(CountLooking) <= pops
  BY DEF CountInv
<1>2. /\ pc[t] = "uncount" /\ head' = head /\ next' = next /\ data' = data
      /\ alive' = alive /\ to_be_deleted' = to_be_deleted
      /\ threads_in_pop' = threads_in_pop - 1 /\ pops' = pops /\ out' = out
      /\ empties' = empties /\ process' = process
  BY DEF ThreadCount!Uncount, ThreadCount!stack, ThreadCount!reclaim, ThreadCount!history, ThreadCount!Goto, ThreadCount!UncountSelf
<1>3. CountBecomes(t, "idle", old[t], claimed[t])
  BY <1>1 DEF CountTypes, CountPlaces, CountBecomes, ThreadCount!Uncount, ThreadCount!stack,
    ThreadCount!reclaim, ThreadCount!Goto
<1>4. /\ head \in Nodes \cup {Null} /\ old[t] \in Nodes \cup {Null}
      /\ claimed[t] \in SUBSET Nodes /\ to_be_deleted \in SUBSET Nodes
  BY <1>1 DEF CountTypes
<1>5. CountTypes'
  <2>1. t \in ThreadCount!Popping /\ ThreadCount!Popping \in SUBSET Threads
    BY <1>2 DEF ThreadCount!Popping
  <2>2. threads_in_pop \in Nat \ {0}
    BY <1>1, <2>1, OneLess
  <2> QED BY <1>1, <1>2, <1>3, <2>2 DEF CountTypes, CountBecomes
<1>6. \A u \in Threads : CountThread(u)'
  BY <1>1, <1>2, <1>3, <1>4 DEF CountThread, CountBecomes
<1>7. CountNodes(c)' /\ DataApart(CountHeld(c))'
  <2>1. /\ claimed[t] \in SUBSET Nodes /\ (old[t]) \notin claimed[t]
        /\ ThreadCount!Owned(t)' = ThreadCount!Owned(t) /\ CountHolds(t)' = CountHolds(t)
    BY <1>1, <1>2, <1>3, <1>4 DEF CountThread, CountNodes, CountBecomes, ThreadCount!Owned, CountHolds
  <2> QED BY <1>1, <1>2, <1>3, <2>1, CountStay
<1>8. CountGuard'
  <2>1. CountDooms(t)' \subseteq CountDooms(t) /\ alive \subseteq alive'
    BY <1>1, <1>2, <1>3 DEF CountDooms, CountThread, CountBecomes
  <2> QED BY <1>1, <1>2, <1>3, <2>1, CountElsewhere
<1>9. /\ threads_in_pop' = Cardinality(ThreadCount!Popping)'
      /\ (empties + Cardinality(CountLooking) <= pops)'
  <2>1. threads_in_pop' = Cardinality(ThreadCount!Popping)'
    <3>1. ThreadCount!Popping' = ThreadCount!Popping \ {t} /\ t \in ThreadCount!Popping
      BY <1>2, <1>3 DEF ThreadCount!Popping, CountBecomes
    <3>2. ThreadCount!Popping \in SUBSET Threads /\ pops \in Nat /\ empties \in Nat
      BY <1>1 DEF ThreadCount!Popping, CountTypes
    <3>3. Cardinality(ThreadCount!Popping) \in Nat /\ Cardinality(ThreadCount!Popping)' = Cardinality(ThreadCount!Popping) - 1
      BY <3>1, <3>2, OneLess
    <3> QED BY <1>1, <1>2, <3>2, <3>3
  <2>2. (empties + Cardinality(CountLooking) <= pops)'
    <3>1. CountLooking' = CountLooking
      BY <1>2, <1>3 DEF CountLooking, CountBecomes
    <3> QED BY <1>1, <1>2, <3>1
  <2> QED BY <2>1, <2>2
<1>10. CountLifo(c, c)
  BY <1>2 DEF CountLifo, LifoStep
<1> QED BY <1>5, <1>6, <1>7, <1>8, <1>9, <1>10 DEF CountInv

(* The list is the one that Elements follows.                               *)
LEMMA CountPath ==
  ASSUME NEW c, CountInv(c)
  PROVE  ThreadCount!Linked = Members(c) /\ ThreadCount!Elements = Along(data, c)
<1> DEFINE K == Cardinality(Nodes)
           p == PathFrom(head, next, K)
<1>1. ThreadCount!Path = p
  BY DEF PathFrom, ThreadCount!Path, ThreadCount!Cardinality, Cardinality,
    ThreadCount!IsFiniteSet, IsFiniteSet
<1> HIDE DEF p, K
<1>2. Whole(c, p)
  BY ListWhole DEF p, K, CountInv, CountNodes, CountTypes
<1>3. ThreadCount!Linked = Members(c)
  <2>1. { p[k] : k \in 0..K } \ {Null} = Members(c)
    BY <1>2 DEF K, Whole
  <2>2. ThreadCount!Linked = { p[k] : k \in 0..K } \ {Null}
    BY <1>1 DEF K, ThreadCount!Linked, ThreadCount!Cardinality, Cardinality,
      ThreadCount!IsFiniteSet, IsFiniteSet
  <2> QED BY <2>1, <2>2
<1>4. ThreadCount!Elements = [k \in 1..Len(c) |-> data[p[k - 1]]]
  <2>1. Cardinality(ThreadCount!Linked) = Len(c)
    BY <1>2, <1>3 DEF Whole
  <2>2. ThreadCount!Elements = [k \in 1..Cardinality(ThreadCount!Linked) |-> data[p[k - 1]]]
    BY <1>1 DEF ThreadCount!Elements, ThreadCount!Cardinality, Cardinality,
      ThreadCount!IsFiniteSet, IsFiniteSet
  <2> QED BY <2>1, <2>2
<1>5. [k \in 1..Len(c) |-> data[p[k - 1]]] = Along(data, c)
  BY <1>2 DEF Whole, Along
<1> QED BY <1>3, <1>4, <1>5

(* And after a step.                                                        *)
LEMMA CountPathNext ==
  ASSUME NEW c, CountInv(c)'
  PROVE  ThreadCount!Elements' = Along(data', c)
<1> DEFINE K == Cardinality(Nodes)
           p == PathFrom(head', next', K)
<1>1. ThreadCount!Path' = p
  BY DEF PathFrom, ThreadCount!Path, ThreadCount!Cardinality, Cardinality,
    ThreadCount!IsFiniteSet, IsFiniteSet
<1> HIDE DEF p, K
<1>2. Whole(c, p)
  BY ListWhole DEF p, K, CountInv, CountNodes, CountTypes
<1>3. ThreadCount!Linked' = Members(c)
  <2>1. { p[k] : k \in 0..K } \ {Null} = Members(c)
    BY <1>2 DEF K, Whole
  <2>2. ThreadCount!Linked' = { p[k] : k \in 0..K } \ {Null}
    BY <1>1 DEF K, ThreadCount!Linked, ThreadCount!Cardinality, Cardinality,
      ThreadCount!IsFiniteSet, IsFiniteSet
  <2> QED BY <2>1, <2>2
<1>4. ThreadCount!Elements' = [k \in 1..Len(c) |-> data'[p[k - 1]]]
  <2>1. Cardinality(ThreadCount!Linked') = Len(c)
    BY <1>2, <1>3 DEF Whole
  <2>2. ThreadCount!Elements' = [k \in 1..Cardinality(ThreadCount!Linked') |-> data'[p[k - 1]]]
    BY <1>1 DEF ThreadCount!Elements, ThreadCount!Cardinality, Cardinality,
      ThreadCount!IsFiniteSet, IsFiniteSet
  <2> QED BY <2>1, <2>2
<1>5. [k \in 1..Len(c) |-> data'[p[k - 1]]] = Along(data', c)
  BY <1>2 DEF Whole, Along
<1> QED BY <1>3, <1>4, <1>5

(* What the invariant says of the properties of ThreadCountStack.           *)
LEMMA CountMeans ==
  ASSUME NEW c, CountInv(c)
  PROVE  /\ ThreadCount!TypeOK /\ ThreadCount!NoUseAfterDelete /\ ThreadCount!OneOwner
         /\ ThreadCount!CountsThreads
<1>1. /\ CountTypes /\ (\A t \in Threads : CountThread(t)) /\ CountNodes(c) /\ CountGuard
      /\ threads_in_pop = Cardinality(ThreadCount!Popping)
      /\ empties + Cardinality(CountLooking) <= pops
  BY DEF CountInv
<1>2. ThreadCount!Linked = Members(c)
  BY CountPath
<1>3. ThreadCount!TypeOK
  <2>1. empties \in 0..(MaxPops + 1)
    <3>1. empties \in Nat /\ pops \in 0..(MaxPops + 1) /\ MaxPops \in Nat
      BY <1>1 DEF CountTypes
    <3>2. CountLooking \in SUBSET Threads
      BY DEF CountLooking
    <3>3. Cardinality(CountLooking) \in Nat
      BY <3>2, FS_Subset, FS_CardinalityType
    <3> QED BY <1>1, <3>1, <3>3
  <2> QED BY <1>1, <2>1 DEF CountTypes, CountPlaces, CountThread, ThreadCount!TypeOK
<1>4. ThreadCount!NoUseAfterDelete
  BY <1>1, <1>2 DEF CountNodes, CountGuard, ThreadCount!NoUseAfterDelete
<1>5. ThreadCount!OneOwner
  <2> SUFFICES ASSUME NEW n \in alive
               PROVE  Cardinality({ t \in Threads : n \in ThreadCount!Owned(t) })
                        + (IF n \in Members(c) THEN 1 ELSE 0)
                        + (IF n \in to_be_deleted THEN 1 ELSE 0) = 1
    BY <1>2 DEF ThreadCount!OneOwner, ThreadCount!Cardinality, Cardinality,
      ThreadCount!IsFiniteSet, IsFiniteSet
  <2> DEFINE own == { t \in Threads : n \in ThreadCount!Owned(t) }
  <2>1. CASE n \in Members(c) \cup to_be_deleted
    <3>1. own = {}
      BY <1>1, <2>1 DEF CountNodes
    <3>2. Cardinality(own) = 0
      BY <3>1, FS_EmptySet
    <3>3. ~(n \in Members(c) /\ n \in to_be_deleted)
      BY <1>1 DEF CountNodes
    <3> QED BY <2>1, <3>2, <3>3
  <2>2. CASE n \notin Members(c) \cup to_be_deleted
    <3>1. PICK t \in Threads : n \in ThreadCount!Owned(t)
      BY <1>1, <2>2 DEF CountNodes
    <3>2. own = {t}
      BY <1>1, <3>1 DEF CountNodes
    <3>3. Cardinality(own) = 1
      BY <3>2, FS_Singleton
    <3> QED BY <2>2, <3>3
  <2> QED BY <2>1, <2>2
<1>6. ThreadCount!CountsThreads
  BY <1>1 DEF ThreadCount!CountsThreads, ThreadCount!Cardinality, Cardinality,
    ThreadCount!IsFiniteSet, IsFiniteSet
<1> QED BY <1>3, <1>4, <1>5, <1>6

(* The stack is empty, and no thread has anything.                          *)
LEMMA CountInit ==
  ASSUME ThreadCount!Init
  PROVE  CountInv(<< >>) /\ ThreadCount!Lifo!Init
<1>1. CountTypes
  BY DEF ThreadCount!Init, CountTypes, CountPlaces
<1>2. /\ \A t \in Threads : pc[t] = "idle" /\ old[t] = Null /\ claimed[t] = {}
      /\ head = Null /\ alive = {} /\ to_be_deleted = {} /\ empties = 0 /\ pops = 0 /\ out = {}
      /\ threads_in_pop = 0
  BY DEF ThreadCount!Init
<1>3. \A t \in Threads : CountThread(t)
  BY <1>2 DEF CountThread
<1>4. ListFrom(Nodes, Null, head, next, << >>) /\ Members(<< >>) = {}
  <2>1. ListFrom(Nodes, Null, Null, next, << >>) /\ Members(<< >>) = {}
    BY ListEmpty
  <2> QED BY <1>2, <2>1
<1>5. \A t \in Threads : ThreadCount!Owned(t) = {} /\ CountHolds(t) = {}
  BY <1>2 DEF ThreadCount!Owned, CountHolds
<1>6. CountNodes(<< >>)
  BY <1>2, <1>4, <1>5 DEF CountNodes
<1>7. CountGuard
  BY <1>2 DEF CountGuard
<1>8. CountHeld(<< >>) = {}
  BY <1>4, <1>5 DEF CountHeld
<1>9. DataApart(CountHeld(<< >>))
  BY <1>8 DEF DataApart
<1>10. /\ threads_in_pop = Cardinality(ThreadCount!Popping)
       /\ empties + Cardinality(CountLooking) <= pops
  <2>1. CountLooking = {} /\ ThreadCount!Popping = {}
    BY <1>2 DEF CountLooking, ThreadCount!Popping
  <2> QED BY <1>2, <2>1, FS_EmptySet
<1>11. CountInv(<< >>)
  BY <1>1, <1>3, <1>6, <1>7, <1>9, <1>10 DEF CountInv
<1>12. ThreadCount!Elements = << >>
  BY <1>11, CountPath, AlongEmpty
<1> QED BY <1>2, <1>11, <1>12 DEF ThreadCount!Lifo!Init

(* Every step of ThreadCountStack.                                          *)
LEMMA CountStep ==
  ASSUME NEW c, CountInv(c), ThreadCount!Next
  PROVE  \E d : CountInv(d)' /\ CountLifo(c, d)
<1>1. PICK t \in Threads :
        \/ \E x \in Values, n \in Nodes : ThreadCount!Push(t, x, n)
        \/ ThreadCount!PushLink(t) \/ ThreadCount!PushRetry(t)
        \/ ThreadCount!Pop(t) \/ ThreadCount!Load(t) \/ ThreadCount!Swing(t)
        \/ ThreadCount!Check(t) \/ ThreadCount!Claim(t) \/ ThreadCount!Leave(t)
        \/ (\E n \in Nodes : ThreadCount!DeleteClaimed(t, n)) \/ ThreadCount!DeletePopped(t)
        \/ ThreadCount!Rechain(t) \/ ThreadCount!Chain(t) \/ ThreadCount!ChainNull(t)
        \/ ThreadCount!Uncount(t)
  BY DEF ThreadCount!Next
<1>2. CASE \E x \in Values, n \in Nodes : ThreadCount!Push(t, x, n)
  BY <1>2, CountPush
<1>3. CASE ThreadCount!PushLink(t)
  BY <1>3, CountPushLink
<1>4. CASE ThreadCount!PushRetry(t) \/ ThreadCount!Pop(t) \/ ThreadCount!Load(t)
  BY <1>4, CountPushRetry, CountPop, CountLoad
<1>5. CASE ThreadCount!Swing(t)
  BY <1>5, CountSwing
<1>6. CASE ThreadCount!Check(t) \/ ThreadCount!Claim(t) \/ ThreadCount!Leave(t)
  BY <1>6, CountCheck, CountClaim, CountLeave
<1>7. CASE (\E n \in Nodes : ThreadCount!DeleteClaimed(t, n)) \/ ThreadCount!DeletePopped(t)
  BY <1>7, CountDeleteClaimed, CountDeletePopped
<1>8. CASE \/ ThreadCount!Rechain(t) \/ ThreadCount!Chain(t) \/ ThreadCount!ChainNull(t)
           \/ ThreadCount!Uncount(t)
  BY <1>8, CountRechain, CountChain, CountChainNull, CountUncount
<1> QED BY <1>1, <1>2, <1>3, <1>4, <1>5, <1>6, <1>7, <1>8

(* It is one of LifoStack, or none.                                         *)
LEMMA CountImplements ==
  ASSUME NEW c, CountInv(c), NEW d, CountInv(d)', CountLifo(c, d)
  PROVE  [ThreadCount!Lifo!Next]_(ThreadCount!Lifo!stackVars)
<1>1. PICK s, s2 : s = ThreadCount!Elements /\ s2 = ThreadCount!Elements'
  OBVIOUS
<1>2. s = Along(data, c) /\ s2 = Along(data', d)
  BY <1>1, CountPath, CountPathNext
<1>3. LifoStep(s, out, empties, s2, out', empties')
  BY <1>2 DEF CountLifo
<1>4. CASE s2 = s /\ out' = out /\ empties' = empties
  BY <1>1, <1>4 DEF ThreadCount!Lifo!stackVars
<1>5. CASE \E x \in Values : /\ x \notin { s[i] : i \in 1..Len(s) } \cup out
                           /\ s2 = << x >> \o s /\ out' = out /\ empties' = empties
  <2>1. PICK x \in Values : /\ x \notin { s[i] : i \in 1..Len(s) } \cup out
                           /\ s2 = << x >> \o s /\ out' = out /\ empties' = empties
    BY <1>5
  <2>2. ThreadCount!Lifo!Contents = { s[i] : i \in 1..Len(s) }
    BY <1>1 DEF ThreadCount!Lifo!Contents
  <2>3. ThreadCount!Lifo!Push(x)
    BY <1>1, <2>1, <2>2 DEF ThreadCount!Lifo!Push
  <2> QED BY <2>3 DEF ThreadCount!Lifo!Next
<1>6. CASE s # << >> /\ s2 = Tail(s) /\ out' = out \cup {Head(s)} /\ empties' = empties
  BY <1>1, <1>6 DEF ThreadCount!Lifo!Next, ThreadCount!Lifo!Pop
<1>7. CASE s = << >> /\ empties' = empties + 1 /\ s2 = s /\ out' = out
  BY <1>1, <1>7 DEF ThreadCount!Lifo!Next, ThreadCount!Lifo!PopEmpty
<1> QED BY <1>3, <1>4, <1>5, <1>6, <1>7 DEF LifoStep

-----------------------------------------------------------------------------
(* LockFreeStackUseSharedptr. *)

(* The chains from every node, one link longer for each step, as            *)
(* SharedptrStack defines them.                                             *)
ChainsOf(nx, K) ==
  CHOOSE q : q = [k \in 0..K |-> [m \in Nodes \cup {Null} |->
                    IF m = Null \/ k = 0 THEN << >> ELSE << m >> \o q[k - 1][nx[m]]]]

(* They are made of links.                                                  *)
Chained(nx, K, q) ==
  /\ \A k \in 0..K : q[k] \in [Nodes \cup {Null} -> Seq(Nodes \cup {Null})]
  /\ \A k \in 0..K : q[k][Null] = << >>
  /\ \A k \in 1..K, m \in Nodes : q[k][m] = << m >> \o q[k - 1][nx[m]]

(* The chains exist: each length is made from the one before.               *)
LEMMA ChainsUnfold ==
  ASSUME NEW nx \in [Nodes -> Nodes \cup {Null}], NEW K \in Nat
  PROVE  Chained(nx, K, ChainsOf(nx, K))
<1> DEFINE M == Nodes \cup {Null}
           D == [M -> Seq(M)]
           st == [F \in D |-> [m \in M |-> IF m = Null THEN << >> ELSE << m >> \o F[nx[m]]]]
           none == [m \in M |-> << >>]
           Is(q) == q = [k \in 0..K |-> [m \in M |->
                           IF m = Null \/ k = 0 THEN << >> ELSE << m >> \o q[k - 1][nx[m]]]]
           p == ChainsOf(nx, K)
<1>1. none \in D
  OBVIOUS
<1>2. st \in [D -> D]
  <2> SUFFICES ASSUME NEW F \in D PROVE [m \in M |-> IF m = Null THEN << >> ELSE << m >> \o F[nx[m]]] \in D
    OBVIOUS
  <2> SUFFICES ASSUME NEW m \in M PROVE (IF m = Null THEN << >> ELSE << m >> \o F[nx[m]]) \in Seq(M)
    OBVIOUS
  <2>1. CASE m = Null
    BY <2>1
  <2>2. CASE m # Null
    <3>1. nx[m] \in M
      BY <2>2
    <3>2. F[nx[m]] \in Seq(M) /\ << m >> \in Seq(M)
      BY <3>1
    <3>3. << m >> \o F[nx[m]] \in Seq(M)
      BY <3>2, ConcatProperties
    <3> QED BY <2>2, <3>3
  <2> QED BY <2>1, <2>2
<1>3. PICK q \in [0..K -> D] : q[0] = none /\ \A k \in 1..K : q[k] = st[q[k - 1]]
  <2> HIDE DEF D, M, st, none, Is, p
  <2>1. \E q : Repeats(D, st, none, K, q)
    BY <1>1, <1>2, Iterates
  <2> QED BY <2>1 DEF Repeats
<1>4. \A k \in 1..K : k - 1 \in 0..K /\ q[k - 1] \in D
  <2> HIDE DEF D, st, none
  <2> QED BY <1>3
<1>5. \A k \in 1..K :
        q[k] = [m \in M |-> IF m = Null THEN << >> ELSE << m >> \o q[k - 1][nx[m]]]
  BY <1>3, <1>4
<1>6. Is(q)
  <2>1. \A k \in 0..K : q[k] = [m \in M |->
                           IF m = Null \/ k = 0 THEN << >> ELSE << m >> \o q[k - 1][nx[m]]]
    <3> SUFFICES ASSUME NEW k \in 0..K
                 PROVE  q[k] = [m \in M |->
                           IF m = Null \/ k = 0 THEN << >> ELSE << m >> \o q[k - 1][nx[m]]]
      OBVIOUS
    <3>1. CASE k = 0
      BY <1>3, <3>1
    <3>2. CASE k # 0
      <4>1. k \in 1..K
        BY <3>2
      <4> QED BY <1>5, <3>2, <4>1
    <3> QED BY <3>1, <3>2
  <2> QED BY <1>3, <2>1
<1>7. Is(p)
  <2>1. p = CHOOSE r : Is(r)
    BY DEF ChainsOf
  <2> HIDE DEF Is, p
  <2> QED BY <1>6, <2>1
<1> HIDE DEF p, D, st, none
<1>8. /\ \A m \in M : p[0][m] = << >>
      /\ \A k \in 0..K : p[k][Null] = << >>
      /\ \A k \in 1..K, m \in Nodes : p[k][m] = << m >> \o p[k - 1][nx[m]]
  <2>1. \A k \in 0..K : p[k] = [m \in M |->
                           IF m = Null \/ k = 0 THEN << >> ELSE << m >> \o p[k - 1][nx[m]]]
    BY <1>7
  <2> HIDE DEF Is
  <2>2. \A k \in 0..K, m \in M : p[k][m] = IF m = Null \/ k = 0 THEN << >>
                                         ELSE << m >> \o p[k - 1][nx[m]]
    <3> SUFFICES ASSUME NEW k \in 0..K, NEW m \in M
                 PROVE  p[k][m] = IF m = Null \/ k = 0 THEN << >> ELSE << m >> \o p[k - 1][nx[m]]
      OBVIOUS
    <3> HIDE DEF M
    <3> QED BY <2>1
  <2>3. 0 \in 0..K /\ (\A k \in 1..K : k \in 0..K /\ k # 0) /\ Null \in M /\ \A m \in Nodes : m \in M /\ m # Null
    OBVIOUS
  <2>4. \A m \in M : p[0][m] = << >>
    BY <2>2, <2>3
  <2>5. \A k \in 0..K : p[k][Null] = << >>
    BY <2>2, <2>3
  <2>6. \A k \in 1..K, m \in Nodes : p[k][m] = << m >> \o p[k - 1][nx[m]]
    BY <2>2, <2>3
  <2> QED BY <2>4, <2>5, <2>6
<1>9. p \in [0..K -> D]
  <2> DEFINE bad == { k \in 0..K : p[k] \notin D }
  <2>1. ASSUME bad # {} PROVE FALSE
    <3>1. bad \subseteq Nat /\ bad # {}
      BY <2>1
    <3>2. PICK k \in bad : \A j \in bad : k <= j
      BY <3>1, LeastExists
    <3>3. CASE k = 0
      <4>1. p[0] = [m \in M |-> << >>]
        BY <1>7
      <4> QED BY <1>1, <3>2, <3>3, <4>1 DEF none, D
    <3>4. CASE k # 0
      <4>1. k \in 1..K /\ k - 1 \in 0..K /\ k - 1 \notin bad
        BY <3>2, <3>4
      <4>2. p[k - 1] \in D
        BY <4>1
      <4>3. p[k] = st[p[k - 1]]
        <5>1. p[k] = [m \in M |-> IF m = Null \/ k = 0 THEN << >> ELSE << m >> \o p[k - 1][nx[m]]]
          BY <1>7, <4>1
        <5> QED BY <3>4, <4>2, <5>1 DEF st
      <4> QED BY <1>2, <3>2, <4>2, <4>3
    <3> QED BY <3>3, <3>4
  <2>2. \A k \in 0..K : p[k] \in D
    BY <2>1
  <2> QED BY <1>7, <2>2
<1> QED BY <1>8, <1>9 DEF Chained, D, p

(* From a node on there is the node, then what there is from the next.      *)
LEMMA ChainedBegins ==
  ASSUME NEW nx \in [Nodes -> Nodes \cup {Null}], NEW K \in Nat \ {0}, NEW q, Chained(nx, K, q),
         NEW m \in Nodes
  PROVE  /\ q[K][m] \in Seq(Nodes \cup {Null}) /\ Len(q[K][m]) \in Nat \ {0}
         /\ q[K][m][1] = m
<1> DEFINE M == Nodes \cup {Null}
           s == q[K - 1][nx[m]]
<1>1. K \in 1..K /\ K - 1 \in 0..K /\ nx[m] \in M
  OBVIOUS
<1>2. s \in Seq(M) /\ q[K][m] = << m >> \o s
  BY <1>1 DEF Chained
<1> HIDE DEF s
<1>3. << m >> \in Seq(M) /\ Len(<< m >>) = 1 /\ << m >>[1] = m
  OBVIOUS
<1>4. /\ << m >> \o s \in Seq(M) /\ Len(<< m >> \o s) = 1 + Len(s) /\ Len(s) \in Nat
      /\ (<< m >> \o s)[1] = m
  BY <1>2, <1>3, ConcatProperties
<1> QED BY <1>2, <1>4

(* From the first node of a list on there is the list.                      *)
LEMMA ChainedList ==
  ASSUME NEW nx \in [Nodes -> Nodes \cup {Null}], NEW K \in Nat, NEW q, Chained(nx, K, q),
         NEW h, NEW c, ListFrom(Nodes, Null, h, nx, c), Len(c) <= K
  PROVE  q[K][h] = c
<1> DEFINE M == Nodes \cup {Null}
           L == Len(c)
           At(i) == IF i = L + 1 THEN Null ELSE c[i]
           Right(i, k) == /\ q[k][At(i)] \in Seq(M) /\ Len(q[k][At(i)]) = L + 1 - i
                          /\ \A j \in 1..(L + 1 - i) : q[k][At(i)][j] = c[i - 1 + j]
<1>1. /\ c \in Seq(Nodes) /\ L \in Nat /\ \A i \in 1..L : c[i] \in Nodes /\ c[i] # Null
      /\ h = At(1) /\ \A i \in 1..L : nx[c[i]] = At(i + 1)
  <2>1. c \in Seq(Nodes)
    BY DEF ListFrom
  <2>2. L \in Nat /\ \A i \in 1..L : c[i] \in Nodes /\ c[i] # Null
    BY <2>1
  <2>3. h = At(1) /\ \A i \in 1..L : nx[c[i]] = At(i + 1)
    BY <2>1, <2>2 DEF ListFrom
  <2> QED BY <2>1, <2>2, <2>3
<1>2. \A k \in 0..K : q[k][Null] \in Seq(M) /\ q[k][Null] = << >> /\ Len(q[k][Null]) = 0
  <2>1. << >> \in Seq(M) /\ Len(<< >>) = 0
    OBVIOUS
  <2> QED BY <2>1 DEF Chained
<1> HIDE DEF L, M
<1>3. \A k \in 0..K : Right(L + 1, k)
  BY <1>1, <1>2
<1>4. ASSUME NEW i \in 1..L, NEW k \in 1..K, Right(i + 1, k - 1)
      PROVE  Right(i, k)
  <2> DEFINE s == q[k - 1][At(i + 1)]
             m == c[i]
  <2>1. At(i) = m /\ m \in Nodes /\ nx[m] = At(i + 1)
    BY <1>1
  <2>2. q[k][At(i)] = << m >> \o s
    <3> HIDE DEF m, At
    <3>1. q[k][m] = << m >> \o q[k - 1][nx[m]]
      BY <2>1 DEF Chained
    <3> QED BY <2>1, <3>1
  <2>3. /\ s \in Seq(M) /\ Len(s) = L - i
        /\ \A j \in 1..(L - i) : s[j] = c[i + j]
    BY <1>1, <1>4
  <2>4. << m >> \in Seq(M) /\ Len(<< m >>) = 1 /\ << m >>[1] = m
    BY <2>1 DEF M
  <2> HIDE DEF s, m, At
  <2>5. /\ << m >> \o s \in Seq(M) /\ Len(<< m >> \o s) = 1 + Len(s)
        /\ \A j \in 1..Len(<< m >> \o s) : (<< m >> \o s)[j] = IF j <= 1 THEN << m >>[j] ELSE s[j - 1]
    BY <2>3, <2>4, ConcatProperties
  <2>6. Len(<< m >> \o s) = L + 1 - i
    BY <1>1, <2>3, <2>5
  <2>7. ASSUME NEW j \in 1..(L + 1 - i) PROVE (<< m >> \o s)[j] = c[i - 1 + j]
    <3>1. CASE j = 1
      BY <1>1, <2>4, <2>5, <2>6, <3>1 DEF m
    <3>2. CASE j # 1
      <4>1. j - 1 \in 1..(L - i) /\ i + (j - 1) = i - 1 + j
        BY <1>1, <3>2
      <4> QED BY <2>3, <2>5, <2>6, <3>2, <4>1
    <3> QED BY <3>1, <3>2
  <2> QED BY <2>2, <2>5, <2>6, <2>7
<1> HIDE DEF Right
<1>5. \A d \in 0..L : \A k \in d..K : Right(L + 1 - d, k)
  <2> DEFINE bad == { d \in 0..L : ~ \A k \in d..K : Right(L + 1 - d, k) }
  <2>1. ASSUME bad # {} PROVE FALSE
    <3>1. bad \subseteq Nat
      BY <1>1
    <3>2. PICK d \in bad : \A e \in bad : d <= e
      BY <2>1, <3>1, LeastExists
    <3>3. d # 0
      BY <1>1, <1>3, <3>2
    <3>4. d - 1 \in 0..L /\ d - 1 \notin bad
      <4>1. d \in 0..L /\ d - 1 \in 0..L
        BY <1>1, <3>2, <3>3
      <4> HIDE DEF bad
      <4> QED BY <1>1, <3>2, <4>1
    <3>5. PICK k \in d..K : ~Right(L + 1 - d, k)
      BY <3>2
    <3>6. k - 1 \in (d - 1)..K /\ L + 1 - (d - 1) = (L + 1 - d) + 1
      BY <1>1, <3>2, <3>3, <3>5
    <3>7. Right((L + 1 - d) + 1, k - 1)
      BY <3>4, <3>6
    <3>8. L + 1 - d \in 1..L /\ k \in 1..K
      BY <1>1, <3>2, <3>3, <3>5
    <3> QED BY <1>4, <3>5, <3>7, <3>8
  <2> QED BY <2>1
<1>6. Right(1, K)
  <2>1. L \in 0..L /\ K \in L..K /\ L + 1 - L = 1
    BY <1>1 DEF L
  <2> QED BY <1>5, <2>1
<1>7. /\ q[K][h] \in Seq(M) /\ Len(q[K][h]) = L
      /\ \A j \in 1..L : q[K][h][j] = c[j]
  BY <1>1, <1>6 DEF Right
<1> DEFINE s == q[K][h]
<1>8. s \in Seq(M)
  BY <1>7
<1> HIDE DEF s
<1>9. s = [j \in 1..Len(s) |-> s[j]] /\ c = [j \in 1..Len(c) |-> c[j]]
  BY <1>1, <1>8
<1> QED BY <1>7, <1>9 DEF s, L

SharedPlaces == {"idle", "push", "pop", "exchange"}

(* The type invariant, but for the bound of empties.                        *)
SharedTypes ==
  /\ head \in Nodes \cup {Null}
  /\ next \in [Nodes -> Nodes \cup {Null}]
  /\ data \in [Nodes -> Values \cup {Null}]
  /\ pc \in [Threads -> SharedPlaces]
  /\ new \in [Threads -> Nodes \cup {Null}]
  /\ old \in [Threads -> Nodes \cup {Null}]
  /\ below \in [Threads -> Nodes \cup {Null}]
  /\ pops \in 0..MaxPops /\ empties \in Nat /\ out \subseteq Values

(* Where a thread is determines what its variables hold; the next of a node *)
(* that a pop has read does not change.                                     *)
SharedThread(t) ==
  /\ pc[t] = "push" <=> new[t] # Null
  /\ pc[t] \in {"pop", "exchange"} <=> old[t] # Null
  /\ pc[t] = "exchange" => below[t] = next[old[t]]

(* A node that is to be linked is not in the list c from head, and no other *)
(* thread has a pointer to it.                                              *)
SharedNodes(c) ==
  /\ ListFrom(Nodes, Null, head, next, c)
  /\ \A t \in Threads : new[t] # Null =>
       /\ new[t] \notin Members(c)
       /\ \A u \in Threads : new[t] # old[u] /\ (u # t => new[t] # new[u])

(* The nodes whose element is still to be returned.                         *)
SharedHeld(c) == Members(c) \cup { new[t] : t \in { u \in Threads : new[u] # Null } }

(* The pops that may still find the stack empty.                            *)
SharedLooking == { t \in Threads : pc[t] \in {"pop", "exchange"} }

SharedInv(c) ==
  /\ SharedTypes /\ (\A t \in Threads : SharedThread(t))
  /\ SharedNodes(c) /\ DataApart(SharedHeld(c))
  /\ empties + Cardinality(SharedLooking) <= pops

(* What a step from the list c to the list d does for the callers.          *)
SharedLifo(c, d) == LifoStep(Along(data, c), out, empties, Along(data', d), out', empties')

(* The step of thread t gives its variables these values and leaves those   *)
(* of the other threads alone.                                              *)
SharedBecomes(t, p, n, o, b) ==
  /\ pc' \in [Threads -> SharedPlaces] /\ new' \in [Threads -> Nodes \cup {Null}]
  /\ old' \in [Threads -> Nodes \cup {Null}] /\ below' \in [Threads -> Nodes \cup {Null}]
  /\ pc'[t] = p /\ new'[t] = n /\ old'[t] = o /\ below'[t] = b
  /\ \A u \in Threads \ {t} :
       pc'[u] = pc[u] /\ new'[u] = new[u] /\ old'[u] = old[u] /\ below'[u] = below[u]

(* What a pointer leads to is allocated.                                    *)
LEMMA SharedAlive ==
  ASSUME NEW c, SharedInv(c)
  PROVE  /\ Sharedptr!Chain(head) = c
         /\ Members(c) \subseteq Sharedptr!Alive
         /\ \A t \in Threads : /\ new[t] # Null => new[t] \in Sharedptr!Alive
                               /\ old[t] # Null => old[t] \in Sharedptr!Alive
<1> DEFINE K == Cardinality(Nodes)
           q == ChainsOf(next, K)
<1>1. /\ K \in Nat /\ next \in [Nodes -> Nodes \cup {Null}]
      /\ ListFrom(Nodes, Null, head, next, c) /\ c \in Seq(Nodes)
  BY FS_CardinalityType DEF SharedInv, SharedTypes, SharedNodes, ListFrom
<1>2. Len(c) <= K
  BY <1>1, ListFits DEF ListFrom
<1>3. \A n : Sharedptr!Chain(n) = q[K][n]
  BY DEF Sharedptr!Chain, ChainsOf, Sharedptr!Cardinality, Cardinality,
    Sharedptr!IsFiniteSet, IsFiniteSet
<1> HIDE DEF q, K
<1>4. Chained(next, K, q)
  BY <1>1, ChainsUnfold DEF q
<1>5. Sharedptr!Chain(head) = c
  BY <1>1, <1>2, <1>3, <1>4, ChainedList
<1>6. ASSUME NEW n \in Nodes PROVE n \in Sharedptr!ChainSet(n)
  <2>1. K \in Nat \ {0}
    BY <1>1, FS_EmptySet DEF K
  <2>2. Len(q[K][n]) \in Nat \ {0} /\ q[K][n][1] = n
    BY <1>1, <1>4, <2>1, ChainedBegins
  <2>3. 1 \in 1..Len(q[K][n])
    BY <2>2
  <2> QED BY <1>3, <2>2, <2>3 DEF Sharedptr!ChainSet
<1>7. Members(c) \subseteq Sharedptr!Alive
  <2>1. Sharedptr!ChainSet(head) = Members(c)
    BY <1>5 DEF Sharedptr!ChainSet, Members
  <2> QED BY <2>1 DEF Sharedptr!Alive, Sharedptr!Counted
<1>8. ASSUME NEW t \in Threads, new[t] # Null PROVE new[t] \in Sharedptr!Alive
  <2>1. new[t] \in Nodes
    BY <1>8 DEF SharedInv, SharedTypes
  <2>2. new[t] \in Sharedptr!Counted
    BY DEF Sharedptr!Counted
  <2> QED BY <1>6, <2>1, <2>2 DEF Sharedptr!Alive
<1>9. ASSUME NEW t \in Threads, old[t] # Null PROVE old[t] \in Sharedptr!Alive
  <2>1. old[t] \in Nodes
    BY <1>9 DEF SharedInv, SharedTypes
  <2>2. old[t] \in Sharedptr!Counted
    BY DEF Sharedptr!Counted
  <2> QED BY <1>6, <2>1, <2>2 DEF Sharedptr!Alive
<1> QED BY <1>5, <1>7, <1>8, <1>9

(* A push allocates its node.                                               *)
LEMMA SharedPush ==
  ASSUME NEW c, SharedInv(c), NEW t \in Threads, NEW x \in Values, NEW n \in Nodes,
         Sharedptr!Push(t, x, n)
  PROVE  SharedInv(c)' /\ SharedLifo(c, c)
<1>1. /\ SharedTypes /\ SharedThread(t) /\ (\A u \in Threads : SharedThread(u))
      /\ SharedNodes(c) /\ DataApart(SharedHeld(c))
      /\ empties + Cardinality(SharedLooking) <= pops
  BY DEF SharedInv
<1>2. /\ pc[t] = "idle" /\ Sharedptr!Fresh(x) /\ n \in Nodes \ Sharedptr!Alive
      /\ head' = head /\ next' = [next EXCEPT ![n] = head]
      /\ data' = [data EXCEPT ![n] = x] /\ pops' = pops /\ out' = out /\ empties' = empties
  BY DEF Sharedptr!Push
<1>3. SharedBecomes(t, "push", n, old[t], below[t])
  BY <1>1, <1>2 DEF SharedTypes, SharedThread, SharedPlaces, SharedBecomes, Sharedptr!Push
<1>4. SharedTypes'
  BY <1>1, <1>2, <1>3 DEF SharedTypes, SharedThread, SharedBecomes
<1>5. \A u \in Threads : SharedThread(u)'
  <2>1. \A u \in Threads : old[u] # Null => old[u] # n
    BY <1>2, SharedAlive
  <2>2. \A u \in Threads : old[u] # Null => next'[old[u]] = next[old[u]]
    BY <1>1, <1>2, <2>1 DEF SharedTypes
  <2> QED BY <1>1, <1>2, <1>3, <2>2 DEF SharedThread, SharedBecomes
<1>6. SharedNodes(c)' /\ DataApart(SharedHeld(c))'
  <2>1. /\ n \notin Members(c) /\ new[t] = Null
        /\ \A u \in Threads : n # new[u] /\ n # old[u]
    BY <1>1, <1>2, SharedAlive DEF SharedThread
  <2>2. ListFrom(Nodes, Null, head', next', c)
    <3>1. \A m \in Members(c) : next'[m] = next[m]
      BY <1>1, <1>2, <2>1 DEF SharedTypes
    <3>2. ListFrom(Nodes, Null, head, next', c)
      BY <1>1, <3>1, ListStays DEF SharedNodes
    <3> QED BY <1>2, <3>2
  <2>3. SharedNodes(c)'
    BY <1>1, <1>3, <2>1, <2>2 DEF SharedNodes, SharedBecomes
  <2>4. SharedHeld(c)' = SharedHeld(c) \cup {n}
    BY <1>3, <2>1 DEF SharedHeld, SharedBecomes
  <2>5. SharedHeld(c) \subseteq Sharedptr!Alive /\ SharedHeld(c) \subseteq Nodes
    <3>1. Members(c) \subseteq Nodes
      BY <1>1 DEF SharedNodes, ListFrom, Members
    <3> QED BY <1>1, <3>1, SharedAlive DEF SharedHeld, SharedTypes
  <2>6. x \notin out /\ \A m \in SharedHeld(c) : data[m] # x
    BY <1>2, <2>5 DEF Sharedptr!Fresh
  <2>7. data'[n] = x /\ \A m \in SharedHeld(c) : m # n /\ data'[m] = data[m]
    BY <1>1, <1>2, <2>5 DEF SharedTypes
  <2>8. DataApart(SharedHeld(c))'
    BY <1>1, <1>2, <2>4, <2>6, <2>7 DEF DataApart
  <2> QED BY <2>3, <2>8
<1>7. (empties + Cardinality(SharedLooking) <= pops)'
  <2>1. SharedLooking' = SharedLooking
    BY <1>1, <1>2, <1>3 DEF SharedLooking, SharedThread, SharedBecomes
  <2>2. SharedLooking \in SUBSET Threads /\ pops \in Nat /\ empties \in Nat
    BY <1>1 DEF SharedLooking, SharedTypes
  <2>3. Cardinality(SharedLooking) \in Nat
    BY <2>2, FS_Subset, FS_CardinalityType
  <2> QED BY <1>1, <1>2, <2>1, <2>2, <2>3
<1>8. SharedLifo(c, c)
  <2>1. \A m \in Members(c) : data'[m] = data[m]
    <3>1. Members(c) \subseteq Nodes
      BY <1>1 DEF SharedNodes, ListFrom, Members
    <3> QED BY <1>1, <1>2, <3>1, SharedAlive DEF SharedTypes
  <2>2. Along(data', c) = Along(data, c)
    BY <2>1, AlongSame
  <2> QED BY <1>2, <2>2 DEF SharedLifo, LifoStep
<1> QED BY <1>4, <1>5, <1>6, <1>7, <1>8 DEF SharedInv

(* A push links its node.                                                   *)
LEMMA SharedPushLink ==
  ASSUME NEW c, SharedInv(c), NEW t \in Threads, Sharedptr!PushExchange(t), head = next[new[t]],
         NEW d, d = << new[t] >> \o c
  PROVE  SharedInv(d)' /\ SharedLifo(c, d)
<1>1. /\ SharedTypes /\ SharedThread(t) /\ (\A u \in Threads : SharedThread(u))
      /\ SharedNodes(c) /\ DataApart(SharedHeld(c))
      /\ empties + Cardinality(SharedLooking) <= pops
  BY DEF SharedInv
<1>2. /\ pc[t] = "push" /\ head' = new[t] /\ next' = next /\ data' = data /\ pops' = pops
      /\ out' = out /\ empties' = empties
  BY DEF Sharedptr!PushExchange, Sharedptr!AfterPush
<1>3. SharedBecomes(t, "idle", Null, old[t], below[t])
  BY <1>1, <1>2 DEF SharedTypes, SharedThread, SharedPlaces, SharedBecomes, Sharedptr!PushExchange, Sharedptr!AfterPush
<1>4. SharedTypes'
  BY <1>1, <1>2, <1>3 DEF SharedTypes, SharedThread, SharedBecomes
<1>5. \A u \in Threads : SharedThread(u)'
  BY <1>1, <1>2, <1>3 DEF SharedThread, SharedBecomes
<1>6. SharedNodes(d)' /\ DataApart(SharedHeld(d))'
  <2> DEFINE n == new[t]
  <2>1. /\ n \in Nodes /\ n # Null /\ n \notin Members(c)
        /\ \A u \in Threads : n # old[u] /\ (u # t => n # new[u])
    BY <1>1, <1>2 DEF SharedTypes, SharedThread, SharedNodes
  <2> HIDE DEF n
  <2>2. ListFrom(Nodes, Null, n, next, d) /\ Members(d) = Members(c) \cup {n}
    <3>1. next[n] = head
      BY DEF n
    <3>2. d = << n >> \o c
      BY DEF n
    <3>3. ListFrom(Nodes, Null, head, next, c)
      BY <1>1 DEF SharedNodes
    <3> QED BY <2>1, <3>1, <3>2, <3>3, ListPush
  <2>3. head' = n /\ next' = next
    BY <1>2 DEF n
  <2>4. \A u \in Threads : /\ new'[u] = IF u = t THEN Null ELSE new[u]
                          /\ old'[u] = old[u]
    BY <1>3 DEF SharedBecomes
  <2>5. SharedNodes(d)'
    <3>1. ASSUME NEW u \in Threads, new'[u] # Null
          PROVE  /\ new'[u] \notin Members(d)
                 /\ \A v \in Threads : new'[u] # old'[v] /\ (v # u => new'[u] # new'[v])
      <4>1. u # t /\ new'[u] = new[u] /\ new[u] # n
        BY <2>1, <2>4, <3>1
      <4> QED BY <1>1, <2>2, <2>4, <3>1, <4>1 DEF SharedNodes
    <3> QED BY <2>2, <2>3, <3>1 DEF SharedNodes
  <2>6. SharedHeld(d)' = SharedHeld(c)
    <3>1. ASSUME NEW m \in SharedHeld(d)' PROVE m \in SharedHeld(c)
      BY <2>1, <2>2, <2>4 DEF n, SharedHeld
    <3>2. ASSUME NEW m \in SharedHeld(c) PROVE m \in SharedHeld(d)'
      BY <2>1, <2>2, <2>4 DEF n, SharedHeld
    <3> QED BY <3>1, <3>2
  <2> QED BY <1>1, <1>2, <2>5, <2>6 DEF DataApart
<1>7. (empties + Cardinality(SharedLooking) <= pops)'
  <2>1. SharedLooking' = SharedLooking
    BY <1>1, <1>2, <1>3 DEF SharedLooking, SharedThread, SharedBecomes
  <2>2. SharedLooking \in SUBSET Threads /\ pops \in Nat /\ empties \in Nat
    BY <1>1 DEF SharedLooking, SharedTypes
  <2>3. Cardinality(SharedLooking) \in Nat
    BY <2>2, FS_Subset, FS_CardinalityType
  <2> QED BY <1>1, <1>2, <2>1, <2>2, <2>3
<1>8. SharedLifo(c, d)
  <2> DEFINE n == new[t]
  <2>1. n \in Nodes /\ n \in SharedHeld(c) /\ n \notin Members(c) /\ c \in Seq(Nodes)
    BY <1>1, <1>2 DEF SharedTypes, SharedThread, SharedHeld, SharedNodes, ListFrom
  <2>2. d = << n >> \o c
    OBVIOUS
  <2> HIDE DEF n
  <2>3. data[n] \in Values \ out /\ \A m \in Members(c) \cup {} : data[m] # data[n]
    BY <1>1, <2>1 DEF DataApart, SharedHeld
  <2>4. LifoStep(Along(data, c), out \cup Elements(data, {}), empties,
                 Along(data, << n >> \o c), out \cup Elements(data, {}), empties)
    BY <2>1, <2>3, LifoPushes
  <2>5. out \cup Elements(data, {}) = out
    BY DEF Elements
  <2> QED BY <1>2, <2>2, <2>4, <2>5 DEF SharedLifo
<1> QED BY <1>4, <1>5, <1>6, <1>7, <1>8 DEF SharedInv

(* A push that finds another head starts again.                             *)
LEMMA SharedPushRetry ==
  ASSUME NEW c, SharedInv(c), NEW t \in Threads, Sharedptr!PushExchange(t), head # next[new[t]]
  PROVE  SharedInv(c)' /\ SharedLifo(c, c)
<1>1. /\ SharedTypes /\ SharedThread(t) /\ (\A u \in Threads : SharedThread(u))
      /\ SharedNodes(c) /\ DataApart(SharedHeld(c))
      /\ empties + Cardinality(SharedLooking) <= pops
  BY DEF SharedInv
<1>2. /\ pc[t] = "push" /\ head' = head /\ next' = [next EXCEPT ![new[t]] = head]
      /\ data' = data /\ pops' = pops /\ out' = out /\ empties' = empties
  BY DEF Sharedptr!PushExchange, Sharedptr!AfterPush
<1>3. SharedBecomes(t, "push", new[t], old[t], below[t])
  BY <1>1, <1>2 DEF SharedTypes, SharedThread, SharedPlaces, SharedBecomes, Sharedptr!PushExchange, Sharedptr!AfterPush
<1>4. SharedTypes'
  BY <1>1, <1>2, <1>3 DEF SharedTypes, SharedThread, SharedBecomes
<1>5. \A u \in Threads : SharedThread(u)'
  <2>1. \A u \in Threads : old[u] # new[t]
    BY <1>1, <1>2 DEF SharedThread, SharedNodes
  <2>2. \A u \in Threads : old[u] # Null => next'[old[u]] = next[old[u]]
    BY <1>1, <1>2, <2>1 DEF SharedTypes
  <2> QED BY <1>1, <1>2, <1>3, <2>2 DEF SharedThread, SharedBecomes
<1>6. SharedNodes(c)' /\ DataApart(SharedHeld(c))'
  <2>1. new[t] \in Nodes /\ new[t] \notin Members(c)
    BY <1>1, <1>2 DEF SharedTypes, SharedThread, SharedNodes
  <2>2. ListFrom(Nodes, Null, head', next', c)
    <3>1. \A m \in Members(c) : next'[m] = next[m]
      BY <1>1, <1>2, <2>1 DEF SharedTypes
    <3>2. ListFrom(Nodes, Null, head, next', c)
      BY <1>1, <3>1, ListStays DEF SharedNodes
    <3> QED BY <1>2, <3>2
  <2>3. SharedNodes(c)'
    BY <1>1, <1>3, <2>2 DEF SharedNodes, SharedBecomes
  <2>4. SharedHeld(c)' = SharedHeld(c)
    BY <1>3 DEF SharedHeld, SharedBecomes
  <2> QED BY <1>1, <1>2, <2>3, <2>4 DEF DataApart
<1>7. (empties + Cardinality(SharedLooking) <= pops)'
  <2>1. SharedLooking' = SharedLooking
    BY <1>1, <1>2, <1>3 DEF SharedLooking, SharedThread, SharedBecomes
  <2>2. SharedLooking \in SUBSET Threads /\ pops \in Nat /\ empties \in Nat
    BY <1>1 DEF SharedLooking, SharedTypes
  <2>3. Cardinality(SharedLooking) \in Nat
    BY <2>2, FS_Subset, FS_CardinalityType
  <2> QED BY <1>1, <1>2, <2>1, <2>2, <2>3
<1>8. SharedLifo(c, c)
  BY <1>2 DEF SharedLifo, LifoStep
<1> QED BY <1>4, <1>5, <1>6, <1>7, <1>8 DEF SharedInv

(* A pop begins, and reads head.                                            *)
LEMMA SharedPop ==
  ASSUME NEW c, SharedInv(c), NEW t \in Threads, Sharedptr!Pop(t)
  PROVE  SharedInv(c)' /\ SharedLifo(c, c)
<1>1. /\ SharedTypes /\ SharedThread(t) /\ (\A u \in Threads : SharedThread(u))
      /\ SharedNodes(c) /\ DataApart(SharedHeld(c))
      /\ empties + Cardinality(SharedLooking) <= pops
  BY DEF SharedInv
<1>2. /\ pc[t] = "idle" /\ pops < MaxPops /\ head' = head /\ next' = next /\ data' = data
      /\ pops' = pops + 1 /\ out' = out
      /\ empties' = (IF head = Null THEN empties + 1 ELSE empties)
  BY DEF Sharedptr!Pop
<1>3. SharedBecomes(t, IF head = Null THEN "idle" ELSE "pop", new[t], head, below[t])
  BY <1>1, <1>2 DEF SharedTypes, SharedThread, SharedPlaces, SharedBecomes, Sharedptr!Pop
<1>4. SharedTypes'
  <2>1. (IF head = Null THEN empties + 1 ELSE empties) \in Nat /\ pops + 1 \in 0..MaxPops
    BY <1>1, <1>2 DEF SharedTypes
  <2> QED BY <1>1, <1>2, <1>3, <2>1 DEF SharedTypes, SharedBecomes
<1>5. \A u \in Threads : SharedThread(u)'
  BY <1>1, <1>2, <1>3 DEF SharedThread, SharedBecomes
<1>6. SharedNodes(c)' /\ DataApart(SharedHeld(c))'
  <2>1. new[t] = Null /\ \A u \in Threads : new[u] # Null => new[u] # head
    BY <1>1, <1>2, ListIsEmpty DEF SharedThread, SharedNodes, SharedTypes
  <2>2. SharedNodes(c)'
    BY <1>1, <1>2, <1>3, <2>1 DEF SharedNodes, SharedBecomes
  <2>3. SharedHeld(c)' = SharedHeld(c)
    BY <1>3 DEF SharedHeld, SharedBecomes
  <2> QED BY <1>1, <1>2, <2>2, <2>3 DEF DataApart
<1>7. (empties + Cardinality(SharedLooking) <= pops)'
  <2>1. CASE head = Null
    <3>1. SharedLooking' = SharedLooking
      BY <1>1, <1>2, <1>3, <2>1 DEF SharedLooking, SharedThread, SharedBecomes
    <3>2. SharedLooking \in SUBSET Threads /\ pops \in Nat /\ empties \in Nat
      BY <1>1 DEF SharedLooking, SharedTypes
    <3>3. Cardinality(SharedLooking) \in Nat
      BY <3>2, FS_Subset, FS_CardinalityType
    <3> QED BY <1>1, <1>2, <2>1, <3>1, <3>2, <3>3
  <2>2. CASE head # Null
    <3>1. SharedLooking' = SharedLooking \cup {t} /\ t \notin SharedLooking
      BY <1>2, <1>3, <2>2 DEF SharedLooking, SharedBecomes
    <3>2. SharedLooking \in SUBSET Threads /\ pops \in Nat /\ empties \in Nat
      BY <1>1 DEF SharedLooking, SharedTypes
    <3>3. Cardinality(SharedLooking) \in Nat /\ Cardinality(SharedLooking)' = Cardinality(SharedLooking) + 1
      BY <3>1, <3>2, OneMore
    <3> QED BY <1>1, <1>2, <2>2, <3>2, <3>3
  <2> QED BY <2>1, <2>2
<1>8. SharedLifo(c, c)
  <2>1. CASE head = Null
    <3>1. c = << >>
      BY <1>1, <2>1, ListIsEmpty DEF SharedNodes
    <3> QED BY <1>2, <2>1, <3>1, LifoPopsNothing DEF SharedLifo
  <2>2. CASE head # Null
    BY <1>2, <2>2 DEF SharedLifo, LifoStep
  <2> QED BY <2>1, <2>2
<1> QED BY <1>4, <1>5, <1>6, <1>7, <1>8 DEF SharedInv

(* It reads the next of the head.                                           *)
LEMMA SharedReadNext ==
  ASSUME NEW c, SharedInv(c), NEW t \in Threads, Sharedptr!ReadNext(t)
  PROVE  SharedInv(c)' /\ SharedLifo(c, c)
<1>1. /\ SharedTypes /\ SharedThread(t) /\ (\A u \in Threads : SharedThread(u))
      /\ SharedNodes(c) /\ DataApart(SharedHeld(c))
      /\ empties + Cardinality(SharedLooking) <= pops
  BY DEF SharedInv
<1>2. /\ pc[t] = "pop" /\ head' = head /\ next' = next /\ data' = data /\ pops' = pops
      /\ out' = out /\ empties' = empties
  BY DEF Sharedptr!ReadNext
<1>3. SharedBecomes(t, "exchange", new[t], old[t], next[old[t]])
  BY <1>1, <1>2 DEF SharedTypes, SharedThread, SharedPlaces, SharedBecomes, Sharedptr!ReadNext
<1>4. SharedTypes'
  BY <1>1, <1>2, <1>3 DEF SharedTypes, SharedThread, SharedBecomes
<1>5. \A u \in Threads : SharedThread(u)'
  BY <1>1, <1>2, <1>3 DEF SharedThread, SharedBecomes
<1>6. SharedNodes(c)' /\ DataApart(SharedHeld(c))'
  <2>1. SharedNodes(c)'
    BY <1>1, <1>2, <1>3 DEF SharedNodes, SharedBecomes
  <2>2. SharedHeld(c)' = SharedHeld(c)
    BY <1>3 DEF SharedHeld, SharedBecomes
  <2> QED BY <1>1, <1>2, <2>1, <2>2 DEF DataApart
<1>7. (empties + Cardinality(SharedLooking) <= pops)'
  <2>1. SharedLooking' = SharedLooking
    BY <1>1, <1>2, <1>3 DEF SharedLooking, SharedThread, SharedBecomes
  <2>2. SharedLooking \in SUBSET Threads /\ pops \in Nat /\ empties \in Nat
    BY <1>1 DEF SharedLooking, SharedTypes
  <2>3. Cardinality(SharedLooking) \in Nat
    BY <2>2, FS_Subset, FS_CardinalityType
  <2> QED BY <1>1, <1>2, <2>1, <2>2, <2>3
<1>8. SharedLifo(c, c)
  BY <1>2 DEF SharedLifo, LifoStep
<1> QED BY <1>4, <1>5, <1>6, <1>7, <1>8 DEF SharedInv

(* It takes the first node out.                                             *)
LEMMA SharedPopExchange ==
  ASSUME NEW c, SharedInv(c), NEW t \in Threads, Sharedptr!PopExchange(t),
         NEW d, d = Tail(c)
  PROVE  SharedInv(d)' /\ SharedLifo(c, d)
<1>1. /\ SharedTypes /\ SharedThread(t) /\ (\A u \in Threads : SharedThread(u))
      /\ SharedNodes(c) /\ DataApart(SharedHeld(c))
      /\ empties + Cardinality(SharedLooking) <= pops
  BY DEF SharedInv
<1>2. /\ pc[t] = "exchange" /\ head = old[t] /\ head' = below[t] /\ next' = next
      /\ data' = data /\ pops' = pops /\ out' = out \cup {data[old[t]]}
      /\ empties' = empties
  BY DEF Sharedptr!PopExchange, Sharedptr!HeadExpected
<1>3. SharedBecomes(t, "idle", new[t], Null, Null)
  BY <1>1, <1>2 DEF SharedTypes, SharedThread, SharedPlaces, SharedBecomes, Sharedptr!PopExchange, Sharedptr!HeadExpected
<1>4. SharedTypes'
  <2>1. head \in Members(c) /\ below[t] \in Nodes \cup {Null}
    BY <1>1, <1>2, ListIsEmpty DEF SharedThread, SharedNodes, SharedTypes
  <2>2. data[head] \in Values
    BY <1>1, <2>1 DEF DataApart, SharedHeld
  <2> QED BY <1>1, <1>2, <1>3, <2>1, <2>2 DEF SharedTypes, SharedBecomes
<1>5. \A u \in Threads : SharedThread(u)'
  BY <1>1, <1>2, <1>3 DEF SharedThread, SharedBecomes
<1>6. SharedNodes(d)' /\ DataApart(SharedHeld(d))'
  <2>1. head \in Nodes /\ head # Null /\ new[t] = Null
    BY <1>1, <1>2 DEF SharedTypes, SharedThread
  <2>2. head' = next[head] /\ out' = out \cup {data[head]}
    BY <1>1, <1>2 DEF SharedThread
  <2>3. /\ ListFrom(Nodes, Null, next[head], next, d)
        /\ Members(d) = Members(c) \ {head} /\ head \in Members(c)
    BY <1>1, <2>1, ListPop DEF SharedNodes
  <2>4. SharedNodes(d)'
    BY <1>1, <1>2, <1>3, <2>1, <2>2, <2>3 DEF SharedNodes, SharedBecomes
  <2>5. SharedHeld(d)' = SharedHeld(c) \ {head} /\ head \in SharedHeld(c)
    BY <1>1, <1>3, <2>1, <2>3 DEF SharedHeld, SharedNodes, SharedBecomes
  <2>6. DataApart(SharedHeld(d))'
    BY <1>1, <1>2, <2>2, <2>5 DEF DataApart
  <2> QED BY <2>4, <2>6
<1>7. (empties + Cardinality(SharedLooking) <= pops)'
  <2>1. SharedLooking' = SharedLooking \ {t} /\ t \in SharedLooking
    BY <1>2, <1>3 DEF SharedLooking, SharedBecomes
  <2>2. SharedLooking \in SUBSET Threads /\ pops \in Nat /\ empties \in Nat
    BY <1>1 DEF SharedLooking, SharedTypes
  <2>3. Cardinality(SharedLooking) \in Nat /\ Cardinality(SharedLooking)' = Cardinality(SharedLooking) - 1
    BY <2>1, <2>2, OneLess
  <2> QED BY <1>1, <1>2, <2>2, <2>3
<1>8. SharedLifo(c, d)
  <2>1. head \in Nodes /\ head # Null
    BY <1>1, <1>2 DEF SharedTypes, SharedThread
  <2>2. c \in Seq(Nodes) /\ c # << >> /\ Head(c) = head
    BY <1>1, <2>1, ListIsEmpty DEF SharedNodes, ListFrom
  <2>3. LifoStep(Along(data, c), out, empties, Along(data, Tail(c)), out \cup {data[Head(c)]}, empties)
    BY <2>2, LifoPopsAtOnce
  <2> QED BY <1>2, <2>2, <2>3 DEF SharedLifo
<1> QED BY <1>4, <1>5, <1>6, <1>7, <1>8 DEF SharedInv

(* It finds another head.                                                   *)
LEMMA SharedPopRetry ==
  ASSUME NEW c, SharedInv(c), NEW t \in Threads, Sharedptr!PopRetry(t)
  PROVE  SharedInv(c)' /\ SharedLifo(c, c)
<1>1. /\ SharedTypes /\ SharedThread(t) /\ (\A u \in Threads : SharedThread(u))
      /\ SharedNodes(c) /\ DataApart(SharedHeld(c))
      /\ empties + Cardinality(SharedLooking) <= pops
  BY DEF SharedInv
<1>2. /\ pc[t] = "exchange" /\ head' = head /\ next' = next /\ data' = data /\ pops' = pops
      /\ out' = out /\ empties' = (IF head = Null THEN empties + 1 ELSE empties)
  BY DEF Sharedptr!PopRetry, Sharedptr!HeadExpected
<1>3. SharedBecomes(t, IF head = Null THEN "idle" ELSE "pop", new[t], head, Null)
  BY <1>1, <1>2 DEF SharedTypes, SharedThread, SharedPlaces, SharedBecomes, Sharedptr!PopRetry, Sharedptr!HeadExpected
<1>4. SharedTypes'
  <2>1. (IF head = Null THEN empties + 1 ELSE empties) \in Nat
    BY <1>1 DEF SharedTypes
  <2> QED BY <1>1, <1>2, <1>3, <2>1 DEF SharedTypes, SharedBecomes
<1>5. \A u \in Threads : SharedThread(u)'
  BY <1>1, <1>2, <1>3 DEF SharedThread, SharedBecomes
<1>6. SharedNodes(c)' /\ DataApart(SharedHeld(c))'
  <2>1. new[t] = Null /\ \A u \in Threads : new[u] # Null => new[u] # head
    BY <1>1, <1>2, ListIsEmpty DEF SharedThread, SharedNodes, SharedTypes
  <2>2. SharedNodes(c)'
    BY <1>1, <1>2, <1>3, <2>1 DEF SharedNodes, SharedBecomes
  <2>3. SharedHeld(c)' = SharedHeld(c)
    BY <1>3 DEF SharedHeld, SharedBecomes
  <2> QED BY <1>1, <1>2, <2>2, <2>3 DEF DataApart
<1>7. (empties + Cardinality(SharedLooking) <= pops)'
  <2>1. CASE head = Null
    <3>1. SharedLooking' = SharedLooking \ {t} /\ t \in SharedLooking
      BY <1>2, <1>3, <2>1 DEF SharedLooking, SharedBecomes
    <3>2. SharedLooking \in SUBSET Threads /\ pops \in Nat /\ empties \in Nat
      BY <1>1 DEF SharedLooking, SharedTypes
    <3>3. Cardinality(SharedLooking) \in Nat /\ Cardinality(SharedLooking)' = Cardinality(SharedLooking) - 1
      BY <3>1, <3>2, OneLess
    <3> QED BY <1>1, <1>2, <2>1, <3>2, <3>3
  <2>2. CASE head # Null
    <3>1. SharedLooking' = SharedLooking
      BY <1>1, <1>2, <1>3, <2>2 DEF SharedLooking, SharedThread, SharedBecomes
    <3>2. SharedLooking \in SUBSET Threads /\ pops \in Nat /\ empties \in Nat
      BY <1>1 DEF SharedLooking, SharedTypes
    <3>3. Cardinality(SharedLooking) \in Nat
      BY <3>2, FS_Subset, FS_CardinalityType
    <3> QED BY <1>1, <1>2, <2>2, <3>1, <3>2, <3>3
  <2> QED BY <2>1, <2>2
<1>8. SharedLifo(c, c)
  <2>1. CASE head = Null
    <3>1. c = << >>
      BY <1>1, <2>1, ListIsEmpty DEF SharedNodes
    <3> QED BY <1>2, <2>1, <3>1, LifoPopsNothing DEF SharedLifo
  <2>2. CASE head # Null
    BY <1>2, <2>2 DEF SharedLifo, LifoStep
  <2> QED BY <2>1, <2>2
<1> QED BY <1>4, <1>5, <1>6, <1>7, <1>8 DEF SharedInv

(* The list after a step.                                                   *)
LEMMA SharedChainNext ==
  ASSUME NEW c, SharedInv(c)'
  PROVE  Sharedptr!Chain(head)' = c
<1> DEFINE K == Cardinality(Nodes)
           q == ChainsOf(next', K)
<1>1. /\ K \in Nat /\ next' \in [Nodes -> Nodes \cup {Null}]
      /\ ListFrom(Nodes, Null, head', next', c) /\ c \in Seq(Nodes)
  BY FS_CardinalityType DEF SharedInv, SharedTypes, SharedNodes, ListFrom
<1>2. Len(c) <= K
  BY <1>1, ListFits DEF ListFrom
<1>3. Sharedptr!Chain(head)' = q[K][head']
  BY DEF Sharedptr!Chain, ChainsOf, Sharedptr!Cardinality, Cardinality,
    Sharedptr!IsFiniteSet, IsFiniteSet
<1> HIDE DEF q, K
<1>4. Chained(next', K, q)
  BY <1>1, ChainsUnfold DEF q
<1> QED BY <1>1, <1>2, <1>3, <1>4, ChainedList

(* What the invariant says of the type invariant of SharedptrStack.         *)
LEMMA SharedMeans ==
  ASSUME NEW c, SharedInv(c)
  PROVE  Sharedptr!TypeOK
<1>1. /\ SharedTypes /\ (\A t \in Threads : SharedThread(t))
      /\ empties + Cardinality(SharedLooking) <= pops
  BY DEF SharedInv
<1>2. empties \in 0..MaxPops
  <2>1. empties \in Nat /\ pops \in 0..MaxPops /\ MaxPops \in Nat
    BY <1>1 DEF SharedTypes
  <2>2. SharedLooking \in SUBSET Threads
    BY DEF SharedLooking
  <2>3. Cardinality(SharedLooking) \in Nat
    BY <2>2, FS_Subset, FS_CardinalityType
  <2> QED BY <1>1, <2>1, <2>3
<1>3. \A t \in Threads : (pc[t] = "push" <=> new[t] # Null)
                          /\ (pc[t] \in {"pop", "exchange"} <=> old[t] # Null)
  BY <1>1 DEF SharedThread
<1> QED BY <1>1, <1>2, <1>3 DEF SharedTypes, SharedPlaces, Sharedptr!TypeOK

(* The stack is empty, and no thread has anything.                          *)
LEMMA SharedInit ==
  ASSUME Sharedptr!Init
  PROVE  SharedInv(<< >>) /\ Sharedptr!Lifo!Init
<1>1. SharedTypes
  BY DEF Sharedptr!Init, SharedTypes, SharedPlaces
<1>2. /\ \A t \in Threads : pc[t] = "idle" /\ old[t] = Null /\ new[t] = Null
      /\ head = Null /\ empties = 0 /\ pops = 0 /\ out = {}
  BY DEF Sharedptr!Init
<1>3. \A t \in Threads : SharedThread(t)
  BY <1>2 DEF SharedThread
<1>4. ListFrom(Nodes, Null, head, next, << >>) /\ Members(<< >>) = {}
  <2>1. ListFrom(Nodes, Null, Null, next, << >>) /\ Members(<< >>) = {}
    BY ListEmpty
  <2> QED BY <1>2, <2>1
<1>5. SharedNodes(<< >>)
  BY <1>2, <1>4 DEF SharedNodes
<1>6. SharedHeld(<< >>) = {}
  BY <1>2, <1>4 DEF SharedHeld
<1>7. DataApart(SharedHeld(<< >>))
  BY <1>6 DEF DataApart
<1>8. empties + Cardinality(SharedLooking) <= pops
  <2>1. SharedLooking = {}
    BY <1>2 DEF SharedLooking
  <2> QED BY <1>2, <2>1, FS_EmptySet
<1>9. SharedInv(<< >>)
  BY <1>1, <1>3, <1>5, <1>7, <1>8 DEF SharedInv
<1>10. Sharedptr!Chain(head) = << >>
  BY <1>9, SharedAlive
<1>11. [i \in 1..Len(Sharedptr!Chain(head)) |-> data[Sharedptr!Chain(head)[i]]] = << >>
  BY <1>10, AlongEmpty DEF Along
<1> QED BY <1>2, <1>9, <1>11 DEF Sharedptr!Lifo!Init

(* Every step of SharedptrStack.                                            *)
LEMMA SharedStep ==
  ASSUME NEW c, SharedInv(c), Sharedptr!Next
  PROVE  \E d : SharedInv(d)' /\ SharedLifo(c, d)
<1>1. PICK t \in Threads :
        \/ \E x \in Values, n \in Nodes : Sharedptr!Push(t, x, n)
        \/ Sharedptr!PushExchange(t) \/ Sharedptr!Pop(t) \/ Sharedptr!ReadNext(t)
        \/ Sharedptr!PopExchange(t) \/ Sharedptr!PopRetry(t)
  BY DEF Sharedptr!Next
<1>2. CASE \E x \in Values, n \in Nodes : Sharedptr!Push(t, x, n)
  BY <1>2, SharedPush
<1>3. CASE Sharedptr!PushExchange(t)
  <2>1. CASE head = next[new[t]]
    BY <1>3, <2>1, SharedPushLink
  <2>2. CASE head # next[new[t]]
    BY <1>3, <2>2, SharedPushRetry
  <2> QED BY <2>1, <2>2
<1>4. CASE Sharedptr!Pop(t) \/ Sharedptr!ReadNext(t) \/ Sharedptr!PopRetry(t)
  BY <1>4, SharedPop, SharedReadNext, SharedPopRetry
<1>5. CASE Sharedptr!PopExchange(t)
  BY <1>5, SharedPopExchange
<1> QED BY <1>1, <1>2, <1>3, <1>4, <1>5

(* It is one of LifoStack, or none.                                         *)
LEMMA SharedImplements ==
  ASSUME NEW c, SharedInv(c), NEW d, SharedInv(d)', SharedLifo(c, d)
  PROVE  [Sharedptr!Lifo!Next]_(Sharedptr!Lifo!stackVars)
<1>1. PICK s, s2 :
        /\ s = [i \in 1..Len(Sharedptr!Chain(head)) |-> data[Sharedptr!Chain(head)[i]]]
        /\ s2 = [i \in 1..Len(Sharedptr!Chain(head)) |-> data[Sharedptr!Chain(head)[i]]]'
  OBVIOUS
<1>2. s = Along(data, c) /\ s2 = Along(data', d)
  <2>1. Sharedptr!Chain(head) = c /\ Sharedptr!Chain(head)' = d
    BY SharedAlive, SharedChainNext
  <2> QED BY <1>1, <2>1 DEF Along
<1>3. LifoStep(s, out, empties, s2, out', empties')
  BY <1>2 DEF SharedLifo
<1>4. CASE s2 = s /\ out' = out /\ empties' = empties
  BY <1>1, <1>4 DEF Sharedptr!Lifo!stackVars
<1>5. CASE \E x \in Values : /\ x \notin { s[i] : i \in 1..Len(s) } \cup out
                           /\ s2 = << x >> \o s /\ out' = out /\ empties' = empties
  <2>1. PICK x \in Values : /\ x \notin { s[i] : i \in 1..Len(s) } \cup out
                           /\ s2 = << x >> \o s /\ out' = out /\ empties' = empties
    BY <1>5
  <2>2. Sharedptr!Lifo!Contents = { s[i] : i \in 1..Len(s) }
    BY <1>1 DEF Sharedptr!Lifo!Contents
  <2>3. Sharedptr!Lifo!Push(x)
    BY <1>1, <2>1, <2>2 DEF Sharedptr!Lifo!Push
  <2> QED BY <2>3 DEF Sharedptr!Lifo!Next
<1>6. CASE s # << >> /\ s2 = Tail(s) /\ out' = out \cup {Head(s)} /\ empties' = empties
  BY <1>1, <1>6 DEF Sharedptr!Lifo!Next, Sharedptr!Lifo!Pop
<1>7. CASE s = << >> /\ empties' = empties + 1 /\ s2 = s /\ out' = out
  BY <1>1, <1>7 DEF Sharedptr!Lifo!Next, Sharedptr!Lifo!PopEmpty
<1> QED BY <1>3, <1>4, <1>5, <1>6, <1>7 DEF LifoStep

-----------------------------------------------------------------------------
(* LockFreeStackUseReferenceCount. *)

RefPlaces == RefCount!Touching \cup {"idle", "count"}

(* The type invariant, but for the bound of empties.                        *)
RefTypes ==
  /\ head \in RefCount!Counted
  /\ next \in [Nodes -> RefCount!Counted]
  /\ internal \in [Nodes -> Int]
  /\ data \in [Nodes -> Values \cup {Null}]
  /\ alive \subseteq Nodes
  /\ pc \in [Threads -> RefPlaces]
  /\ old \in [Threads -> RefCount!Counted]
  /\ ptr \in [Threads -> Nodes \cup {Null}]
  /\ pops \in 0..MaxPops /\ empties \in Nat /\ out \subseteq Values

(* Where a thread is determines what its variables hold.                    *)
RefThread(t) ==
  /\ pc[t] \in RefCount!Touching => ptr[t] \in Nodes
  /\ pc[t] = "swing" => old[t].ptr = ptr[t]

(* The node that a thread will still dereference or delete; that it counts  *)
(* as a user of; that it alone will link or delete, or whose popper it is;  *)
(* whose element it has to store or to return.                              *)
RefTouches(t) == IF pc[t] \in RefCount!Touching THEN {ptr[t]} ELSE {}
RefUses(t) == IF pc[t] \in {"swing", "release"} THEN {ptr[t]} ELSE {}
RefOwns(t) == IF pc[t] \in {"push", "take", "delete", "deleteRetry"} THEN {ptr[t]} ELSE {}
RefHolds(t) == IF pc[t] \in {"push", "take"} THEN {ptr[t]} ELSE {}
RefTakes(t) == IF pc[t] = "take" THEN {ptr[t]} ELSE {}

RefUsed(n) == Cardinality(RefCount!Users(n))

(* The links without their counts.                                          *)
Below == [n \in Nodes |-> next[n].ptr]

RefNodes(c) ==
  /\ ListFrom(Nodes, Null, head.ptr, Below, c)
  /\ Members(c) \subseteq alive
  /\ \A t \in Threads :
       /\ RefTouches(t) \subseteq alive
       /\ RefOwns(t) \cap Members(c) = {}
       /\ \A u \in Threads \ {t} : RefOwns(t) \cap RefOwns(u) = {}

(* A link counts the users of its node, itself and those that have left.    *)
RefLink(l) ==
  l.ptr # Null => /\ l.count - 1 + internal[l.ptr] = RefUsed(l.ptr)
                  /\ internal[l.ptr] <= 0

(* A popper holds the count of the link it has taken; nobody uses a node    *)
(* that is not linked yet or will be deleted.                               *)
RefOwes(t) ==
  /\ pc[t] = "take" => /\ internal[ptr[t]] + old[t].count - 2 = RefUsed(ptr[t])
                       /\ internal[ptr[t]] <= 0
  /\ pc[t] \in {"push", "delete", "deleteRetry"} =>
       internal[ptr[t]] = 0 /\ RefUsed(ptr[t]) = 0

(* Every other node is left to the last of its users.                       *)
RefLeft(n) == internal[n] = RefUsed(n) /\ internal[n] > 0

RefCounts(c) ==
  /\ RefLink(head)
  /\ \A n \in Members(c) : RefLink(next[n])
  /\ \A t \in Threads : RefOwes(t)
  /\ \A n \in alive : \/ n \in Members(c)
                      \/ \E t \in Threads : n \in RefOwns(t)
                      \/ RefLeft(n)

(* The nodes whose element is still to be returned.                         *)
RefHeld(c) == Members(c) \cup UNION { RefHolds(t) : t \in Threads }

(* Those that have been popped.                                             *)
RefTaken == UNION { RefTakes(t) : t \in Threads }

(* The pops that may still find the stack empty.                            *)
RefLooking == { t \in Threads : pc[t] \in {"count", "swing", "release", "deleteRetry"} }

RefInv(c) ==
  /\ RefTypes /\ (\A t \in Threads : RefThread(t))
  /\ RefNodes(c) /\ RefCounts(c) /\ DataApart(RefHeld(c))
  /\ empties + Cardinality(RefLooking) <= pops

(* What a step from the list c to the list d does for the callers.          *)
RefLifo(c, d) ==
  LifoStep(Along(data, c), out \cup Elements(data, RefTaken), empties,
           Along(data', d), out' \cup Elements(data', RefTaken'), empties')

(* The step of thread t gives its variables these values and leaves those   *)
(* of the other threads alone.                                              *)
RefBecomes(t, p, o, q) ==
  /\ pc' \in [Threads -> RefPlaces] /\ old' \in [Threads -> RefCount!Counted]
  /\ ptr' \in [Threads -> Nodes \cup {Null}]
  /\ pc'[t] = p /\ old'[t] = o /\ ptr'[t] = q
  /\ \A u \in Threads \ {t} : pc'[u] = pc[u] /\ old'[u] = old[u] /\ ptr'[u] = ptr[u]

(* No link of a list leads to its first node.                               *)
LEMMA LinksDown ==
  ASSUME NEW h, NEW nx, NEW c, ListFrom(Nodes, Null, h, nx, c)
  PROVE  \A m \in Members(c) : nx[m] = Null \/ (nx[m] \in Members(c) /\ nx[m] # h)
<1> SUFFICES ASSUME NEW i \in 1..Len(c), nx[c[i]] # Null
             PROVE  nx[c[i]] \in Members(c) /\ nx[c[i]] # h
  BY DEF Members
<1>1. c \in Seq(Nodes) /\ Len(c) \in Nat
  BY DEF ListFrom
<1>2. i + 1 \in 1..Len(c) /\ nx[c[i]] = c[i + 1]
  BY <1>1 DEF ListFrom
<1>3. h = c[1] /\ 1 \in 1..Len(c) /\ i + 1 # 1
  BY <1>1, <1>2 DEF ListFrom
<1>4. c[i + 1] # c[1]
  BY <1>2, <1>3 DEF ListFrom
<1> QED BY <1>2, <1>3, <1>4 DEF Members

(* The users of a node are the threads that use it.                         *)
LEMMA RefUsers ==
  \A n : /\ RefCount!Users(n) = { t \in Threads : n \in RefUses(t) }
         /\ RefUsed(n) \in Nat
         /\ RefUsed(n) = 0 <=> \A t \in Threads : n \notin RefUses(t)
<1> SUFFICES ASSUME NEW n
             PROVE  /\ RefCount!Users(n) = { t \in Threads : n \in RefUses(t) }
                    /\ RefUsed(n) \in Nat
                    /\ RefUsed(n) = 0 <=> \A t \in Threads : n \notin RefUses(t)
  OBVIOUS
<1>1. RefCount!Users(n) = { t \in Threads : n \in RefUses(t) }
  BY DEF RefCount!Users, RefUses
<1>2. IsFiniteSet(RefCount!Users(n))
  <2>1. RefCount!Users(n) \in SUBSET Threads
    BY <1>1
  <2> QED BY <2>1, FS_Subset
<1>3. RefUsed(n) \in Nat /\ (RefUsed(n) = 0 <=> RefCount!Users(n) = {})
  BY <1>2, FS_CardinalityType, FS_EmptySet DEF RefUsed
<1> QED BY <1>1, <1>3

(* How the step of a thread changes them.                                   *)
LEMMA RefUsersNext ==
  ASSUME NEW t \in Threads, NEW p, NEW o, NEW q, RefBecomes(t, p, o, q), NEW n
  PROVE  /\ RefUsed(n)' \in Nat
         /\ (n \in RefUses(t)' <=> n \in RefUses(t)) => RefUsed(n)' = RefUsed(n)
         /\ n \notin RefUses(t) /\ n \in RefUses(t)' => RefUsed(n)' = RefUsed(n) + 1
         /\ n \in RefUses(t) /\ n \notin RefUses(t)' => RefUsed(n)' = RefUsed(n) - 1
         /\ RefUsed(n)' = 0 <=> \A u \in Threads : n \notin RefUses(u)'
<1>1. RefCount!Users(n) = { u \in Threads : n \in RefUses(u) }
  BY DEF RefCount!Users, RefUses
<1>2. RefCount!Users(n)' = { u \in Threads : n \in RefUses(u)' }
  BY DEF RefCount!Users, RefUses
<1>3. \A u \in Threads \ {t} : RefUses(u)' = RefUses(u)
  BY DEF RefBecomes, RefUses
<1>4. RefCount!Users(n) \in SUBSET Threads /\ RefCount!Users(n)' \in SUBSET Threads
  BY <1>1, <1>2
<1>5. IsFiniteSet(RefCount!Users(n)')
  BY <1>4, FS_Subset
<1>6. /\ RefUsed(n)' \in Nat
      /\ RefUsed(n)' = 0 <=> RefCount!Users(n)' = {}
  BY <1>5, FS_CardinalityType, FS_EmptySet DEF RefUsed
<1>7. RefUsed(n)' = 0 <=> \A u \in Threads : n \notin RefUses(u)'
  BY <1>2, <1>6
<1>8. ASSUME n \in RefUses(t)' <=> n \in RefUses(t) PROVE RefUsed(n)' = RefUsed(n)
  <2>1. RefCount!Users(n)' = RefCount!Users(n)
    BY <1>1, <1>2, <1>3, <1>8
  <2> QED BY <2>1 DEF RefUsed
<1>9. ASSUME n \notin RefUses(t), n \in RefUses(t)' PROVE RefUsed(n)' = RefUsed(n) + 1
  <2>1. RefCount!Users(n)' = RefCount!Users(n) \cup {t} /\ t \notin RefCount!Users(n)
    BY <1>1, <1>2, <1>3, <1>9
  <2>2. Cardinality(RefCount!Users(n) \cup {t}) = Cardinality(RefCount!Users(n)) + 1
    BY <1>4, <2>1, OneMore
  <2> QED BY <2>1, <2>2 DEF RefUsed
<1>10. ASSUME n \in RefUses(t), n \notin RefUses(t)' PROVE RefUsed(n)' = RefUsed(n) - 1
  <2>1. RefCount!Users(n)' = RefCount!Users(n) \ {t} /\ t \in RefCount!Users(n)
    BY <1>1, <1>2, <1>3, <1>10
  <2>2. Cardinality(RefCount!Users(n) \ {t}) = Cardinality(RefCount!Users(n)) - 1
    BY <1>4, <2>1, OneLess
  <2> QED BY <2>1, <2>2 DEF RefUsed
<1> QED BY <1>6, <1>7, <1>8, <1>9, <1>10

(* A node loses as many users as it is paid back.                           *)
RefSettles(n) ==
  /\ internal'[n] - internal[n] = RefUsed(n)' - RefUsed(n)
  /\ internal'[n] <= internal[n]

(* The step of one thread leaves what another owes to it, if the nodes of   *)
(* the other settle, and only a popper's lose users.                        *)
LEMMA RefOwesStays ==
  ASSUME RefTypes, RefTypes', NEW t \in Threads, NEW p, NEW o, NEW q, RefBecomes(t, p, o, q),
         NEW u \in Threads \ {t}, RefOwes(u), RefThread(u),
         \A n \in RefOwns(u) : RefSettles(n) /\ (pc[u] # "take" => internal'[n] = internal[n])
  PROVE  RefOwes(u)'
<1>1. pc'[u] = pc[u] /\ old'[u] = old[u] /\ ptr'[u] = ptr[u]
  BY DEF RefBecomes
<1>2. PICK n : n = ptr[u]
  OBVIOUS
<1>3. (RefUsed(ptr[u]))' = RefUsed(n)' /\ RefUsed(ptr[u]) = RefUsed(n)
  BY <1>1, <1>2 DEF RefUsed, RefCount!Users
<1>4. RefUsed(n) \in Nat /\ RefUsed(n)' \in Nat
  BY RefUsers, RefUsersNext
<1>5. ASSUME pc[u] \in {"push", "take", "delete", "deleteRetry"}
      PROVE  /\ n \in Nodes /\ internal[n] \in Int /\ internal'[n] \in Int
             /\ internal'[n] - internal[n] = RefUsed(n)' - RefUsed(n)
             /\ internal'[n] <= internal[n]
             /\ pc[u] # "take" => internal'[n] = internal[n]
  <2>1. n \in RefOwns(u) /\ n \in Nodes
    BY <1>2, <1>5 DEF RefOwns, RefThread, RefCount!Touching
  <2> QED BY <2>1 DEF RefSettles, RefTypes
<1>6. ASSUME pc[u] = "take"
      PROVE  internal'[n] + old[u].count - 2 = RefUsed(n)' /\ internal'[n] <= 0
  <2>1. internal[n] + old[u].count - 2 = RefUsed(n) /\ internal[n] <= 0
    BY <1>2, <1>3, <1>6 DEF RefOwes
  <2>2. old[u].count \in Nat
    BY DEF RefTypes, RefCount!Counted
  <2>3. /\ internal[n] \in Int /\ internal'[n] \in Int
        /\ internal'[n] - internal[n] = RefUsed(n)' - RefUsed(n)
        /\ internal'[n] <= internal[n]
    BY <1>5, <1>6
  <2>4. internal'[n] <= 0
    BY <2>1, <2>3
  <2>5. internal'[n] + old[u].count - 2 = RefUsed(n)'
    BY <1>4, <2>1, <2>2, <2>3
  <2> QED BY <2>4, <2>5
<1>7. ASSUME pc[u] \in {"push", "delete", "deleteRetry"}
      PROVE  internal'[n] = 0 /\ RefUsed(n)' = 0
  <2>1. internal[n] = 0 /\ RefUsed(n) = 0
    BY <1>2, <1>3, <1>7 DEF RefOwes
  <2> QED BY <1>4, <1>5, <1>7, <2>1
<1> QED BY <1>1, <1>2, <1>3, <1>6, <1>7 DEF RefOwes

(* A link to a node that loses as many users as it is paid back.            *)
LEMMA RefLinkStays ==
  ASSUME NEW l, RefLink(l), l.count \in Nat, RefTypes, RefTypes', l.ptr \in Nodes \cup {Null},
         \A n : RefUsed(n) \in Nat /\ RefUsed(n)' \in Nat,
         \A n \in Nodes : n = l.ptr =>
           /\ internal'[n] - internal[n] = RefUsed(n)' - RefUsed(n)
           /\ internal'[n] <= internal[n]
  PROVE  RefLink(l)'
<1> SUFFICES ASSUME l.ptr # Null PROVE RefLink(l)'
  BY DEF RefLink
<1>1. PICK n \in Nodes : n = l.ptr
  OBVIOUS
<1>2. l.count - 1 + internal[n] = RefUsed(n) /\ internal[n] <= 0
  BY <1>1 DEF RefLink
<1>3. internal[n] \in Int /\ internal'[n] \in Int
  BY DEF RefTypes
<1>4. RefUsed(n) \in Nat /\ RefUsed(n)' \in Nat /\ internal'[n] <= internal[n]
      /\ internal'[n] - internal[n] = RefUsed(n)' - RefUsed(n)
  BY <1>1
<1>5. l.count - 1 + internal'[n] = RefUsed(n)' /\ internal'[n] <= 0
  <2> HIDE DEF RefUsed
  <2> QED BY <1>2, <1>3, <1>4
<1>6. (RefUsed(l.ptr))' = RefUsed(n)'
  BY <1>1 DEF RefUsed, RefCount!Users
<1> QED BY <1>1, <1>5, <1>6 DEF RefLink

(* A step that changes neither nodes nor links keeps all counts.            *)
LEMMA RefStay ==
  ASSUME NEW c, RefNodes(c), RefCounts(c), DataApart(RefHeld(c)), RefTypes, RefTypes',
         \A u \in Threads : RefThread(u), NEW t \in Threads,
         NEW p, NEW o, NEW q, RefBecomes(t, p, o, q), RefOwes(t)',
         RefTouches(t)' = RefTouches(t), RefUses(t)' = RefUses(t), RefOwns(t)' = RefOwns(t),
         RefHolds(t)' = RefHolds(t), head'.ptr = head.ptr, head' = head \/ head.ptr = Null,
         next' = next, internal' = internal, data' = data, alive' = alive, out' = out
  PROVE  RefNodes(c)' /\ RefCounts(c)' /\ DataApart(RefHeld(c))'
<1>1. \A u \in Threads : /\ RefTouches(u)' = RefTouches(u) /\ RefOwns(u)' = RefOwns(u)
                         /\ RefHolds(u)' = RefHolds(u)
  BY DEF RefBecomes, RefTouches, RefOwns, RefHolds
<1>2. \A n : RefUsed(n)' = RefUsed(n)
  BY RefUsersNext
<1>3. Below' = Below
  BY DEF Below
<1>4. RefNodes(c)'
  BY <1>1, <1>3 DEF RefNodes
<1>5. RefCounts(c)'
  <2>1. \A u \in Threads : RefOwes(u)'
    <3>1. \A n \in Nodes : RefSettles(n)
      BY <1>2, RefUsers DEF RefSettles, RefTypes
    <3>2. \A u \in Threads : RefOwns(u) \subseteq Nodes
      BY DEF RefOwns, RefThread, RefCount!Touching
    <3> QED BY <3>1, <3>2, RefOwesStays DEF RefCounts
  <2>2. \A l : RefLink(l)' = RefLink(l)
    <3> SUFFICES ASSUME NEW l PROVE RefLink(l)' = RefLink(l)
      OBVIOUS
    <3>1. RefUsed(l.ptr)' = RefUsed(l.ptr)
      BY <1>2
    <3> QED BY <3>1 DEF RefLink
  <2>3. RefLink(head)'
    <3>1. CASE head' = head
      BY <1>2, <3>1 DEF RefCounts, RefLink
    <3>2. CASE head.ptr = Null
      BY <3>2 DEF RefLink
    <3> QED BY <3>1, <3>2
  <2>4. \A n \in Members(c) : RefLink(next[n])'
    BY <1>2 DEF RefCounts, RefLink
  <2>5. \A n \in alive : RefLeft(n)' = RefLeft(n)
    BY <1>2 DEF RefLeft
  <2> QED BY <1>1, <2>1, <2>3, <2>4, <2>5 DEF RefCounts
<1>6. RefHeld(c)' = RefHeld(c)
  BY <1>1 DEF RefHeld
<1>7. DataApart(RefHeld(c))'
  BY <1>6 DEF DataApart
<1> QED BY <1>4, <1>5, <1>7

(* What holds an element is allocated.                                      *)
LEMMA RefHeldAlive ==
  ASSUME NEW c, RefNodes(c)
  PROVE  /\ RefHeld(c) \subseteq alive /\ RefTaken \subseteq RefHeld(c)
         /\ \A u \in Threads : /\ RefHolds(u) \subseteq RefOwns(u) /\ RefOwns(u) \subseteq alive
                               /\ RefUses(u) \subseteq alive /\ RefTakes(u) \subseteq RefHolds(u)
<1>1. \A u \in Threads : /\ RefHolds(u) \subseteq RefOwns(u) /\ RefOwns(u) \subseteq RefTouches(u)
                         /\ RefUses(u) \subseteq RefTouches(u) /\ RefTakes(u) \subseteq RefHolds(u)
  BY DEF RefHolds, RefOwns, RefUses, RefTakes, RefTouches, RefCount!Touching
<1> QED BY <1>1 DEF RefHeld, RefTaken, RefNodes

(* What a thread is to the nodes changes only with its own step.            *)
LEMMA RefOthers ==
  ASSUME NEW t \in Threads, NEW p, NEW o, NEW q, RefBecomes(t, p, o, q)
  PROVE  /\ \A u \in Threads \ {t} :
              /\ RefTouches(u)' = RefTouches(u) /\ RefUses(u)' = RefUses(u)
              /\ RefOwns(u)' = RefOwns(u) /\ RefHolds(u)' = RefHolds(u)
              /\ RefTakes(u)' = RefTakes(u) /\ RefThread(u)' = RefThread(u)
         /\ RefTouches(t)' = IF p \in RefCount!Touching THEN {q} ELSE {}
         /\ RefUses(t)' = IF p \in {"swing", "release"} THEN {q} ELSE {}
         /\ RefOwns(t)' = IF p \in {"push", "take", "delete", "deleteRetry"} THEN {q} ELSE {}
         /\ RefHolds(t)' = IF p \in {"push", "take"} THEN {q} ELSE {}
         /\ RefTakes(t)' = IF p = "take" THEN {q} ELSE {}
<1>1. pc'[t] = p /\ ptr'[t] = q
  BY DEF RefBecomes
<1>2. \A u \in Threads \ {t} : pc'[u] = pc[u] /\ old'[u] = old[u] /\ ptr'[u] = ptr[u]
  BY DEF RefBecomes
<1>3. ASSUME NEW u \in Threads \ {t}
      PROVE  /\ RefTouches(u)' = RefTouches(u) /\ RefUses(u)' = RefUses(u)
             /\ RefOwns(u)' = RefOwns(u) /\ RefHolds(u)' = RefHolds(u)
             /\ RefTakes(u)' = RefTakes(u)
  BY <1>2 DEF RefTouches, RefUses, RefOwns, RefHolds, RefTakes
<1>4. ASSUME NEW u \in Threads \ {t} PROVE RefThread(u)' = RefThread(u)
  BY <1>2 DEF RefThread
<1>5. /\ RefTouches(t)' = IF p \in RefCount!Touching THEN {q} ELSE {}
      /\ RefUses(t)' = IF p \in {"swing", "release"} THEN {q} ELSE {}
      /\ RefOwns(t)' = IF p \in {"push", "take", "delete", "deleteRetry"} THEN {q} ELSE {}
      /\ RefHolds(t)' = IF p \in {"push", "take"} THEN {q} ELSE {}
      /\ RefTakes(t)' = IF p = "take" THEN {q} ELSE {}
  BY <1>1 DEF RefTouches, RefUses, RefOwns, RefHolds, RefTakes
<1> QED BY <1>3, <1>4, <1>5

(* Where the links of the list lead.                                        *)
LEMMA RefListLinks ==
  ASSUME NEW c, RefNodes(c), RefTypes
  PROVE  /\ Members(c) \subseteq Nodes
         /\ head.ptr = Null \/ head.ptr \in Members(c)
         /\ \A m \in Members(c) :
              \/ next[m].ptr = Null
              \/ next[m].ptr \in Members(c) /\ next[m].ptr # head.ptr
<1>1. ListFrom(Nodes, Null, head.ptr, Below, c)
  BY DEF RefNodes
<1>2. Members(c) \subseteq Nodes /\ (head.ptr = Null \/ head.ptr \in Members(c))
  BY <1>1, ListIsEmpty
<1>3. \A m \in Members(c) : Below[m] = Null \/ (Below[m] \in Members(c) /\ Below[m] # head.ptr)
  BY <1>1, LinksDown
<1> QED BY <1>2, <1>3 DEF Below

(* A step that does not write the links of a list keeps them, if the nodes  *)
(* below the first settle.                                                  *)
LEMMA RefLinksStay ==
  ASSUME NEW c, RefNodes(c), RefCounts(c), RefTypes, RefTypes', NEW t \in Threads,
         NEW p, NEW o, NEW q, RefBecomes(t, p, o, q), \A m \in Members(c) : next'[m] = next[m],
         \A n \in Members(c) : n # head.ptr => RefSettles(n)
  PROVE  /\ \A m \in Members(c) : RefLink(next[m])'
         /\ head' = head /\ (\A n \in Members(c) : RefSettles(n)) => RefLink(head)'
<1>1. \A n : RefUsed(n) \in Nat /\ RefUsed(n)' \in Nat
  BY RefUsers, RefUsersNext
<1>2. ASSUME NEW m \in Members(c) PROVE RefLink(next[m])'
  <2>1. PICK l : l = next[m]
    OBVIOUS
  <2>2. RefLink(l)
    BY <2>1 DEF RefCounts
  <2>3. m \in Nodes /\ l \in RefCount!Counted
    BY <2>1, RefListLinks DEF RefTypes
  <2>4. l.count \in Nat /\ l.ptr \in Nodes \cup {Null}
    BY <2>3 DEF RefCount!Counted
  <2>5. \A n \in Nodes : n = l.ptr => RefSettles(n)
    BY <2>1, RefListLinks
  <2>6. RefLink(l)'
    BY <1>1, <2>2, <2>4, <2>5, RefLinkStays DEF RefSettles
  <2>7. next'[m] = l
    BY <2>1
  <2> QED BY <2>6, <2>7 DEF RefLink, RefUsed, RefCount!Users
<1>3. ASSUME head' = head, \A n \in Members(c) : RefSettles(n) PROVE RefLink(head)'
  <2>1. PICK l : l = head
    OBVIOUS
  <2>2. RefLink(l)
    BY <2>1 DEF RefCounts
  <2>3. l \in RefCount!Counted
    BY <2>1 DEF RefTypes
  <2>4. l.count \in Nat /\ l.ptr \in Nodes \cup {Null}
    BY <2>3 DEF RefCount!Counted
  <2>5. \A n \in Nodes : n = l.ptr => RefSettles(n)
    BY <1>3, <2>1, RefListLinks
  <2>6. RefLink(l)'
    BY <1>1, <2>2, <2>4, <2>5, RefLinkStays DEF RefSettles
  <2> QED BY <1>3, <2>1, <2>6 DEF RefLink, RefUsed, RefCount!Users
<1> QED BY <1>2, <1>3

(* What is in a list and is not its first is linked from another.           *)
LEMMA LinkedFrom ==
  ASSUME NEW h, NEW nx, NEW c, ListFrom(Nodes, Null, h, nx, c), NEW n \in Members(c), n # h
  PROVE  \E m \in Members(c) : nx[m] = n
<1>1. PICK i \in 1..Len(c) : n = c[i]
  BY DEF Members
<1>2. Len(c) \in Nat /\ h = c[1]
  BY <1>1 DEF ListFrom
<1>3. i - 1 \in 1..Len(c) /\ i - 1 # Len(c) /\ (i - 1) + 1 = i
  BY <1>1, <1>2
<1>4. nx[c[i - 1]] = c[i]
  BY <1>3 DEF ListFrom
<1> QED BY <1>1, <1>3, <1>4 DEF Members

(* A push allocates a node and reads head.                                  *)
LEMMA RefPush ==
  ASSUME NEW c, RefInv(c), NEW t \in Threads, NEW x \in Values, NEW n \in Nodes,
         RefCount!Push(t, x, n)
  PROVE  RefInv(c)' /\ RefLifo(c, c)
<1>1. /\ RefTypes /\ (\A u \in Threads : RefThread(u)) /\ RefThread(t)
      /\ RefNodes(c) /\ RefCounts(c) /\ DataApart(RefHeld(c))
      /\ empties + Cardinality(RefLooking) <= pops
  BY DEF RefInv
<1>2. /\ pc[t] = "idle" /\ x \in RefCount!Fresh /\ n \in Nodes \ alive /\ head' = head
      /\ next' = [next EXCEPT ![n] = head] /\ internal' = [internal EXCEPT ![n] = 0]
      /\ data' = [data EXCEPT ![n] = x] /\ alive' = alive \cup {n} /\ pops' = pops
      /\ out' = out /\ empties' = empties
  BY DEF RefCount!Push, RefCount!nodeVars, RefCount!locals, RefCount!history,
    RefCount!Goto
<1>3. /\ head \in RefCount!Counted /\ head.ptr \in Nodes \cup {Null} /\ head.count \in 0..MaxCount
      /\ head = [count |-> head.count, ptr |-> head.ptr]
      /\ old[t] \in RefCount!Counted /\ old[t].count \in Nat /\ ptr[t] \in Nodes \cup {Null}
      /\ internal \in [Nodes -> Int] /\ next \in [Nodes -> RefCount!Counted]
  BY <1>1 DEF RefTypes, RefCount!Counted
<1>4. RefBecomes(t, "push", old[t], n)
  BY <1>1, <1>2, <1>3 DEF RefTypes, RefPlaces, RefBecomes, RefCount!Touching, RefCount!Push,
    RefCount!nodeVars, RefCount!locals, RefCount!history, RefCount!Goto, RefCount!Counted
<1>5. /\ RefTouches(t) = {} /\ RefUses(t) = {} /\ RefOwns(t) = {} /\ RefHolds(t) = {}
      /\ RefTakes(t) = {}
  BY <1>1, <1>2 DEF RefThread, RefTouches, RefUses, RefOwns, RefHolds, RefTakes, RefCount!Touching
<1>6. /\ RefTouches(t)' = {n} /\ RefUses(t)' = {} /\ RefOwns(t)' = {n}
      /\ RefHolds(t)' = {n} /\ RefTakes(t)' = {}
  BY <1>1, <1>2, <1>4, RefOthers DEF RefThread, RefCount!Touching
<1>7. RefTypes'
  BY <1>1, <1>2, <1>3, <1>4 DEF RefTypes, RefThread, RefBecomes, RefCount!Counted, RefCount!CountedPtr,
    RefCount!Touching
<1>8. \A u \in Threads : RefThread(u)'
  <2>1. RefThread(t)'
    BY <1>1, <1>2, <1>3, <1>4 DEF RefThread, RefBecomes, RefCount!Touching, RefCount!Counted
  <2> QED BY <1>1, <1>4, <2>1, RefOthers
<1>9. RefNodes(c)' /\ RefCounts(c)' /\ DataApart(RefHeld(c))'
  <2>1. /\ n \notin Members(c) /\ n \notin RefHeld(c)
        /\ \A u \in Threads : n \notin RefOwns(u) /\ n \notin RefUses(u)
    BY <1>1, <1>2, RefHeldAlive DEF RefNodes
  <2>2. \A m : RefUsed(m)' = RefUsed(m)
    BY <1>4, <1>5, <1>6, RefUsersNext
  <2>3. RefNodes(c)'
    <3>1. \A m \in Members(c) : Below'[m] = Below[m]
      BY <1>1, <1>2, <1>3, <2>1, RefListLinks DEF Below
    <3>2. ListFrom(Nodes, Null, head.ptr, Below', c)
      BY <1>1, <3>1, ListStays DEF RefNodes
    <3>3. ASSUME NEW u \in Threads
          PROVE  (RefTouches(u) \subseteq alive /\ RefOwns(u) \cap Members(c) = {})'
      BY <1>1, <1>2, <1>4, <1>6, <2>1, RefOthers DEF RefNodes
    <3>4. ASSUME NEW u \in Threads, NEW v \in Threads \ {u}
          PROVE  (RefOwns(u) \cap RefOwns(v) = {})'
      BY <1>1, <1>4, <1>6, <2>1, RefOthers DEF RefNodes
    <3> QED BY <1>1, <1>2, <3>2, <3>3, <3>4 DEF RefNodes
  <2>4. \A m \in Nodes \ {n} : RefSettles(m) /\ internal'[m] = internal[m]
    BY <1>2, <1>3, <2>2, RefUsers DEF RefSettles
  <2>5. RefCounts(c)'
    <3>1. (\A m \in Members(c) : RefLink(next[m])') /\ RefLink(head)'
      <4>1. \A m \in Members(c) : RefSettles(m) /\ next'[m] = next[m]
        BY <1>1, <1>2, <1>3, <2>1, <2>4, RefListLinks
      <4> QED BY <1>1, <1>2, <1>4, <1>7, <4>1, RefLinksStay
    <3>2. ASSUME NEW u \in Threads \ {t} PROVE RefOwes(u)'
      <4>1. RefOwns(u) \subseteq Nodes \ {n}
        BY <1>1, <2>1, RefHeldAlive DEF RefTypes
      <4> QED BY <1>1, <1>4, <1>7, <2>4, <4>1, RefOwesStays DEF RefCounts
    <3>3. RefOwes(t)'
      <4>1. RefUsed(n)' = 0 /\ internal'[n] = 0
        BY <1>2, <1>3, <2>1, <2>2, RefUsers
      <4>2. pc'[t] = "push" /\ ptr'[t] = n
        BY <1>4 DEF RefBecomes
      <4> QED BY <4>1, <4>2 DEF RefOwes, RefUsed, RefCount!Users
    <3>4. ASSUME NEW m \in alive'
          PROVE  \/ m \in Members(c)
                 \/ \E u \in Threads : m \in RefOwns(u)'
                 \/ RefLeft(m)'
      <4>1. CASE m = n
        BY <1>6, <4>1
      <4>2. CASE m # n /\ RefLeft(m)
        BY <1>1, <1>2, <2>2, <2>4, <4>2 DEF RefLeft, RefTypes
      <4>3. CASE m # n /\ ~RefLeft(m)
        BY <1>1, <1>2, <1>4, <1>5, <4>3, RefOthers DEF RefCounts
      <4> QED BY <4>1, <4>2, <4>3
    <3> QED BY <3>1, <3>2, <3>3, <3>4 DEF RefCounts
  <2>6. RefHeld(c)' = RefHeld(c) \cup {n}
    BY <1>4, <1>5, <1>6, RefOthers DEF RefHeld
  <2>7. x \in Values \ out /\ \A m \in alive : data[m] # x
    BY <1>2 DEF RefCount!Fresh
  <2>8. data'[n] = x /\ \A m \in RefHeld(c) : m # n /\ data'[m] = data[m]
    BY <1>1, <1>2, <2>1, RefHeldAlive DEF RefTypes
  <2>9. DataApart(RefHeld(c))'
    BY <1>1, <1>2, <2>6, <2>7, <2>8, RefHeldAlive DEF DataApart
  <2> QED BY <2>3, <2>5, <2>9
<1>10. (empties + Cardinality(RefLooking) <= pops)'
  <2>1. RefLooking' = RefLooking
    BY <1>2, <1>4 DEF RefLooking, RefBecomes
  <2> QED BY <1>1, <1>2, <2>1
<1>11. RefLifo(c, c)
  <2>1. RefTaken' = RefTaken
    BY <1>4, <1>5, <1>6, RefOthers DEF RefTaken
  <2>2. \A m \in Members(c) \cup RefTaken : data'[m] = data[m]
    BY <1>1, <1>2, RefHeldAlive DEF RefTypes, RefHeld
  <2>3. LifoStep(Along(data, c), out \cup Elements(data, RefTaken), empties,
                 Along(data', c), out \cup Elements(data', RefTaken), empties)
    BY <2>2, LifoKeeps
  <2> QED BY <1>2, <2>1, <2>3 DEF RefLifo
<1> QED BY <1>1, <1>2, <1>7, <1>8, <1>9, <1>10, <1>11 DEF RefInv

(* A push links its node.                                                   *)
LEMMA RefPushLink ==
  ASSUME NEW c, RefInv(c), NEW t \in Threads, RefCount!PushLink(t),
         NEW d, d = << ptr[t] >> \o c
  PROVE  RefInv(d)' /\ RefLifo(c, d)
<1>1. /\ RefTypes /\ (\A u \in Threads : RefThread(u)) /\ RefThread(t)
      /\ RefNodes(c) /\ RefCounts(c) /\ DataApart(RefHeld(c))
      /\ empties + Cardinality(RefLooking) <= pops
  BY DEF RefInv
<1>2. /\ pc[t] = "push" /\ head = next[ptr[t]] /\ head' = RefCount!CountedPtr(1, ptr[t])
      /\ next' = next /\ internal' = internal /\ data' = data /\ alive' = alive
      /\ pops' = pops /\ out' = out /\ empties' = empties
  BY DEF RefCount!PushLink, RefCount!nodeVars, RefCount!locals, RefCount!history,
    RefCount!Goto, RefCount!PushExpected
<1>3. /\ head \in RefCount!Counted /\ head.ptr \in Nodes \cup {Null} /\ head.count \in 0..MaxCount
      /\ head = [count |-> head.count, ptr |-> head.ptr]
      /\ old[t] \in RefCount!Counted /\ old[t].count \in Nat /\ ptr[t] \in Nodes \cup {Null}
      /\ internal \in [Nodes -> Int] /\ next \in [Nodes -> RefCount!Counted]
  BY <1>1 DEF RefTypes, RefCount!Counted
<1>4. RefBecomes(t, "idle", old[t], ptr[t])
  BY <1>1, <1>2, <1>3 DEF RefTypes, RefPlaces, RefBecomes, RefCount!Touching, RefCount!PushLink,
    RefCount!nodeVars, RefCount!locals, RefCount!history, RefCount!Goto, RefCount!Counted, RefCount!PushExpected
<1>5. /\ RefTouches(t) = {ptr[t]} /\ RefUses(t) = {} /\ RefOwns(t) = {ptr[t]}
      /\ RefHolds(t) = {ptr[t]} /\ RefTakes(t) = {}
  BY <1>1, <1>2 DEF RefThread, RefTouches, RefUses, RefOwns, RefHolds, RefTakes, RefCount!Touching
<1>6. /\ RefTouches(t)' = {} /\ RefUses(t)' = {} /\ RefOwns(t)' = {} /\ RefHolds(t)' = {}
      /\ RefTakes(t)' = {}
  BY <1>1, <1>2, <1>4, RefOthers DEF RefThread, RefCount!Touching
<1>7. RefTypes'
  <2>1. ptr[t] \in Nodes /\ 1 \in 0..MaxCount
    BY <1>1, <1>2 DEF RefThread, RefCount!Touching
  <2>2. head' \in RefCount!Counted
    BY <1>2, <2>1 DEF RefCount!Counted, RefCount!CountedPtr
  <2> QED BY <1>1, <1>2, <1>4, <2>2 DEF RefTypes, RefBecomes
<1>8. \A u \in Threads : RefThread(u)'
  <2>1. RefThread(t)'
    BY <1>1, <1>2, <1>3, <1>4 DEF RefThread, RefBecomes, RefCount!Touching, RefCount!Counted
  <2> QED BY <1>1, <1>4, <2>1, RefOthers
<1>9. RefNodes(d)' /\ RefCounts(d)' /\ DataApart(RefHeld(d))'
  <2>90. PICK n : n = ptr[t]
    OBVIOUS
  <2> USE <2>90
  <2>1. n \in Nodes /\ n \in alive /\ n \notin Members(c)
        /\ (\A u \in Threads \ {t} : n \notin RefOwns(u))
    BY <1>1, <1>2, <1>5 DEF RefThread, RefNodes, RefCount!Touching
  <2>2. head' = [count |-> 1, ptr |-> n] /\ head = next[n] /\ d = << n >> \o c
    BY <1>2 DEF RefCount!CountedPtr
  <2>0. /\ RefTouches(t) = {n} /\ RefOwns(t) = {n} /\ RefHolds(t) = {n}
    BY <1>5
  <2>3. internal[n] = 0 /\ RefUsed(n) = 0
    BY <1>1, <1>2 DEF RefCounts, RefOwes
  <2> HIDE <2>90
  <2>4. \A m : RefUsed(m)' = RefUsed(m)
    BY <1>4, <1>5, <1>6, RefUsersNext
  <2>5. ListFrom(Nodes, Null, n, Below, d) /\ Members(d) = Members(c) \cup {n}
    <3>1. Below[n] = head.ptr
      BY <2>1, <2>2 DEF Below
    <3>2. ListFrom(Nodes, Null, head.ptr, Below, c)
      BY <1>1 DEF RefNodes
    <3>3. ListFrom(Nodes, Null, n, Below, << n >> \o c) /\ Members(<< n >> \o c) = Members(c) \cup {n}
      BY <2>1, <3>1, <3>2, ListPush
    <3> QED BY <2>2, <3>3
  <2>6. RefNodes(d)'
    <3>1. ListFrom(Nodes, Null, head'.ptr, Below', d)
      <4>1. Below' = Below
        BY <1>2 DEF Below
      <4> QED BY <2>2, <2>5, <4>1
    <3>3. ASSUME NEW u \in Threads
          PROVE  (RefTouches(u) \subseteq alive /\ RefOwns(u) \cap Members(d) = {})'
      BY <1>1, <1>2, <1>4, <1>6, <2>1, <2>5, RefOthers DEF RefNodes
    <3>4. ASSUME NEW u \in Threads, NEW v \in Threads \ {u}
          PROVE  (RefOwns(u) \cap RefOwns(v) = {})'
      BY <1>1, <1>4, <1>6, RefOthers DEF RefNodes
    <3> QED BY <1>1, <1>2, <2>1, <2>5, <3>1, <3>3, <3>4 DEF RefNodes
  <2>7. \A m \in Nodes : RefSettles(m)
    BY <1>2, <1>3, <2>4, RefUsers DEF RefSettles
  <2>8. RefCounts(d)'
    <3>1. \A m \in Members(c) : RefLink(next[m])'
      BY <1>1, <1>2, <1>4, <1>7, <2>7, RefListLinks, RefLinksStay
    <3>2. RefLink(next[n])'
      <4>1. PICK l : l = head
        OBVIOUS
      <4>2. RefLink(l)
        BY <1>1, <4>1 DEF RefCounts
      <4>3. RefUsed(l.ptr)' = RefUsed(l.ptr)
        BY <2>4
      <4>4. RefLink(l)'
        BY <1>2, <4>2, <4>3 DEF RefLink
      <4>5. next'[n] = l
        BY <1>2, <2>2, <4>1
      <4> QED BY <4>4, <4>5 DEF RefLink, RefUsed, RefCount!Users
    <3>3. RefLink(head)'
      <4>1. RefUsed(n)' = 0 /\ internal'[n] = 0
        BY <1>2, <2>3, <2>4
      <4>2. head'.ptr = n /\ head'.count = 1
        BY <2>2
      <4>3. (RefUsed(head.ptr))' = RefUsed(n)'
        BY <4>2 DEF RefUsed, RefCount!Users
      <4> QED BY <4>1, <4>2, <4>3 DEF RefLink
    <3>4. ASSUME NEW u \in Threads \ {t} PROVE RefOwes(u)'
      <4>1. RefOwns(u) \subseteq Nodes
        BY <1>1, RefHeldAlive DEF RefTypes
      <4> QED BY <1>1, <1>2, <1>4, <1>7, <2>7, <4>1, RefOwesStays DEF RefCounts
    <3>5. RefOwes(t)'
      BY <1>4 DEF RefOwes, RefBecomes
    <3>6. ASSUME NEW m \in alive'
          PROVE  \/ m \in Members(d)
                 \/ \E u \in Threads : m \in RefOwns(u)'
                 \/ RefLeft(m)'
      <4>1. CASE RefLeft(m)
        BY <1>2, <2>4, <4>1 DEF RefLeft
      <4>2. CASE ~RefLeft(m)
        <5>1. m \in Members(c) \/ \E u \in Threads : m \in RefOwns(u)
          BY <1>1, <1>2, <4>2 DEF RefCounts
        <5>2. \A u \in Threads \ {t} : RefOwns(u)' = RefOwns(u)
          BY <1>4, RefOthers
        <5>3. m \in RefOwns(t) => m \in Members(d)
          BY <2>0, <2>5
        <5> QED BY <2>5, <5>1, <5>2, <5>3
      <4> QED BY <4>1, <4>2
    <3> QED BY <2>5, <3>1, <3>2, <3>3, <3>4, <3>5, <3>6 DEF RefCounts
  <2>9. RefHeld(d)' = RefHeld(c)
    <3>1. ASSUME NEW m \in RefHeld(d)' PROVE m \in RefHeld(c)
      BY <1>4, <1>6, <2>0, <2>5, <3>1, RefOthers DEF RefHeld
    <3>2. ASSUME NEW m \in RefHeld(c) PROVE m \in RefHeld(d)'
      BY <1>4, <1>6, <2>0, <2>5, <3>2, RefOthers DEF RefHeld
    <3> QED BY <3>1, <3>2
  <2> QED BY <1>1, <1>2, <2>6, <2>8, <2>9 DEF DataApart
<1>10. (empties + Cardinality(RefLooking) <= pops)'
  <2>1. RefLooking' = RefLooking
    BY <1>2, <1>4 DEF RefLooking, RefBecomes
  <2> QED BY <1>1, <1>2, <2>1
<1>11. RefLifo(c, d)
  <2>90. PICK n : n = ptr[t]
    OBVIOUS
  <2> USE <2>90
  <2>1. n \in Nodes /\ n \in RefHeld(c) /\ n \notin Members(c) /\ c \in Seq(Nodes)
        /\ n \notin RefTaken
    BY <1>1, <1>2, <1>5, RefHeldAlive DEF RefThread, RefHeld, RefTaken, RefNodes, ListFrom, RefCount!Touching
  <2>2. d = << n >> \o c
    OBVIOUS
  <2>3. RefTaken' = RefTaken
    BY <1>4, <1>5, <1>6, RefOthers DEF RefTaken
  <2> HIDE <2>90
  <2>4. data[n] \in Values \ out /\ \A m \in Members(c) \cup RefTaken : data[m] # data[n]
    BY <1>1, <2>1, RefHeldAlive DEF DataApart, RefHeld
  <2>5. LifoStep(Along(data, c), out \cup Elements(data, RefTaken), empties,
                 Along(data, << n >> \o c), out \cup Elements(data, RefTaken), empties)
    BY <2>1, <2>4, LifoPushes
  <2> QED BY <1>2, <2>2, <2>3, <2>5 DEF RefLifo
<1> QED BY <1>1, <1>2, <1>7, <1>8, <1>9, <1>10, <1>11 DEF RefInv

(* A push that finds another head starts again.                             *)
LEMMA RefPushRetry ==
  ASSUME NEW c, RefInv(c), NEW t \in Threads, RefCount!PushRetry(t)
  PROVE  RefInv(c)' /\ RefLifo(c, c)
<1>1. /\ RefTypes /\ (\A u \in Threads : RefThread(u)) /\ RefThread(t)
      /\ RefNodes(c) /\ RefCounts(c) /\ DataApart(RefHeld(c))
      /\ empties + Cardinality(RefLooking) <= pops
  BY DEF RefInv
<1>2. /\ pc[t] = "push" /\ head # next[ptr[t]] /\ head' = head
      /\ next' = [next EXCEPT ![ptr[t]] = head] /\ internal' = internal /\ data' = data
      /\ alive' = alive /\ pops' = pops /\ out' = out /\ empties' = empties
  BY DEF RefCount!PushRetry, RefCount!nodeVars, RefCount!locals, RefCount!history,
    RefCount!Goto, RefCount!PushExpected
<1>3. /\ head \in RefCount!Counted /\ head.ptr \in Nodes \cup {Null} /\ head.count \in 0..MaxCount
      /\ head = [count |-> head.count, ptr |-> head.ptr]
      /\ old[t] \in RefCount!Counted /\ old[t].count \in Nat /\ ptr[t] \in Nodes \cup {Null}
      /\ internal \in [Nodes -> Int] /\ next \in [Nodes -> RefCount!Counted]
  BY <1>1 DEF RefTypes, RefCount!Counted
<1>4. RefBecomes(t, "push", old[t], ptr[t])
  BY <1>1, <1>2, <1>3 DEF RefTypes, RefPlaces, RefBecomes, RefCount!Touching, RefCount!PushRetry,
    RefCount!nodeVars, RefCount!locals, RefCount!history, RefCount!Goto, RefCount!Counted, RefCount!PushExpected
<1>5. /\ RefTouches(t) = {ptr[t]} /\ RefUses(t) = {} /\ RefOwns(t) = {ptr[t]}
      /\ RefHolds(t) = {ptr[t]} /\ RefTakes(t) = {}
  BY <1>1, <1>2 DEF RefThread, RefTouches, RefUses, RefOwns, RefHolds, RefTakes, RefCount!Touching
<1>6. /\ RefTouches(t)' = {ptr[t]} /\ RefUses(t)' = {} /\ RefOwns(t)' = {ptr[t]}
      /\ RefHolds(t)' = {ptr[t]} /\ RefTakes(t)' = {}
  BY <1>1, <1>2, <1>4, RefOthers DEF RefThread, RefCount!Touching
<1>7. RefTypes'
  BY <1>1, <1>2, <1>3, <1>4 DEF RefTypes, RefThread, RefBecomes, RefCount!Counted, RefCount!CountedPtr,
    RefCount!Touching
<1>8. \A u \in Threads : RefThread(u)'
  <2>1. RefThread(t)'
    BY <1>1, <1>2, <1>3, <1>4 DEF RefThread, RefBecomes, RefCount!Touching, RefCount!Counted
  <2> QED BY <1>1, <1>4, <2>1, RefOthers
<1>9. RefNodes(c)' /\ RefCounts(c)' /\ DataApart(RefHeld(c))'
  <2>90. PICK n : n = ptr[t]
    OBVIOUS
  <2> USE <2>90
  <2>1. n \in Nodes /\ n \notin Members(c) /\ next' = [next EXCEPT ![n] = head]
    BY <1>1, <1>2, <1>5 DEF RefThread, RefNodes, RefCount!Touching
  <2> HIDE <2>90
  <2>2. \A m : RefUsed(m)' = RefUsed(m)
    BY <1>4, <1>5, <1>6, RefUsersNext
  <2>3. \A u \in Threads : /\ RefTouches(u)' = RefTouches(u) /\ RefOwns(u)' = RefOwns(u)
                           /\ RefHolds(u)' = RefHolds(u)
    BY <1>4, <1>5, <1>6, RefOthers
  <2>4. RefNodes(c)'
    <3>1. \A m \in Members(c) : Below'[m] = Below[m]
      BY <1>1, <1>3, <2>1, RefListLinks DEF Below
    <3>2. ListFrom(Nodes, Null, head.ptr, Below', c)
      BY <1>1, <3>1, ListStays DEF RefNodes
    <3> QED BY <1>1, <1>2, <2>3, <3>2 DEF RefNodes
  <2>5. \A m \in Nodes : RefSettles(m)
    BY <1>2, <1>3, <2>2, RefUsers DEF RefSettles
  <2>6. RefCounts(c)'
    <3>1. (\A m \in Members(c) : RefLink(next[m])') /\ RefLink(head)'
      <4>1. \A m \in Members(c) : RefSettles(m) /\ next'[m] = next[m]
        BY <1>1, <1>3, <2>1, <2>5, RefListLinks
      <4> QED BY <1>1, <1>2, <1>4, <1>7, <4>1, RefLinksStay
    <3>2. ASSUME NEW u \in Threads \ {t} PROVE RefOwes(u)'
      <4>1. RefOwns(u) \subseteq Nodes
        BY <1>1, RefHeldAlive DEF RefTypes
      <4> QED BY <1>1, <1>2, <1>4, <1>7, <2>5, <4>1, RefOwesStays DEF RefCounts
    <3>3. RefOwes(t)'
      <4>1. RefUsed(n)' = 0 /\ internal'[n] = 0
        BY <1>1, <1>2, <2>2, <2>90 DEF RefCounts, RefOwes
      <4>2. pc'[t] = "push" /\ ptr'[t] = n
        BY <1>4, <2>90 DEF RefBecomes
      <4> QED BY <4>1, <4>2 DEF RefOwes, RefUsed, RefCount!Users
    <3>4. ASSUME NEW m \in alive'
          PROVE  \/ m \in Members(c)
                 \/ \E u \in Threads : m \in RefOwns(u)'
                 \/ RefLeft(m)'
      <4>1. CASE RefLeft(m)
        BY <1>2, <2>2, <4>1 DEF RefLeft
      <4>2. CASE ~RefLeft(m)
        BY <1>1, <1>2, <2>3, <4>2 DEF RefCounts
      <4> QED BY <4>1, <4>2
    <3> QED BY <3>1, <3>2, <3>3, <3>4 DEF RefCounts
  <2>7. RefHeld(c)' = RefHeld(c)
    BY <2>3 DEF RefHeld
  <2> QED BY <1>1, <1>2, <2>4, <2>6, <2>7 DEF DataApart
<1>10. (empties + Cardinality(RefLooking) <= pops)'
  <2>1. RefLooking' = RefLooking
    BY <1>2, <1>4 DEF RefLooking, RefBecomes
  <2> QED BY <1>1, <1>2, <2>1
<1>11. RefLifo(c, c)
  <2>1. RefTaken' = RefTaken
    BY <1>4, <1>5, <1>6, RefOthers DEF RefTaken
  <2>2. \A m \in Members(c) \cup RefTaken : data'[m] = data[m]
    BY <1>1, <1>2, RefHeldAlive DEF RefTypes, RefHeld
  <2>3. LifoStep(Along(data, c), out \cup Elements(data, RefTaken), empties,
                 Along(data', c), out \cup Elements(data', RefTaken), empties)
    BY <2>2, LifoKeeps
  <2> QED BY <1>2, <2>1, <2>3 DEF RefLifo
<1> QED BY <1>1, <1>2, <1>7, <1>8, <1>9, <1>10, <1>11 DEF RefInv

(* A pop reads head.                                                        *)
LEMMA RefPop ==
  ASSUME NEW c, RefInv(c), NEW t \in Threads, RefCount!Pop(t)
  PROVE  RefInv(c)' /\ RefLifo(c, c)
<1>1. /\ RefTypes /\ (\A u \in Threads : RefThread(u)) /\ RefThread(t)
      /\ RefNodes(c) /\ RefCounts(c) /\ DataApart(RefHeld(c))
      /\ empties + Cardinality(RefLooking) <= pops
  BY DEF RefInv
<1>2. /\ pc[t] = "idle" /\ pops < MaxPops /\ head' = head /\ next' = next
      /\ internal' = internal /\ data' = data /\ alive' = alive /\ pops' = pops + 1
      /\ out' = out /\ empties' = empties
  BY DEF RefCount!Pop, RefCount!nodeVars, RefCount!locals, RefCount!history,
    RefCount!Goto
<1>3. /\ head \in RefCount!Counted /\ head.ptr \in Nodes \cup {Null} /\ head.count \in 0..MaxCount
      /\ head = [count |-> head.count, ptr |-> head.ptr]
      /\ old[t] \in RefCount!Counted /\ old[t].count \in Nat /\ ptr[t] \in Nodes \cup {Null}
      /\ internal \in [Nodes -> Int] /\ next \in [Nodes -> RefCount!Counted]
  BY <1>1 DEF RefTypes, RefCount!Counted
<1>4. RefBecomes(t, "count", head, ptr[t])
  BY <1>1, <1>2, <1>3 DEF RefTypes, RefPlaces, RefBecomes, RefCount!Touching, RefCount!Pop,
    RefCount!nodeVars, RefCount!locals, RefCount!history, RefCount!Goto, RefCount!Counted
<1>5. /\ RefTouches(t) = {} /\ RefUses(t) = {} /\ RefOwns(t) = {} /\ RefHolds(t) = {}
      /\ RefTakes(t) = {}
  BY <1>1, <1>2 DEF RefThread, RefTouches, RefUses, RefOwns, RefHolds, RefTakes, RefCount!Touching
<1>6. /\ RefTouches(t)' = {} /\ RefUses(t)' = {} /\ RefOwns(t)' = {} /\ RefHolds(t)' = {}
      /\ RefTakes(t)' = {}
  BY <1>1, <1>2, <1>4, RefOthers DEF RefThread, RefCount!Touching
<1>7. RefTypes'
  BY <1>1, <1>2, <1>3, <1>4 DEF RefTypes, RefThread, RefBecomes, RefCount!Counted, RefCount!CountedPtr,
    RefCount!Touching
<1>8. \A u \in Threads : RefThread(u)'
  <2>1. RefThread(t)'
    BY <1>1, <1>2, <1>3, <1>4 DEF RefThread, RefBecomes, RefCount!Touching, RefCount!Counted
  <2> QED BY <1>1, <1>4, <2>1, RefOthers
<1>9. RefNodes(c)' /\ RefCounts(c)' /\ DataApart(RefHeld(c))'
  <2>1. /\ RefTouches(t)' = RefTouches(t) /\ RefUses(t)' = RefUses(t) /\ RefOwns(t)' = RefOwns(t)
        /\ RefHolds(t)' = RefHolds(t)
    BY <1>5, <1>6
  <2>2. RefOwes(t)'
    BY <1>4 DEF RefOwes, RefBecomes
  <2>3. head'.ptr = head.ptr /\ (head' = head \/ head.ptr = Null)
    BY <1>2, <1>3
  <2> QED BY <1>1, <1>2, <1>4, <1>7, <2>1, <2>2, <2>3, RefStay
<1>10. (empties + Cardinality(RefLooking) <= pops)'
  <2>1. RefLooking' = RefLooking \cup {t} /\ t \notin RefLooking
    BY <1>2, <1>4 DEF RefLooking, RefBecomes
  <2>2. RefLooking \in SUBSET Threads /\ pops \in Nat /\ empties \in Nat
    BY <1>1 DEF RefLooking, RefTypes
  <2>3. Cardinality(RefLooking) \in Nat /\ Cardinality(RefLooking)' = Cardinality(RefLooking) + 1
    BY <2>1, <2>2, OneMore
  <2> QED BY <1>1, <1>2, <2>2, <2>3
<1>11. RefLifo(c, c)
  <2>1. RefTaken' = RefTaken
    BY <1>4, <1>5, <1>6, RefOthers DEF RefTaken
  <2>2. \A m \in Members(c) \cup RefTaken : data'[m] = data[m]
    BY <1>1, <1>2, RefHeldAlive DEF RefTypes, RefHeld
  <2>3. LifoStep(Along(data, c), out \cup Elements(data, RefTaken), empties,
                 Along(data', c), out \cup Elements(data', RefTaken), empties)
    BY <2>2, LifoKeeps
  <2> QED BY <1>2, <2>1, <2>3 DEF RefLifo
<1> QED BY <1>1, <1>2, <1>7, <1>8, <1>9, <1>10, <1>11 DEF RefInv

(* A pop that cannot count itself reads head again.                         *)
LEMMA RefCountRetry ==
  ASSUME NEW c, RefInv(c), NEW t \in Threads, RefCount!CountRetry(t)
  PROVE  RefInv(c)' /\ RefLifo(c, c)
<1>1. /\ RefTypes /\ (\A u \in Threads : RefThread(u)) /\ RefThread(t)
      /\ RefNodes(c) /\ RefCounts(c) /\ DataApart(RefHeld(c))
      /\ empties + Cardinality(RefLooking) <= pops
  BY DEF RefInv
<1>2. /\ pc[t] = "count" /\ head # old[t] /\ head' = head /\ next' = next
      /\ internal' = internal /\ data' = data /\ alive' = alive /\ pops' = pops
      /\ out' = out /\ empties' = empties
  BY DEF RefCount!CountRetry, RefCount!nodeVars, RefCount!locals, RefCount!history,
    RefCount!Goto
<1>3. /\ head \in RefCount!Counted /\ head.ptr \in Nodes \cup {Null} /\ head.count \in 0..MaxCount
      /\ head = [count |-> head.count, ptr |-> head.ptr]
      /\ old[t] \in RefCount!Counted /\ old[t].count \in Nat /\ ptr[t] \in Nodes \cup {Null}
      /\ internal \in [Nodes -> Int] /\ next \in [Nodes -> RefCount!Counted]
  BY <1>1 DEF RefTypes, RefCount!Counted
<1>4. RefBecomes(t, "count", head, ptr[t])
  BY <1>1, <1>2, <1>3 DEF RefTypes, RefPlaces, RefBecomes, RefCount!Touching, RefCount!CountRetry,
    RefCount!nodeVars, RefCount!locals, RefCount!history, RefCount!Goto, RefCount!Counted
<1>5. /\ RefTouches(t) = {} /\ RefUses(t) = {} /\ RefOwns(t) = {} /\ RefHolds(t) = {}
      /\ RefTakes(t) = {}
  BY <1>1, <1>2 DEF RefThread, RefTouches, RefUses, RefOwns, RefHolds, RefTakes, RefCount!Touching
<1>6. /\ RefTouches(t)' = {} /\ RefUses(t)' = {} /\ RefOwns(t)' = {} /\ RefHolds(t)' = {}
      /\ RefTakes(t)' = {}
  BY <1>1, <1>2, <1>4, RefOthers DEF RefThread, RefCount!Touching
<1>7. RefTypes'
  BY <1>1, <1>2, <1>3, <1>4 DEF RefTypes, RefThread, RefBecomes, RefCount!Counted, RefCount!CountedPtr,
    RefCount!Touching
<1>8. \A u \in Threads : RefThread(u)'
  <2>1. RefThread(t)'
    BY <1>1, <1>2, <1>3, <1>4 DEF RefThread, RefBecomes, RefCount!Touching, RefCount!Counted
  <2> QED BY <1>1, <1>4, <2>1, RefOthers
<1>9. RefNodes(c)' /\ RefCounts(c)' /\ DataApart(RefHeld(c))'
  <2>1. /\ RefTouches(t)' = RefTouches(t) /\ RefUses(t)' = RefUses(t) /\ RefOwns(t)' = RefOwns(t)
        /\ RefHolds(t)' = RefHolds(t)
    BY <1>5, <1>6
  <2>2. RefOwes(t)'
    BY <1>4 DEF RefOwes, RefBecomes
  <2>3. head'.ptr = head.ptr /\ (head' = head \/ head.ptr = Null)
    BY <1>2, <1>3
  <2> QED BY <1>1, <1>2, <1>4, <1>7, <2>1, <2>2, <2>3, RefStay
<1>10. (empties + Cardinality(RefLooking) <= pops)'
  <2>1. RefLooking' = RefLooking
    BY <1>2, <1>4 DEF RefLooking, RefBecomes
  <2> QED BY <1>1, <1>2, <2>1
<1>11. RefLifo(c, c)
  <2>1. RefTaken' = RefTaken
    BY <1>4, <1>5, <1>6, RefOthers DEF RefTaken
  <2>2. \A m \in Members(c) \cup RefTaken : data'[m] = data[m]
    BY <1>1, <1>2, RefHeldAlive DEF RefTypes, RefHeld
  <2>3. LifoStep(Along(data, c), out \cup Elements(data, RefTaken), empties,
                 Along(data', c), out \cup Elements(data', RefTaken), empties)
    BY <2>2, LifoKeeps
  <2> QED BY <1>2, <2>1, <2>3 DEF RefLifo
<1> QED BY <1>1, <1>2, <1>7, <1>8, <1>9, <1>10, <1>11 DEF RefInv

(* A pop counts itself among the users of the head.                         *)
LEMMA RefCountHead ==
  ASSUME NEW c, RefInv(c), NEW t \in Threads, RefCount!Count(t)
  PROVE  RefInv(c)' /\ RefLifo(c, c)
<1>1. /\ RefTypes /\ (\A u \in Threads : RefThread(u)) /\ RefThread(t)
      /\ RefNodes(c) /\ RefCounts(c) /\ DataApart(RefHeld(c))
      /\ empties + Cardinality(RefLooking) <= pops
  BY DEF RefInv
<1>2. /\ pc[t] = "count" /\ head = old[t] /\ head.count < MaxCount /\ head.ptr # Null
      /\ head' = [head EXCEPT !.count = head.count + 1] /\ next' = next
      /\ internal' = internal /\ data' = data /\ alive' = alive /\ pops' = pops
      /\ out' = out /\ empties' = empties
  BY DEF RefCount!Count, RefCount!nodeVars, RefCount!locals, RefCount!history,
    RefCount!Goto, RefCount!Increase, RefCount!HeadIsNull
<1>3. /\ head \in RefCount!Counted /\ head.ptr \in Nodes \cup {Null} /\ head.count \in 0..MaxCount
      /\ head = [count |-> head.count, ptr |-> head.ptr]
      /\ old[t] \in RefCount!Counted /\ old[t].count \in Nat /\ ptr[t] \in Nodes \cup {Null}
      /\ internal \in [Nodes -> Int] /\ next \in [Nodes -> RefCount!Counted]
  BY <1>1 DEF RefTypes, RefCount!Counted
<1>4. RefBecomes(t, "swing", head', head.ptr)
  BY <1>1, <1>2, <1>3 DEF RefTypes, RefPlaces, RefBecomes, RefCount!Touching, RefCount!Count,
    RefCount!nodeVars, RefCount!locals, RefCount!history, RefCount!Goto, RefCount!Counted, RefCount!Increase, RefCount!HeadIsNull
<1>5. /\ RefTouches(t) = {} /\ RefUses(t) = {} /\ RefOwns(t) = {} /\ RefHolds(t) = {}
      /\ RefTakes(t) = {}
  BY <1>1, <1>2 DEF RefThread, RefTouches, RefUses, RefOwns, RefHolds, RefTakes, RefCount!Touching
<1>6. /\ RefTouches(t)' = {head.ptr} /\ RefUses(t)' = {head.ptr} /\ RefOwns(t)' = {}
      /\ RefHolds(t)' = {} /\ RefTakes(t)' = {}
  BY <1>1, <1>2, <1>4, RefOthers DEF RefThread, RefCount!Touching
<1>7. RefTypes'
  BY <1>1, <1>2, <1>3, <1>4 DEF RefTypes, RefThread, RefBecomes, RefCount!Counted, RefCount!CountedPtr,
    RefCount!Touching
<1>8. \A u \in Threads : RefThread(u)'
  <2>1. RefThread(t)'
    BY <1>1, <1>2, <1>3, <1>4 DEF RefThread, RefBecomes, RefCount!Touching, RefCount!Counted
  <2> QED BY <1>1, <1>4, <2>1, RefOthers
<1>9. RefNodes(c)' /\ RefCounts(c)' /\ DataApart(RefHeld(c))'
  <2>90. PICK n : n = head.ptr
    OBVIOUS
  <2> USE <2>90
  <2>1. n \in Nodes /\ n \in Members(c) /\ n \in alive /\ head'.ptr = n /\ head'.count = head.count + 1
    BY <1>1, <1>2, <1>3, RefListLinks DEF RefNodes
  <2>2. RefTouches(t)' = {n} /\ RefUses(t)' = {n}
    BY <1>6
  <2>3. head.count - 1 + internal[n] = RefUsed(n) /\ internal[n] <= 0
    BY <1>1, <2>1 DEF RefCounts, RefLink
  <2>4. ListFrom(Nodes, Null, n, Below, c) /\ \A m \in Members(c) : m # n => m # head.ptr
    BY <1>1 DEF RefNodes
  <2>5. \A m \in Members(c) : m # head.ptr => m # n
    OBVIOUS
  <2> HIDE <2>90
  <2>6. \A m : m # n => RefUsed(m)' = RefUsed(m)
    BY <1>4, <1>5, <2>2, RefUsersNext
  <2>7. RefUsed(n)' = RefUsed(n) + 1 /\ RefUsed(n) \in Nat
    BY <1>4, <1>5, <2>2, RefUsersNext, RefUsers
  <2>8. RefNodes(c)'
    <3>1. ListFrom(Nodes, Null, head'.ptr, Below', c)
      <4>1. Below' = Below
        BY <1>2 DEF Below
      <4> QED BY <2>1, <2>4, <4>1
    <3>3. ASSUME NEW u \in Threads
          PROVE  (RefTouches(u) \subseteq alive /\ RefOwns(u) \cap Members(c) = {})'
      BY <1>1, <1>2, <1>4, <1>6, <2>1, <2>2, RefOthers DEF RefNodes
    <3>4. ASSUME NEW u \in Threads, NEW v \in Threads \ {u}
          PROVE  (RefOwns(u) \cap RefOwns(v) = {})'
      BY <1>1, <1>4, <1>6, RefOthers DEF RefNodes
    <3> QED BY <1>1, <1>2, <3>1, <3>3, <3>4 DEF RefNodes
  <2>9. \A m \in Nodes : m # n => RefSettles(m) /\ internal'[m] = internal[m]
    BY <1>2, <1>3, <2>6, RefUsers DEF RefSettles
  <2>10. RefCounts(c)'
    <3>1. \A m \in Members(c) : RefLink(next[m])'
      <4>1. \A m \in Members(c) : next'[m] = next[m] /\ (m # head.ptr => RefSettles(m))
        BY <1>1, <1>2, <2>5, <2>9, RefListLinks
      <4> QED BY <1>1, <1>4, <1>7, <4>1, RefLinksStay
    <3>2. RefLink(head)'
      <4>1. head'.count - 1 + internal'[n] = RefUsed(n)' /\ internal'[n] <= 0
        <5>1. internal'[n] = internal[n] /\ internal[n] \in Int /\ head.count \in Nat
          BY <1>2, <1>3, <2>1
        <5> QED BY <2>1, <2>3, <2>7, <5>1
      <4>2. (RefUsed(head.ptr))' = RefUsed(n)'
        BY <2>1 DEF RefUsed, RefCount!Users
      <4> QED BY <2>1, <4>1, <4>2 DEF RefLink
    <3>3. ASSUME NEW u \in Threads \ {t} PROVE RefOwes(u)'
      <4>1. RefOwns(u) \subseteq Nodes /\ n \notin RefOwns(u)
        BY <1>1, <2>1, RefHeldAlive DEF RefTypes, RefNodes
      <4> QED BY <1>1, <1>4, <1>7, <2>9, <4>1, RefOwesStays DEF RefCounts
    <3>4. RefOwes(t)'
      BY <1>4 DEF RefOwes, RefBecomes
    <3>5. ASSUME NEW m \in alive'
          PROVE  \/ m \in Members(c)
                 \/ \E u \in Threads : m \in RefOwns(u)'
                 \/ RefLeft(m)'
      <4>1. CASE m = n
        BY <2>1, <4>1
      <4>2. CASE m # n /\ RefLeft(m)
        BY <1>2, <2>6, <4>2 DEF RefLeft
      <4>3. CASE m # n /\ ~RefLeft(m)
        BY <1>1, <1>2, <1>4, <1>5, <4>3, RefOthers DEF RefCounts
      <4> QED BY <4>1, <4>2, <4>3
    <3> QED BY <3>1, <3>2, <3>3, <3>4, <3>5 DEF RefCounts
  <2>11. RefHeld(c)' = RefHeld(c)
    BY <1>4, <1>5, <1>6, RefOthers DEF RefHeld
  <2> QED BY <1>1, <1>2, <2>8, <2>10, <2>11 DEF DataApart
<1>10. (empties + Cardinality(RefLooking) <= pops)'
  <2>1. RefLooking' = RefLooking
    BY <1>2, <1>4 DEF RefLooking, RefBecomes
  <2> QED BY <1>1, <1>2, <2>1
<1>11. RefLifo(c, c)
  <2>1. RefTaken' = RefTaken
    BY <1>4, <1>5, <1>6, RefOthers DEF RefTaken
  <2>2. \A m \in Members(c) \cup RefTaken : data'[m] = data[m]
    BY <1>1, <1>2, RefHeldAlive DEF RefTypes, RefHeld
  <2>3. LifoStep(Along(data, c), out \cup Elements(data, RefTaken), empties,
                 Along(data', c), out \cup Elements(data', RefTaken), empties)
    BY <2>2, LifoKeeps
  <2> QED BY <1>2, <2>1, <2>3 DEF RefLifo
<1> QED BY <1>1, <1>2, <1>7, <1>8, <1>9, <1>10, <1>11 DEF RefInv

(* A pop counts itself on the null pointer and returns nothing.             *)
LEMMA RefCountEmpty ==
  ASSUME NEW c, RefInv(c), NEW t \in Threads, RefCount!CountEmpty(t)
  PROVE  RefInv(c)' /\ RefLifo(c, c)
<1>1. /\ RefTypes /\ (\A u \in Threads : RefThread(u)) /\ RefThread(t)
      /\ RefNodes(c) /\ RefCounts(c) /\ DataApart(RefHeld(c))
      /\ empties + Cardinality(RefLooking) <= pops
  BY DEF RefInv
<1>2. /\ pc[t] = "count" /\ head.count < MaxCount /\ head.ptr = Null
      /\ head' = [head EXCEPT !.count = head.count + 1] /\ next' = next
      /\ internal' = internal /\ data' = data /\ alive' = alive /\ pops' = pops
      /\ out' = out /\ empties' = empties + 1
  BY DEF RefCount!CountEmpty, RefCount!nodeVars, RefCount!locals, RefCount!history,
    RefCount!Goto, RefCount!Increase, RefCount!HeadIsNull
<1>3. /\ head \in RefCount!Counted /\ head.ptr \in Nodes \cup {Null} /\ head.count \in 0..MaxCount
      /\ head = [count |-> head.count, ptr |-> head.ptr]
      /\ old[t] \in RefCount!Counted /\ old[t].count \in Nat /\ ptr[t] \in Nodes \cup {Null}
      /\ internal \in [Nodes -> Int] /\ next \in [Nodes -> RefCount!Counted]
  BY <1>1 DEF RefTypes, RefCount!Counted
<1>4. RefBecomes(t, "idle", old[t], ptr[t])
  BY <1>1, <1>2, <1>3 DEF RefTypes, RefPlaces, RefBecomes, RefCount!Touching, RefCount!CountEmpty,
    RefCount!nodeVars, RefCount!locals, RefCount!history, RefCount!Goto, RefCount!Counted, RefCount!Increase, RefCount!HeadIsNull
<1>5. /\ RefTouches(t) = {} /\ RefUses(t) = {} /\ RefOwns(t) = {} /\ RefHolds(t) = {}
      /\ RefTakes(t) = {}
  BY <1>1, <1>2 DEF RefThread, RefTouches, RefUses, RefOwns, RefHolds, RefTakes, RefCount!Touching
<1>6. /\ RefTouches(t)' = {} /\ RefUses(t)' = {} /\ RefOwns(t)' = {} /\ RefHolds(t)' = {}
      /\ RefTakes(t)' = {}
  BY <1>1, <1>2, <1>4, RefOthers DEF RefThread, RefCount!Touching
<1>7. RefTypes'
  BY <1>1, <1>2, <1>3, <1>4 DEF RefTypes, RefThread, RefBecomes, RefCount!Counted, RefCount!CountedPtr,
    RefCount!Touching
<1>8. \A u \in Threads : RefThread(u)'
  <2>1. RefThread(t)'
    BY <1>1, <1>2, <1>3, <1>4 DEF RefThread, RefBecomes, RefCount!Touching, RefCount!Counted
  <2> QED BY <1>1, <1>4, <2>1, RefOthers
<1>9. RefNodes(c)' /\ RefCounts(c)' /\ DataApart(RefHeld(c))'
  <2>1. /\ RefTouches(t)' = RefTouches(t) /\ RefUses(t)' = RefUses(t) /\ RefOwns(t)' = RefOwns(t)
        /\ RefHolds(t)' = RefHolds(t)
    BY <1>5, <1>6
  <2>2. RefOwes(t)'
    BY <1>4 DEF RefOwes, RefBecomes
  <2>3. head'.ptr = head.ptr /\ (head' = head \/ head.ptr = Null)
    BY <1>2, <1>3
  <2> QED BY <1>1, <1>2, <1>4, <1>7, <2>1, <2>2, <2>3, RefStay
<1>10. (empties + Cardinality(RefLooking) <= pops)'
  <2>1. RefLooking' = RefLooking \ {t} /\ t \in RefLooking
    BY <1>2, <1>4 DEF RefLooking, RefBecomes
  <2>2. RefLooking \in SUBSET Threads /\ pops \in Nat /\ empties \in Nat
    BY <1>1 DEF RefLooking, RefTypes
  <2>3. Cardinality(RefLooking) \in Nat /\ Cardinality(RefLooking)' = Cardinality(RefLooking) - 1
    BY <2>1, <2>2, OneLess
  <2> QED BY <1>1, <1>2, <2>2, <2>3
<1>11. RefLifo(c, c)
  <2>1. RefTaken' = RefTaken
    BY <1>4, <1>5, <1>6, RefOthers DEF RefTaken
  <2>2. c = << >>
    BY <1>1, <1>2, ListIsEmpty DEF RefNodes
  <2>3. LifoStep(Along(data, << >>), out \cup Elements(data, RefTaken), empties,
                 Along(data, << >>), out \cup Elements(data, RefTaken), empties + 1)
    BY LifoPopsNothing
  <2> QED BY <1>2, <2>1, <2>2, <2>3 DEF RefLifo
<1> QED BY <1>1, <1>2, <1>7, <1>8, <1>9, <1>10, <1>11 DEF RefInv

(* A pop takes out the head that it has counted.                            *)
LEMMA RefSwing ==
  ASSUME NEW c, RefInv(c), NEW t \in Threads, RefCount!Swing(t),
         NEW d, d = Tail(c)
  PROVE  RefInv(d)' /\ RefLifo(c, d)
<1>1. /\ RefTypes /\ (\A u \in Threads : RefThread(u)) /\ RefThread(t)
      /\ RefNodes(c) /\ RefCounts(c) /\ DataApart(RefHeld(c))
      /\ empties + Cardinality(RefLooking) <= pops
  BY DEF RefInv
<1>2. /\ pc[t] = "swing" /\ head = old[t] /\ head' = next[ptr[t]] /\ next' = next
      /\ internal' = internal /\ data' = data /\ alive' = alive /\ pops' = pops
      /\ out' = out /\ empties' = empties
  BY DEF RefCount!Swing, RefCount!nodeVars, RefCount!locals, RefCount!history,
    RefCount!Goto
<1>3. /\ head \in RefCount!Counted /\ head.ptr \in Nodes \cup {Null} /\ head.count \in 0..MaxCount
      /\ head = [count |-> head.count, ptr |-> head.ptr]
      /\ old[t] \in RefCount!Counted /\ old[t].count \in Nat /\ ptr[t] \in Nodes \cup {Null}
      /\ internal \in [Nodes -> Int] /\ next \in [Nodes -> RefCount!Counted]
  BY <1>1 DEF RefTypes, RefCount!Counted
<1>4. RefBecomes(t, "take", old[t], ptr[t])
  BY <1>1, <1>2, <1>3 DEF RefTypes, RefPlaces, RefBecomes, RefCount!Touching, RefCount!Swing,
    RefCount!nodeVars, RefCount!locals, RefCount!history, RefCount!Goto, RefCount!Counted
<1>5. /\ RefTouches(t) = {ptr[t]} /\ RefUses(t) = {ptr[t]} /\ RefOwns(t) = {}
      /\ RefHolds(t) = {} /\ RefTakes(t) = {}
  BY <1>1, <1>2 DEF RefThread, RefTouches, RefUses, RefOwns, RefHolds, RefTakes, RefCount!Touching
<1>6. /\ RefTouches(t)' = {ptr[t]} /\ RefUses(t)' = {} /\ RefOwns(t)' = {ptr[t]}
      /\ RefHolds(t)' = {ptr[t]} /\ RefTakes(t)' = {ptr[t]}
  BY <1>1, <1>2, <1>4, RefOthers DEF RefThread, RefCount!Touching
<1>7. RefTypes'
  BY <1>1, <1>2, <1>3, <1>4 DEF RefTypes, RefThread, RefBecomes, RefCount!Counted, RefCount!CountedPtr,
    RefCount!Touching
<1>8. \A u \in Threads : RefThread(u)'
  <2>1. RefThread(t)'
    BY <1>1, <1>2, <1>3, <1>4 DEF RefThread, RefBecomes, RefCount!Touching, RefCount!Counted
  <2> QED BY <1>1, <1>4, <2>1, RefOthers
<1>9. RefNodes(d)' /\ RefCounts(d)' /\ DataApart(RefHeld(d))'
  <2>90. PICK n : n = head.ptr
    OBVIOUS
  <2> USE <2>90
  <2>1. n = ptr[t] /\ n \in Nodes /\ n # Null /\ n \in Members(c) /\ n \in alive
        /\ head' = next[n]
    BY <1>1, <1>2, RefListLinks DEF RefThread, RefNodes, RefCount!Touching
  <2>2. /\ RefTouches(t)' = {n} /\ RefUses(t) = {n} /\ RefOwns(t)' = {n} /\ RefHolds(t)' = {n}
    BY <1>5, <1>6, <2>1
  <2>3. head.count - 1 + internal[n] = RefUsed(n) /\ internal[n] <= 0 /\ head.count = old[t].count
    BY <1>1, <1>2, <2>1 DEF RefCounts, RefLink
  <2>4. /\ ListFrom(Nodes, Null, Below[n], Below, d)
        /\ Members(d) = Members(c) \ {n}
    BY <1>1, <2>1, ListPop DEF RefNodes
  <2>5. \A m \in Members(c) : m # head.ptr => m # n
    OBVIOUS
  <2> HIDE <2>90
  <2>6. \A m : m # n => RefUsed(m)' = RefUsed(m)
    BY <1>4, <1>6, <2>2, RefUsersNext
  <2>7. RefUsed(n)' = RefUsed(n) - 1 /\ RefUsed(n) \in Nat
    BY <1>4, <1>6, <2>2, RefUsersNext, RefUsers
  <2>8. RefNodes(d)'
    <3>1. ListFrom(Nodes, Null, head'.ptr, Below', d)
      <4>1. Below' = Below /\ head'.ptr = Below[n]
        BY <1>2, <2>1 DEF Below
      <4> QED BY <2>4, <4>1
    <3>3. ASSUME NEW u \in Threads
          PROVE  (RefTouches(u) \subseteq alive /\ RefOwns(u) \cap Members(d) = {})'
      BY <1>1, <1>2, <1>4, <2>1, <2>2, <2>4, RefOthers DEF RefNodes
    <3>4. ASSUME NEW u \in Threads, NEW v \in Threads \ {u}
          PROVE  (RefOwns(u) \cap RefOwns(v) = {})'
      BY <1>1, <1>4, <2>1, <2>2, RefOthers DEF RefNodes
    <3> QED BY <1>1, <1>2, <2>4, <3>1, <3>3, <3>4 DEF RefNodes
  <2>9. \A m \in Nodes : m # n => RefSettles(m) /\ internal'[m] = internal[m]
    BY <1>2, <1>3, <2>6, RefUsers DEF RefSettles
  <2>10. RefCounts(d)'
    <3>1. \A m \in Members(c) : RefLink(next[m])'
      <4>1. \A m \in Members(c) : next'[m] = next[m] /\ (m # head.ptr => RefSettles(m))
        BY <1>1, <1>2, <2>5, <2>9, RefListLinks
      <4> QED BY <1>1, <1>4, <1>7, <4>1, RefLinksStay
    <3>2. RefLink(head)'
      <4>1. RefLink(next[n])'
        BY <2>1, <3>1
      <4>2. head' = next'[n]
        BY <1>2, <2>1
      <4> QED BY <4>1, <4>2 DEF RefLink, RefUsed, RefCount!Users
    <3>3. ASSUME NEW u \in Threads \ {t} PROVE RefOwes(u)'
      <4>1. RefOwns(u) \subseteq Nodes /\ n \notin RefOwns(u)
        BY <1>1, <2>1, RefHeldAlive DEF RefTypes, RefNodes
      <4> QED BY <1>1, <1>4, <1>7, <2>9, <4>1, RefOwesStays DEF RefCounts
    <3>4. RefOwes(t)'
      <4>1. internal'[n] + old[t].count - 2 = RefUsed(n)' /\ internal'[n] <= 0
        <5>1. internal'[n] = internal[n] /\ internal[n] \in Int
          BY <1>2, <1>3, <2>1
        <5> QED BY <1>3, <2>3, <2>7, <5>1
      <4>2. pc'[t] = "take" /\ ptr'[t] = n /\ old'[t] = old[t]
        BY <1>4, <2>1 DEF RefBecomes
      <4> QED BY <4>1, <4>2 DEF RefOwes, RefUsed, RefCount!Users
    <3>5. ASSUME NEW m \in alive'
          PROVE  \/ m \in Members(d)
                 \/ \E u \in Threads : m \in RefOwns(u)'
                 \/ RefLeft(m)'
      <4>1. CASE m = n
        BY <2>2, <4>1
      <4>2. CASE m # n /\ RefLeft(m)
        BY <1>2, <2>6, <4>2 DEF RefLeft
      <4>3. CASE m # n /\ ~RefLeft(m)
        BY <1>1, <1>2, <1>4, <1>5, <2>4, <4>3, RefOthers DEF RefCounts
      <4> QED BY <4>1, <4>2, <4>3
    <3> QED BY <1>2, <2>4, <3>1, <3>2, <3>3, <3>4, <3>5 DEF RefCounts
  <2>11. RefHeld(d)' = RefHeld(c)
    <3>1. ASSUME NEW m \in RefHeld(d)' PROVE m \in RefHeld(c)
      BY <1>4, <2>1, <2>2, <2>4, <3>1, RefOthers DEF RefHeld
    <3>2. ASSUME NEW m \in RefHeld(c) PROVE m \in RefHeld(d)'
      BY <1>4, <1>5, <2>1, <2>2, <2>4, <3>2, RefOthers DEF RefHeld
    <3> QED BY <3>1, <3>2
  <2> QED BY <1>1, <1>2, <2>8, <2>10, <2>11 DEF DataApart
<1>10. (empties + Cardinality(RefLooking) <= pops)'
  <2>1. RefLooking' = RefLooking \ {t} /\ t \in RefLooking
    BY <1>2, <1>4 DEF RefLooking, RefBecomes
  <2>2. RefLooking \in SUBSET Threads /\ pops \in Nat /\ empties \in Nat
    BY <1>1 DEF RefLooking, RefTypes
  <2>3. Cardinality(RefLooking) \in Nat /\ Cardinality(RefLooking)' = Cardinality(RefLooking) - 1
    BY <2>1, <2>2, OneLess
  <2> QED BY <1>1, <1>2, <2>2, <2>3
<1>11. RefLifo(c, d)
  <2>1. /\ c \in Seq(Nodes) /\ c # << >> /\ Head(c) = ptr[t]
    <3>1. head.ptr = ptr[t] /\ ptr[t] \in Nodes
      BY <1>1, <1>2 DEF RefThread, RefCount!Touching
    <3>2. ListFrom(Nodes, Null, head.ptr, Below, c)
      BY <1>1 DEF RefNodes
    <3> QED BY <3>1, <3>2, ListPop DEF ListFrom
  <2>2. RefTaken' = RefTaken \cup {Head(c)}
    BY <1>4, <1>5, <1>6, <2>1, RefOthers DEF RefTaken
  <2>3. LifoStep(Along(data, c), out \cup Elements(data, RefTaken), empties,
                 Along(data, Tail(c)), out \cup Elements(data, RefTaken \cup {Head(c)}), empties)
    BY <2>1, LifoPops
  <2> QED BY <1>2, <2>2, <2>3 DEF RefLifo
<1> QED BY <1>1, <1>2, <1>7, <1>8, <1>9, <1>10, <1>11 DEF RefInv

(* A pop finds another head than it has counted.                            *)
LEMMA RefSwingFail ==
  ASSUME NEW c, RefInv(c), NEW t \in Threads, RefCount!SwingFail(t)
  PROVE  RefInv(c)' /\ RefLifo(c, c)
<1>1. /\ RefTypes /\ (\A u \in Threads : RefThread(u)) /\ RefThread(t)
      /\ RefNodes(c) /\ RefCounts(c) /\ DataApart(RefHeld(c))
      /\ empties + Cardinality(RefLooking) <= pops
  BY DEF RefInv
<1>2. /\ pc[t] = "swing" /\ head # old[t] /\ head' = head /\ next' = next
      /\ internal' = internal /\ data' = data /\ alive' = alive /\ pops' = pops
      /\ out' = out /\ empties' = empties
  BY DEF RefCount!SwingFail, RefCount!nodeVars, RefCount!locals, RefCount!history,
    RefCount!Goto
<1>3. /\ head \in RefCount!Counted /\ head.ptr \in Nodes \cup {Null} /\ head.count \in 0..MaxCount
      /\ head = [count |-> head.count, ptr |-> head.ptr]
      /\ old[t] \in RefCount!Counted /\ old[t].count \in Nat /\ ptr[t] \in Nodes \cup {Null}
      /\ internal \in [Nodes -> Int] /\ next \in [Nodes -> RefCount!Counted]
  BY <1>1 DEF RefTypes, RefCount!Counted
<1>4. RefBecomes(t, "release", head, ptr[t])
  BY <1>1, <1>2, <1>3 DEF RefTypes, RefPlaces, RefBecomes, RefCount!Touching, RefCount!SwingFail,
    RefCount!nodeVars, RefCount!locals, RefCount!history, RefCount!Goto, RefCount!Counted
<1>5. /\ RefTouches(t) = {ptr[t]} /\ RefUses(t) = {ptr[t]} /\ RefOwns(t) = {}
      /\ RefHolds(t) = {} /\ RefTakes(t) = {}
  BY <1>1, <1>2 DEF RefThread, RefTouches, RefUses, RefOwns, RefHolds, RefTakes, RefCount!Touching
<1>6. /\ RefTouches(t)' = {ptr[t]} /\ RefUses(t)' = {ptr[t]} /\ RefOwns(t)' = {}
      /\ RefHolds(t)' = {} /\ RefTakes(t)' = {}
  BY <1>1, <1>2, <1>4, RefOthers DEF RefThread, RefCount!Touching
<1>7. RefTypes'
  BY <1>1, <1>2, <1>3, <1>4 DEF RefTypes, RefThread, RefBecomes, RefCount!Counted, RefCount!CountedPtr,
    RefCount!Touching
<1>8. \A u \in Threads : RefThread(u)'
  <2>1. RefThread(t)'
    BY <1>1, <1>2, <1>3, <1>4 DEF RefThread, RefBecomes, RefCount!Touching, RefCount!Counted
  <2> QED BY <1>1, <1>4, <2>1, RefOthers
<1>9. RefNodes(c)' /\ RefCounts(c)' /\ DataApart(RefHeld(c))'
  <2>1. /\ RefTouches(t)' = RefTouches(t) /\ RefUses(t)' = RefUses(t) /\ RefOwns(t)' = RefOwns(t)
        /\ RefHolds(t)' = RefHolds(t)
    BY <1>5, <1>6
  <2>2. RefOwes(t)'
    BY <1>4 DEF RefOwes, RefBecomes
  <2>3. head'.ptr = head.ptr /\ (head' = head \/ head.ptr = Null)
    BY <1>2, <1>3
  <2> QED BY <1>1, <1>2, <1>4, <1>7, <2>1, <2>2, <2>3, RefStay
<1>10. (empties + Cardinality(RefLooking) <= pops)'
  <2>1. RefLooking' = RefLooking
    BY <1>2, <1>4 DEF RefLooking, RefBecomes
  <2> QED BY <1>1, <1>2, <2>1
<1>11. RefLifo(c, c)
  <2>1. RefTaken' = RefTaken
    BY <1>4, <1>5, <1>6, RefOthers DEF RefTaken
  <2>2. \A m \in Members(c) \cup RefTaken : data'[m] = data[m]
    BY <1>1, <1>2, RefHeldAlive DEF RefTypes, RefHeld
  <2>3. LifoStep(Along(data, c), out \cup Elements(data, RefTaken), empties,
                 Along(data', c), out \cup Elements(data', RefTaken), empties)
    BY <2>2, LifoKeeps
  <2> QED BY <1>2, <2>1, <2>3 DEF RefLifo
<1> QED BY <1>1, <1>2, <1>7, <1>8, <1>9, <1>10, <1>11 DEF RefInv

(* A popper takes the element and pays its link back.                       *)
LEMMA RefTake ==
  ASSUME NEW c, RefInv(c), NEW t \in Threads, RefCount!Take(t)
  PROVE  RefInv(c)' /\ RefLifo(c, c)
<1>1. /\ RefTypes /\ (\A u \in Threads : RefThread(u)) /\ RefThread(t)
      /\ RefNodes(c) /\ RefCounts(c) /\ DataApart(RefHeld(c))
      /\ empties + Cardinality(RefLooking) <= pops
  BY DEF RefInv
<1>2. /\ pc[t] = "take" /\ head' = head /\ next' = next
      /\ internal' = [internal EXCEPT ![ptr[t]] = internal[ptr[t]] + (old[t].count - 2)]
      /\ data' = [data EXCEPT ![ptr[t]] = Null] /\ alive' = alive /\ pops' = pops
      /\ out' = out \cup {data[ptr[t]]} /\ empties' = empties
  BY DEF RefCount!Take, RefCount!nodeVars, RefCount!locals, RefCount!history,
    RefCount!Goto, RefCount!CountIncrease, RefCount!PopperIsLast
<1>3. /\ head \in RefCount!Counted /\ head.ptr \in Nodes \cup {Null} /\ head.count \in 0..MaxCount
      /\ head = [count |-> head.count, ptr |-> head.ptr]
      /\ old[t] \in RefCount!Counted /\ old[t].count \in Nat /\ ptr[t] \in Nodes \cup {Null}
      /\ internal \in [Nodes -> Int] /\ next \in [Nodes -> RefCount!Counted]
  BY <1>1 DEF RefTypes, RefCount!Counted
<1>4. RefBecomes(t, IF internal[ptr[t]] = -(old[t].count - 2) THEN "delete" ELSE "idle", old[t], ptr[t])
  BY <1>1, <1>2, <1>3 DEF RefTypes, RefPlaces, RefBecomes, RefCount!Touching, RefCount!Take,
    RefCount!nodeVars, RefCount!locals, RefCount!history, RefCount!Goto, RefCount!Counted, RefCount!CountIncrease, RefCount!PopperIsLast
<1>5. /\ RefTouches(t) = {ptr[t]} /\ RefUses(t) = {} /\ RefOwns(t) = {ptr[t]}
      /\ RefHolds(t) = {ptr[t]} /\ RefTakes(t) = {ptr[t]}
  BY <1>1, <1>2 DEF RefThread, RefTouches, RefUses, RefOwns, RefHolds, RefTakes, RefCount!Touching
<1>6. /\ RefUses(t)' = {} /\ RefHolds(t)' = {} /\ RefTakes(t)' = {}
      /\ RefTouches(t)' = (IF internal[ptr[t]] = -(old[t].count - 2) THEN {ptr[t]} ELSE {})
      /\ RefOwns(t)' = (IF internal[ptr[t]] = -(old[t].count - 2) THEN {ptr[t]} ELSE {})
  BY <1>1, <1>2, <1>4, RefOthers DEF RefThread, RefCount!Touching
<1>7. RefTypes'
  <2>1. ptr[t] \in Nodes /\ data[ptr[t]] \in Values
    BY <1>1, <1>2, <1>5 DEF RefThread, RefCount!Touching, DataApart, RefHeld
  <2> QED BY <1>1, <1>2, <1>3, <1>4, <2>1 DEF RefTypes, RefBecomes
<1>8. \A u \in Threads : RefThread(u)'
  <2>1. RefThread(t)'
    BY <1>1, <1>2, <1>3, <1>4 DEF RefThread, RefBecomes, RefCount!Touching, RefCount!Counted
  <2> QED BY <1>1, <1>4, <2>1, RefOthers
<1>9. RefNodes(c)' /\ RefCounts(c)' /\ DataApart(RefHeld(c))'
  <2> DEFINE last == internal[ptr[t]] = -(old[t].count - 2)
  <2>90. PICK n : n = ptr[t]
    OBVIOUS
  <2> USE <2>90
  <2>1. n \in Nodes /\ n \in alive /\ n \notin Members(c)
        /\ (\A u \in Threads \ {t} : n \notin RefOwns(u))
    BY <1>1, <1>2, <1>5 DEF RefThread, RefNodes, RefCount!Touching
  <2>2. /\ RefTouches(t) = {n} /\ RefOwns(t) = {n} /\ RefHolds(t) = {n}
        /\ RefTouches(t)' \subseteq {n} /\ RefOwns(t)' = IF last THEN {n} ELSE {}
    BY <1>5, <1>6
  <2>3. /\ internal'[n] = RefUsed(n) /\ RefUsed(n) \in Nat /\ (last <=> RefUsed(n) = 0)
    <3>1. internal[n] + old[t].count - 2 = RefUsed(n)
      BY <1>1, <1>2 DEF RefCounts, RefOwes
    <3>2. internal'[n] = internal[n] + (old[t].count - 2) /\ internal[n] \in Int
      BY <1>2, <1>3, <2>1
    <3>3. RefUsed(n) \in Nat
      BY RefUsers
    <3>4. last <=> internal[n] = -(old[t].count - 2)
      OBVIOUS
    <3> HIDE DEF last
    <3> QED BY <1>3, <3>1, <3>2, <3>3, <3>4
  <2>4. data' = [data EXCEPT ![n] = Null] /\ out' = out \cup {data[n]}
        /\ \A m \in Nodes \ {n} : internal'[m] = internal[m]
    BY <1>2, <1>3
  <2>5. pc'[t] = (IF last THEN "delete" ELSE "idle") /\ ptr'[t] = n
    BY <1>4 DEF RefBecomes
  <2> HIDE <2>90
  <2> HIDE DEF last
  <2>6. \A m : RefUsed(m)' = RefUsed(m)
    BY <1>4, <1>5, <1>6, RefUsersNext
  <2>7. RefNodes(c)'
    <3>1. Below' = Below
      BY <1>2 DEF Below
    <3>3. ASSUME NEW u \in Threads
          PROVE  (RefTouches(u) \subseteq alive /\ RefOwns(u) \cap Members(c) = {})'
      BY <1>1, <1>2, <1>4, <2>1, <2>2, RefOthers DEF RefNodes
    <3>4. ASSUME NEW u \in Threads, NEW v \in Threads \ {u}
          PROVE  (RefOwns(u) \cap RefOwns(v) = {})'
      BY <1>1, <1>4, <2>1, <2>2, RefOthers DEF RefNodes
    <3> QED BY <1>1, <1>2, <3>1, <3>3, <3>4 DEF RefNodes
  <2>8. \A m \in Nodes \ {n} : RefSettles(m) /\ internal'[m] = internal[m]
    BY <1>3, <2>4, <2>6, RefUsers DEF RefSettles
  <2>9. RefCounts(c)'
    <3>1. (\A m \in Members(c) : RefLink(next[m])') /\ RefLink(head)'
      <4>1. \A m \in Members(c) : RefSettles(m) /\ next'[m] = next[m]
        BY <1>1, <1>2, <2>1, <2>8, RefListLinks
      <4> QED BY <1>1, <1>2, <1>4, <1>7, <4>1, RefLinksStay
    <3>2. ASSUME NEW u \in Threads \ {t} PROVE RefOwes(u)'
      <4>1. RefOwns(u) \subseteq Nodes \ {n}
        BY <1>1, <2>1, RefHeldAlive DEF RefTypes
      <4> QED BY <1>1, <1>4, <1>7, <2>8, <4>1, RefOwesStays DEF RefCounts
    <3>3. RefOwes(t)'
      <4>1. (RefUsed(ptr[t]))' = RefUsed(n)'
        BY <2>5 DEF RefUsed, RefCount!Users
      <4> QED BY <2>3, <2>5, <2>6, <4>1 DEF RefOwes
    <3>4. ASSUME NEW m \in alive'
          PROVE  \/ m \in Members(c)
                 \/ \E u \in Threads : m \in RefOwns(u)'
                 \/ RefLeft(m)'
      <4>1. CASE m = n /\ last
        BY <2>2, <4>1
      <4>2. CASE m = n /\ ~last
        BY <2>3, <2>6, <4>2 DEF RefLeft
      <4>3. CASE m # n /\ RefLeft(m)
        BY <1>1, <1>2, <2>6, <2>8, <4>3 DEF RefLeft, RefTypes
      <4>4. CASE m # n /\ ~RefLeft(m)
        BY <1>1, <1>2, <1>4, <2>2, <4>4, RefOthers DEF RefCounts
      <4> QED BY <4>1, <4>2, <4>3, <4>4
    <3> QED BY <3>1, <3>2, <3>3, <3>4 DEF RefCounts
  <2>10. RefHeld(c)' = RefHeld(c) \ {n} /\ n \in RefHeld(c)
    <3>1. \A u \in Threads \ {t} : n \notin RefHolds(u)
      BY <1>1, <2>1, RefHeldAlive
    <3> QED BY <1>4, <1>6, <2>1, <2>2, <3>1, RefOthers DEF RefHeld
  <2>11. \A m \in RefHeld(c) \ {n} : data'[m] = data[m]
    BY <1>1, <2>4 DEF RefTypes
  <2>12. DataApart(RefHeld(c))'
    BY <1>1, <2>4, <2>10, <2>11 DEF DataApart
  <2> QED BY <2>7, <2>9, <2>12
<1>10. (empties + Cardinality(RefLooking) <= pops)'
  <2>1. RefLooking' = RefLooking
    BY <1>2, <1>4 DEF RefLooking, RefBecomes
  <2> QED BY <1>1, <1>2, <2>1
<1>11. RefLifo(c, c)
  <2>90. PICK n : n = ptr[t]
    OBVIOUS
  <2> USE <2>90
  <2>1. n \in RefTaken /\ n \in Nodes /\ n \notin Members(c)
        /\ (\A u \in Threads \ {t} : n \notin RefOwns(u))
    BY <1>1, <1>2, <1>5 DEF RefThread, RefNodes, RefCount!Touching, RefTaken
  <2>2. data' = [data EXCEPT ![n] = Null] /\ out' = out \cup {data[n]} /\ RefTakes(t) = {n}
    BY <1>2, <1>5
  <2> HIDE <2>90
  <2>3. RefTaken' = RefTaken \ {n}
    <3>1. \A u \in Threads \ {t} : n \notin RefTakes(u)
      BY <1>1, <2>1, RefHeldAlive
    <3> QED BY <1>4, <1>6, <2>2, <3>1, RefOthers DEF RefTaken
  <2>4. \A m \in Members(c) \cup (RefTaken \ {n}) : data'[m] = data[m]
    BY <1>1, <2>1, <2>2 DEF RefTypes
  <2>5. LifoStep(Along(data, c), out \cup Elements(data, RefTaken), empties,
                 Along(data', c), (out \cup {data[n]}) \cup Elements(data', RefTaken \ {n}), empties)
    BY <2>1, <2>4, LifoTakes
  <2> QED BY <1>2, <2>2, <2>3, <2>5 DEF RefLifo
<1> QED BY <1>1, <1>2, <1>7, <1>8, <1>9, <1>10, <1>11 DEF RefInv

(* A pop gives back the node that it could not take out.                    *)
LEMMA RefRelease ==
  ASSUME NEW c, RefInv(c), NEW t \in Threads, RefCount!Release(t)
  PROVE  RefInv(c)' /\ RefLifo(c, c)
<1>1. /\ RefTypes /\ (\A u \in Threads : RefThread(u)) /\ RefThread(t)
      /\ RefNodes(c) /\ RefCounts(c) /\ DataApart(RefHeld(c))
      /\ empties + Cardinality(RefLooking) <= pops
  BY DEF RefInv
<1>2. /\ pc[t] = "release" /\ head' = head /\ next' = next
      /\ internal' = [internal EXCEPT ![ptr[t]] = internal[ptr[t]] - 1] /\ data' = data
      /\ alive' = alive /\ pops' = pops /\ out' = out /\ empties' = empties
  BY DEF RefCount!Release, RefCount!nodeVars, RefCount!locals, RefCount!history,
    RefCount!Goto, RefCount!LoserIsLast
<1>3. /\ head \in RefCount!Counted /\ head.ptr \in Nodes \cup {Null} /\ head.count \in 0..MaxCount
      /\ head = [count |-> head.count, ptr |-> head.ptr]
      /\ old[t] \in RefCount!Counted /\ old[t].count \in Nat /\ ptr[t] \in Nodes \cup {Null}
      /\ internal \in [Nodes -> Int] /\ next \in [Nodes -> RefCount!Counted]
  BY <1>1 DEF RefTypes, RefCount!Counted
<1>4. RefBecomes(t, IF internal[ptr[t]] = 1 THEN "deleteRetry" ELSE "count", old[t], ptr[t])
  BY <1>1, <1>2, <1>3 DEF RefTypes, RefPlaces, RefBecomes, RefCount!Touching, RefCount!Release,
    RefCount!nodeVars, RefCount!locals, RefCount!history, RefCount!Goto, RefCount!Counted, RefCount!LoserIsLast
<1>5. /\ RefTouches(t) = {ptr[t]} /\ RefUses(t) = {ptr[t]} /\ RefOwns(t) = {}
      /\ RefHolds(t) = {} /\ RefTakes(t) = {}
  BY <1>1, <1>2 DEF RefThread, RefTouches, RefUses, RefOwns, RefHolds, RefTakes, RefCount!Touching
<1>6. /\ RefUses(t)' = {} /\ RefHolds(t)' = {} /\ RefTakes(t)' = {}
      /\ RefTouches(t)' = (IF internal[ptr[t]] = 1 THEN {ptr[t]} ELSE {})
      /\ RefOwns(t)' = (IF internal[ptr[t]] = 1 THEN {ptr[t]} ELSE {})
  BY <1>1, <1>2, <1>4, RefOthers DEF RefThread, RefCount!Touching
<1>7. RefTypes'
  BY <1>1, <1>2, <1>3, <1>4 DEF RefTypes, RefThread, RefBecomes, RefCount!Counted, RefCount!CountedPtr,
    RefCount!Touching
<1>8. \A u \in Threads : RefThread(u)'
  <2>1. RefThread(t)'
    BY <1>1, <1>2, <1>3, <1>4 DEF RefThread, RefBecomes, RefCount!Touching, RefCount!Counted
  <2> QED BY <1>1, <1>4, <2>1, RefOthers
<1>9. RefNodes(c)' /\ RefCounts(c)' /\ DataApart(RefHeld(c))'
  <2> DEFINE last == internal[ptr[t]] = 1
  <2>90. PICK n : n = ptr[t]
    OBVIOUS
  <2> USE <2>90
  <2>1. n \in Nodes /\ n \in alive
    BY <1>1, <1>2, <1>5 DEF RefThread, RefNodes, RefCount!Touching
  <2>2. /\ RefTouches(t) = {n} /\ RefOwns(t) = {} /\ RefUses(t) = {n}
        /\ RefTouches(t)' \subseteq {n} /\ RefOwns(t)' = IF last THEN {n} ELSE {}
    BY <1>5, <1>6
  <2>3. /\ internal'[n] = internal[n] - 1 /\ internal[n] \in Int
        /\ \A m \in Nodes \ {n} : internal'[m] = internal[m]
    BY <1>2, <1>3, <2>1
  <2>4. pc'[t] = (IF last THEN "deleteRetry" ELSE "count") /\ ptr'[t] = n
    BY <1>4 DEF RefBecomes
  <2>5. last <=> internal[n] = 1
    OBVIOUS
  <2> HIDE <2>90
  <2> HIDE DEF last
  <2>6. \A m : m # n => RefUsed(m)' = RefUsed(m)
    BY <1>4, <1>6, <2>2, RefUsersNext
  <2>7. RefUsed(n)' = RefUsed(n) - 1 /\ RefUsed(n)' \in Nat /\ RefUsed(n) \in Nat /\ RefUsed(n) # 0
    BY <1>4, <1>6, <2>2, RefUsersNext, RefUsers
  <2>8. \A m \in Nodes : RefSettles(m)
    <3>1. RefSettles(n)
      BY <2>3, <2>7 DEF RefSettles
    <3>2. ASSUME NEW m \in Nodes, m # n PROVE RefSettles(m)
      BY <1>3, <2>3, <2>6, <3>2, RefUsers DEF RefSettles
    <3> QED BY <3>1, <3>2
  <2>9. ASSUME NEW u \in Threads \ {t}, n \in RefOwns(u) PROVE pc[u] = "take" /\ internal[n] <= 0
    <3>1. ptr[u] = n /\ pc[u] \in {"push", "take", "delete", "deleteRetry"} /\ RefOwes(u)
      BY <1>1, <2>9 DEF RefOwns, RefCounts
    <3> QED BY <2>7, <3>1 DEF RefOwes
  <2>10. ASSUME last
         PROVE  n \notin Members(c) /\ (\A u \in Threads : n \notin RefOwns(u)) /\ RefUsed(n) = 1
    <3>1. n \notin Members(c)
      <4>1. ASSUME n \in Members(c) PROVE internal[n] <= 0
        <5>1. CASE head.ptr = n
          BY <1>1, <2>1, <5>1 DEF RefCounts, RefLink
        <5>2. CASE head.ptr # n
          <6>1. PICK m \in Members(c) : Below[m] = n
            BY <1>1, <4>1, <5>2, LinkedFrom DEF RefNodes
          <6>2. next[m].ptr = n /\ n # Null
            BY <1>1, <2>1, <6>1, RefListLinks DEF Below
          <6> QED BY <1>1, <6>1, <6>2 DEF RefCounts, RefLink
        <5> QED BY <5>1, <5>2
      <4> QED BY <2>3, <2>5, <2>10, <4>1
    <3>2. \A u \in Threads : n \notin RefOwns(u)
      <4>1. \A u \in Threads \ {t} : n \in RefOwns(u) => internal[n] <= 0
        BY <2>9
      <4>2. ~(internal[n] <= 0)
        BY <2>5, <2>10
      <4> QED BY <2>2, <4>1, <4>2
    <3>3. RefLeft(n)
      BY <1>1, <2>1, <3>1, <3>2 DEF RefCounts
    <3> QED BY <2>5, <2>10, <3>1, <3>2, <3>3 DEF RefLeft
  <2>11. RefNodes(c)'
    <3>1. Below' = Below
      BY <1>2 DEF Below
    <3>3. ASSUME NEW u \in Threads
          PROVE  (RefTouches(u) \subseteq alive /\ RefOwns(u) \cap Members(c) = {})'
      BY <1>1, <1>2, <1>4, <2>1, <2>2, <2>10, RefOthers DEF RefNodes
    <3>4. ASSUME NEW u \in Threads, NEW v \in Threads \ {u}
          PROVE  (RefOwns(u) \cap RefOwns(v) = {})'
      BY <1>1, <1>4, <2>2, <2>10, RefOthers DEF RefNodes
    <3> QED BY <1>1, <1>2, <3>1, <3>3, <3>4 DEF RefNodes
  <2>12. RefCounts(c)'
    <3>1. (\A m \in Members(c) : RefLink(next[m])') /\ RefLink(head)'
      <4>1. \A m \in Members(c) : RefSettles(m) /\ next'[m] = next[m]
        BY <1>1, <1>2, <2>8, RefListLinks
      <4> QED BY <1>1, <1>2, <1>4, <1>7, <4>1, RefLinksStay
    <3>2. ASSUME NEW u \in Threads \ {t} PROVE RefOwes(u)'
      <4>1. RefOwns(u) \subseteq Nodes
        BY <1>1, RefHeldAlive DEF RefTypes
      <4>2. \A m \in RefOwns(u) : RefSettles(m) /\ (pc[u] # "take" => internal'[m] = internal[m])
        BY <2>3, <2>8, <2>9, <4>1
      <4> QED BY <1>1, <1>4, <1>7, <4>2, RefOwesStays DEF RefCounts
    <3>3. RefOwes(t)'
      <4>1. (RefUsed(ptr[t]))' = RefUsed(n)'
        BY <2>4 DEF RefUsed, RefCount!Users
      <4>2. last => internal'[n] = 0 /\ RefUsed(n)' = 0
        BY <2>3, <2>5, <2>7, <2>10
      <4> QED BY <2>4, <4>1, <4>2 DEF RefOwes
    <3>4. ASSUME NEW m \in alive'
          PROVE  \/ m \in Members(c)
                 \/ \E u \in Threads : m \in RefOwns(u)'
                 \/ RefLeft(m)'
      <4>1. CASE m = n /\ last
        BY <2>2, <4>1
      <4>2. CASE m = n /\ ~last /\ RefLeft(m)
        <5>1. internal[n] = RefUsed(n) /\ internal[n] > 0 /\ internal[n] # 1
          BY <2>5, <4>2 DEF RefLeft
        <5>2. internal'[n] = RefUsed(n)' /\ internal'[n] > 0
          BY <2>3, <2>7, <5>1
        <5> QED BY <4>2, <5>2 DEF RefLeft
      <4>3. CASE m # n /\ RefLeft(m)
        BY <1>1, <1>2, <2>3, <2>6, <4>3 DEF RefLeft, RefTypes
      <4>4. CASE ~RefLeft(m)
        BY <1>1, <1>2, <1>4, <2>2, <4>4, RefOthers DEF RefCounts
      <4> QED BY <4>1, <4>2, <4>3, <4>4
    <3> QED BY <3>1, <3>2, <3>3, <3>4 DEF RefCounts
  <2>13. RefHeld(c)' = RefHeld(c)
    BY <1>4, <1>5, <1>6, RefOthers DEF RefHeld
  <2> QED BY <1>1, <1>2, <2>11, <2>12, <2>13 DEF DataApart
<1>10. (empties + Cardinality(RefLooking) <= pops)'
  <2>1. RefLooking' = RefLooking
    BY <1>2, <1>4 DEF RefLooking, RefBecomes
  <2> QED BY <1>1, <1>2, <2>1
<1>11. RefLifo(c, c)
  <2>1. RefTaken' = RefTaken
    BY <1>4, <1>5, <1>6, RefOthers DEF RefTaken
  <2>2. \A m \in Members(c) \cup RefTaken : data'[m] = data[m]
    BY <1>1, <1>2, RefHeldAlive DEF RefTypes, RefHeld
  <2>3. LifoStep(Along(data, c), out \cup Elements(data, RefTaken), empties,
                 Along(data', c), out \cup Elements(data', RefTaken), empties)
    BY <2>2, LifoKeeps
  <2> QED BY <1>2, <2>1, <2>3 DEF RefLifo
<1> QED BY <1>1, <1>2, <1>7, <1>8, <1>9, <1>10, <1>11 DEF RefInv

(* The last user of a node deletes it.                                      *)
LEMMA RefDelete ==
  ASSUME NEW c, RefInv(c), NEW t \in Threads, RefCount!Delete(t)
  PROVE  RefInv(c)' /\ RefLifo(c, c)
<1>1. /\ RefTypes /\ (\A u \in Threads : RefThread(u)) /\ RefThread(t)
      /\ RefNodes(c) /\ RefCounts(c) /\ DataApart(RefHeld(c))
      /\ empties + Cardinality(RefLooking) <= pops
  BY DEF RefInv
<1>2. /\ pc[t] \in {"delete", "deleteRetry"} /\ head' = head /\ next' = next
      /\ internal' = internal /\ data' = data /\ alive' = alive \ {ptr[t]} /\ pops' = pops
      /\ out' = out /\ empties' = empties
  BY DEF RefCount!Delete, RefCount!nodeVars, RefCount!locals, RefCount!history,
    RefCount!Goto
<1>3. /\ head \in RefCount!Counted /\ head.ptr \in Nodes \cup {Null} /\ head.count \in 0..MaxCount
      /\ head = [count |-> head.count, ptr |-> head.ptr]
      /\ old[t] \in RefCount!Counted /\ old[t].count \in Nat /\ ptr[t] \in Nodes \cup {Null}
      /\ internal \in [Nodes -> Int] /\ next \in [Nodes -> RefCount!Counted]
  BY <1>1 DEF RefTypes, RefCount!Counted
<1>4. RefBecomes(t, IF pc[t] = "delete" THEN "idle" ELSE "count", old[t], ptr[t])
  BY <1>1, <1>2, <1>3 DEF RefTypes, RefPlaces, RefBecomes, RefCount!Touching, RefCount!Delete,
    RefCount!nodeVars, RefCount!locals, RefCount!history, RefCount!Goto, RefCount!Counted
<1>5. /\ RefTouches(t) = {ptr[t]} /\ RefUses(t) = {} /\ RefOwns(t) = {ptr[t]}
      /\ RefHolds(t) = {} /\ RefTakes(t) = {}
  BY <1>1, <1>2 DEF RefThread, RefTouches, RefUses, RefOwns, RefHolds, RefTakes, RefCount!Touching
<1>6. /\ RefTouches(t)' = {} /\ RefUses(t)' = {} /\ RefOwns(t)' = {} /\ RefHolds(t)' = {}
      /\ RefTakes(t)' = {}
  BY <1>1, <1>2, <1>4, RefOthers DEF RefThread, RefCount!Touching
<1>7. RefTypes'
  BY <1>1, <1>2, <1>3, <1>4 DEF RefTypes, RefThread, RefBecomes, RefCount!Counted, RefCount!CountedPtr,
    RefCount!Touching
<1>8. \A u \in Threads : RefThread(u)'
  <2>1. RefThread(t)'
    BY <1>1, <1>2, <1>3, <1>4 DEF RefThread, RefBecomes, RefCount!Touching, RefCount!Counted
  <2> QED BY <1>1, <1>4, <2>1, RefOthers
<1>9. RefNodes(c)' /\ RefCounts(c)' /\ DataApart(RefHeld(c))'
  <2>90. PICK n : n = ptr[t]
    OBVIOUS
  <2> USE <2>90
  <2>1. /\ n \in Nodes /\ n \notin Members(c) /\ RefUsed(n) = 0 /\ alive' = alive \ {n}
        /\ RefOwns(t) = {n}
    BY <1>1, <1>2, <1>5 DEF RefThread, RefNodes, RefCount!Touching, RefCounts, RefOwes
  <2> HIDE <2>90
  <2>2. \A u \in Threads \ {t} : n \notin RefOwns(u) /\ n \notin RefUses(u) /\ n \notin RefTouches(u)
    <3>1. \A u \in Threads : n \notin RefUses(u)
      BY <2>1, RefUsers
    <3>2. \A u \in Threads \ {t} : n \notin RefOwns(u)
      BY <1>1, <2>1 DEF RefNodes
    <3>3. \A u \in Threads : RefTouches(u) \subseteq RefOwns(u) \cup RefUses(u)
      BY DEF RefTouches, RefOwns, RefUses, RefCount!Touching
    <3> QED BY <3>1, <3>2, <3>3
  <2>3. \A m : RefUsed(m)' = RefUsed(m)
    BY <1>4, <1>5, <1>6, RefUsersNext
  <2>4. RefNodes(c)'
    <3>1. Below' = Below
      BY <1>2 DEF Below
    <3>3. ASSUME NEW u \in Threads
          PROVE  (RefTouches(u) \subseteq alive /\ RefOwns(u) \cap Members(c) = {})'
      BY <1>1, <1>4, <1>6, <2>1, <2>2, RefOthers DEF RefNodes
    <3>4. ASSUME NEW u \in Threads, NEW v \in Threads \ {u}
          PROVE  (RefOwns(u) \cap RefOwns(v) = {})'
      BY <1>1, <1>4, <1>6, RefOthers DEF RefNodes
    <3> QED BY <1>1, <1>2, <2>1, <3>1, <3>3, <3>4 DEF RefNodes
  <2>5. \A m \in Nodes : RefSettles(m)
    BY <1>2, <1>3, <2>3, RefUsers DEF RefSettles
  <2>6. RefCounts(c)'
    <3>1. (\A m \in Members(c) : RefLink(next[m])') /\ RefLink(head)'
      <4>1. \A m \in Members(c) : RefSettles(m) /\ next'[m] = next[m]
        BY <1>1, <1>2, <2>5, RefListLinks
      <4> QED BY <1>1, <1>2, <1>4, <1>7, <4>1, RefLinksStay
    <3>2. ASSUME NEW u \in Threads \ {t} PROVE RefOwes(u)'
      <4>1. RefOwns(u) \subseteq Nodes
        BY <1>1, RefHeldAlive DEF RefTypes
      <4> QED BY <1>1, <1>2, <1>4, <1>7, <2>5, <4>1, RefOwesStays DEF RefCounts
    <3>3. RefOwes(t)'
      BY <1>4 DEF RefOwes, RefBecomes
    <3>4. ASSUME NEW m \in alive'
          PROVE  \/ m \in Members(c)
                 \/ \E u \in Threads : m \in RefOwns(u)'
                 \/ RefLeft(m)'
      <4>1. CASE RefLeft(m)
        BY <1>2, <2>3, <4>1 DEF RefLeft
      <4>2. CASE ~RefLeft(m)
        BY <1>1, <1>4, <2>1, <4>2, RefOthers DEF RefCounts
      <4> QED BY <4>1, <4>2
    <3> QED BY <3>1, <3>2, <3>3, <3>4 DEF RefCounts
  <2>7. RefHeld(c)' = RefHeld(c)
    BY <1>4, <1>5, <1>6, RefOthers DEF RefHeld
  <2> QED BY <1>1, <1>2, <2>4, <2>6, <2>7 DEF DataApart
<1>10. (empties + Cardinality(RefLooking) <= pops)'
  <2>1. RefLooking' = RefLooking
    BY <1>2, <1>4 DEF RefLooking, RefBecomes
  <2> QED BY <1>1, <1>2, <2>1
<1>11. RefLifo(c, c)
  <2>1. RefTaken' = RefTaken
    BY <1>4, <1>5, <1>6, RefOthers DEF RefTaken
  <2>2. \A m \in Members(c) \cup RefTaken : data'[m] = data[m]
    BY <1>1, <1>2, RefHeldAlive DEF RefTypes, RefHeld
  <2>3. LifoStep(Along(data, c), out \cup Elements(data, RefTaken), empties,
                 Along(data', c), out \cup Elements(data', RefTaken), empties)
    BY <2>2, LifoKeeps
  <2> QED BY <1>2, <2>1, <2>3 DEF RefLifo
<1> QED BY <1>1, <1>2, <1>7, <1>8, <1>9, <1>10, <1>11 DEF RefInv

(* The links with their counts from h on, as RefCountStack defines them.    *)
CountedFrom(h, nx, K) ==
  CHOOSE q : q = [k \in 0..K |-> IF k = 0 THEN h
                              ELSE IF q[k - 1].ptr = Null THEN q[k - 1] ELSE nx[q[k - 1].ptr]]

CountedFollows(h, nx, K, p) ==
  /\ p \in [0..K -> RefCount!Counted] /\ p[0] = h
  /\ \A k \in 1..K : p[k] = IF p[k - 1].ptr = Null THEN p[k - 1] ELSE nx[p[k - 1].ptr]

(* They follow the links.                                                   *)
LEMMA CountedUnfolds ==
  ASSUME NEW nx \in [Nodes -> RefCount!Counted], NEW h \in RefCount!Counted, NEW K \in Nat,
         NEW p, p = CountedFrom(h, nx, K)
  PROVE  CountedFollows(h, nx, K, p)
<1> DEFINE D == RefCount!Counted
           st == [m \in D |-> IF m.ptr = Null THEN m ELSE nx[m.ptr]]
           Is(q) == q = [k \in 0..K |-> IF k = 0 THEN h
                              ELSE IF q[k - 1].ptr = Null THEN q[k - 1] ELSE nx[q[k - 1].ptr]]
<1>1. st \in [D -> D]
  <2> SUFFICES ASSUME NEW m \in D PROVE (IF m.ptr = Null THEN m ELSE nx[m.ptr]) \in D
    OBVIOUS
  <2>1. m.ptr \in Nodes \cup {Null}
    BY DEF RefCount!Counted
  <2> QED BY <2>1
<1>2. PICK q \in [0..K -> D] : q[0] = h /\ \A k \in 1..K : q[k] = st[q[k - 1]]
  <2>1. h \in D
    OBVIOUS
  <2> HIDE DEF D, st, Is
  <2>2. \E q : Repeats(D, st, h, K, q)
    BY <1>1, <2>1, Iterates
  <2> QED BY <2>2 DEF Repeats
<1>3. Is(q)
  <2>1. \A k \in 0..K : q[k] = IF k = 0 THEN h
                              ELSE IF q[k - 1].ptr = Null THEN q[k - 1] ELSE nx[q[k - 1].ptr]
    <3> SUFFICES ASSUME NEW k \in 0..K, k # 0
                 PROVE  q[k] = IF q[k - 1].ptr = Null THEN q[k - 1] ELSE nx[q[k - 1].ptr]
      BY <1>2
    <3>1. k \in 1..K /\ k - 1 \in 0..K
      OBVIOUS
    <3>2. q[k - 1] \in D /\ q[k] = st[q[k - 1]]
      BY <1>2, <3>1
    <3> QED BY <3>2
  <2> HIDE DEF D
  <2>2. q = [k \in 0..K |-> q[k]]
    BY <1>2
  <2>3. Is([k \in 0..K |-> q[k]])
    BY <2>1, <2>2
  <2> QED BY <2>2, <2>3
<1>4. p = CHOOSE r : Is(r)
  BY DEF CountedFrom
<1>5. Is(p)
  <2> HIDE DEF Is
  <2> QED BY <1>3, <1>4
<1>6. \A k \in 0..K : p[k] = q[k]
  <2>1. p = [k \in 0..K |-> IF k = 0 THEN h
                              ELSE IF p[k - 1].ptr = Null THEN p[k - 1] ELSE nx[p[k - 1].ptr]]
    BY <1>5
  <2>2. p[0] = h
    BY <2>1
  <2>3. \A k \in 1..K : p[k] = IF p[k - 1].ptr = Null THEN p[k - 1] ELSE nx[p[k - 1].ptr]
    <3> SUFFICES ASSUME NEW k \in 1..K
                 PROVE  p[k] = IF p[k - 1].ptr = Null THEN p[k - 1] ELSE nx[p[k - 1].ptr]
      OBVIOUS
    <3>1. k \in 0..K /\ k # 0
      OBVIOUS
    <3> QED BY <2>1, <3>1
  <2> DEFINE Bad == { k \in 0..K : p[k] # q[k] }
  <2> SUFFICES ASSUME Bad # {} PROVE FALSE
    OBVIOUS
  <2>4. Bad \in SUBSET Nat
    OBVIOUS
  <2>5. PICK k \in Bad : \A j \in Bad : k <= j
    <3> HIDE DEF Bad
    <3> QED BY <2>4, LeastExists
  <2>6. k # 0
    BY <1>2, <2>2
  <2>7. k \in 1..K /\ k - 1 \in 0..K /\ k - 1 \notin Bad
    BY <2>5, <2>6
  <2>8. p[k - 1] = q[k - 1] /\ q[k - 1] \in D /\ q[k] = st[q[k - 1]]
    BY <1>2, <2>7
  <2> QED BY <2>3, <2>7, <2>8
<1>7. p \in [0..K -> D]
  <2>1. p = [k \in 0..K |-> IF k = 0 THEN h
                              ELSE IF p[k - 1].ptr = Null THEN p[k - 1] ELSE nx[p[k - 1].ptr]]
    BY <1>5
  <2>2. DOMAIN p = 0..K /\ p = [k \in 0..K |-> p[k]]
    BY <2>1
  <2>3. p = [k \in 0..K |-> q[k]]
    BY <1>6, <2>2
  <2> QED BY <1>2, <2>3
<1>8. \A k \in 1..K : p[k] = IF p[k - 1].ptr = Null THEN p[k - 1] ELSE nx[p[k - 1].ptr]
  <2> SUFFICES ASSUME NEW k \in 1..K
               PROVE  p[k] = IF p[k - 1].ptr = Null THEN p[k - 1] ELSE nx[p[k - 1].ptr]
    OBVIOUS
  <2>1. k \in 0..K /\ k - 1 \in 0..K /\ q[k - 1] \in D /\ q[k] = st[q[k - 1]]
    BY <1>2
  <2> QED BY <1>6, <2>1
<1>9. p[0] = h
  BY <1>2, <1>6
<1> HIDE DEF D, st, Is
<1> QED BY <1>7, <1>8, <1>9 DEF CountedFollows, D

(* What it comes past is the list c.                                        *)
CountsWhole(h, nx, c, p) ==
  /\ { p[k].ptr : k \in 0..Cardinality(Nodes) } \ {Null} = Members(c)
  /\ Cardinality({ j \in 0..Cardinality(Nodes) : p[j].ptr # Null }) = Len(c)
  /\ \A k \in 1..Len(c) : p[k - 1].ptr = c[k]
  /\ \A k \in 0..Cardinality(Nodes) :
       p[k].ptr = Null \/ p[k] = h \/ \E m \in Members(c) : p[k] = nx[m]

(* Who follows the links of a list passes all of it.                        *)
LEMMA CountedWhole ==
  ASSUME NEW nx \in [Nodes -> RefCount!Counted], NEW h \in RefCount!Counted, NEW bl,
         bl = [n \in Nodes |-> nx[n].ptr], NEW c, ListFrom(Nodes, Null, h.ptr, bl, c),
         NEW p, p = CountedFrom(h, nx, Cardinality(Nodes))
  PROVE  CountsWhole(h, nx, c, p)
<1> DEFINE K == Cardinality(Nodes)
           q == [k \in 0..K |-> p[k].ptr]
<1>1. K \in Nat /\ p = CountedFrom(h, nx, K)
  BY FS_CardinalityType
<1> HIDE DEF K, q
<1>2. /\ p \in [0..K -> RefCount!Counted] /\ p[0] = h
      /\ \A k \in 1..K : p[k] = IF p[k - 1].ptr = Null THEN p[k - 1] ELSE nx[p[k - 1].ptr]
  <2>1. CountedFollows(h, nx, K, p)
    BY <1>1, CountedUnfolds
  <2> QED BY <2>1 DEF CountedFollows
<1> USE DEF q
<1>3. \A k \in 0..K : q[k] = p[k].ptr /\ p[k].ptr \in Nodes \cup {Null}
  BY <1>2 DEF RefCount!Counted
<1>4. Follows(Null, h.ptr, bl, K, q)
  <2>1. q[0] = h.ptr
    BY <1>1, <1>2, <1>3
  <2>2. ASSUME NEW k \in 1..K PROVE q[k] = IF q[k - 1] = Null THEN Null ELSE bl[q[k - 1]]
    <3>1. k \in 0..K /\ k - 1 \in 0..K
      BY <1>1
    <3> QED BY <1>2, <1>3, <3>1
  <2> HIDE DEF q
  <2> QED BY <2>1, <2>2 DEF Follows
<1> HIDE DEF q
<1>5. Passes(Null, c, K, q)
  BY <1>1, <1>4, ListPath
<1>6. Whole(c, q)
  BY <1>5, WholeList DEF K
<1>7. { p[k].ptr : k \in 0..K } \ {Null} = Members(c)
  <2>1. { p[k].ptr : k \in 0..K } = { q[k] : k \in 0..K }
    BY <1>3
  <2>2. { q[k] : k \in 0..K } \ {Null} = Members(c)
    BY <1>6 DEF Whole, K
  <2> QED BY <2>1, <2>2
<1>8. Cardinality({ j \in 0..K : p[j].ptr # Null }) = Len(c)
  <2>1. { j \in 0..K : p[j].ptr # Null } = { j \in 0..K : q[j] # Null }
    BY <1>3
  <2>2. Cardinality({ j \in 0..K : q[j] # Null }) = Len(c)
    BY <1>6 DEF Whole, K
  <2> QED BY <2>1, <2>2
<1>9. ASSUME NEW k \in 1..Len(c) PROVE p[k - 1].ptr = c[k]
  <2>1. Len(c) \in 0..K /\ q[k - 1] = c[k]
    BY <1>6 DEF Whole, K
  <2>2. k - 1 \in 0..K
    BY <1>1, <2>1
  <2> QED BY <1>3, <2>1, <2>2
<1>10. ASSUME NEW k \in 0..K
       PROVE  p[k].ptr = Null \/ p[k] = h \/ \E m \in Members(c) : p[k] = nx[m]
  <2>1. CASE k = 0
    BY <1>2, <2>1
  <2>2. CASE k # 0
    <3>1. k \in 1..K /\ k - 1 \in 0..K
      BY <1>1, <2>2
    <3>2. p[k] = IF p[k - 1].ptr = Null THEN p[k - 1] ELSE nx[p[k - 1].ptr]
      BY <1>2, <3>1
    <3>3. p[k - 1].ptr # Null => p[k - 1].ptr \in Members(c)
      BY <1>7, <3>1
    <3> QED BY <3>2, <3>3
  <2> QED BY <2>1, <2>2
<1> QED BY <1>7, <1>8, <1>9, <1>10 DEF CountsWhole, K

(* The list is the one that Path follows.                                   *)
LEMMA RefPath ==
  ASSUME NEW c, RefInv(c)
  PROVE  /\ RefCount!Linked = Members(c) /\ RefCount!Chain = c
         /\ \A l \in RefCount!Links : l.ptr = Null \/ l = head \/ \E m \in Members(c) : l = next[m]
<1> DEFINE K == Cardinality(Nodes)
           p == CountedFrom(head, next, K)
<1>1. RefCount!Path = p
  BY DEF CountedFrom, RefCount!Path, RefCount!Cardinality, Cardinality,
    RefCount!IsFiniteSet, IsFiniteSet
<1> HIDE DEF p
<1>2. CountsWhole(head, next, c, p) /\ c \in Seq(Nodes)
  BY CountedWhole DEF p, RefInv, RefNodes, RefTypes, Below, ListFrom
<1> HIDE DEF K
<1>3. RefCount!Links = { p[k] : k \in 0..K }
  BY <1>1 DEF K, RefCount!Links, RefCount!Cardinality, Cardinality, RefCount!IsFiniteSet, IsFiniteSet
<1>4. RefCount!Linked = Members(c)
  <2>1. { p[k].ptr : k \in 0..K } \ {Null} = Members(c)
    BY <1>2 DEF K, CountsWhole
  <2>2. RefCount!Linked = { p[k].ptr : k \in 0..K } \ {Null}
    BY <1>3 DEF RefCount!Linked
  <2> QED BY <2>1, <2>2
<1>5. RefCount!Chain = [k \in 1..Len(c) |-> p[k - 1].ptr]
  BY <1>1, <1>2 DEF K, CountsWhole, RefCount!Chain, RefCount!Cardinality, Cardinality,
    RefCount!IsFiniteSet, IsFiniteSet
<1>6. [k \in 1..Len(c) |-> p[k - 1].ptr] = c
  <2>1. \A k \in 1..Len(c) : p[k - 1].ptr = c[k]
    BY <1>2 DEF CountsWhole
  <2>2. c = [k \in 1..Len(c) |-> c[k]]
    BY <1>2
  <2> QED BY <2>1, <2>2
<1>7. \A k \in 0..K : p[k].ptr = Null \/ p[k] = head \/ \E m \in Members(c) : p[k] = next[m]
  BY <1>2 DEF K, CountsWhole
<1> QED BY <1>3, <1>4, <1>5, <1>6, <1>7

(* And after a step.                                                        *)
LEMMA RefPathNext ==
  ASSUME NEW c, RefInv(c)'
  PROVE  RefCount!Chain' = c
<1> DEFINE K == Cardinality(Nodes)
           p == CountedFrom(head', next', K)
<1>1. RefCount!Path' = p
  BY DEF CountedFrom, RefCount!Path, RefCount!Cardinality, Cardinality,
    RefCount!IsFiniteSet, IsFiniteSet
<1> HIDE DEF p
<1>2. CountsWhole(head', next', c, p) /\ c \in Seq(Nodes)
  BY CountedWhole DEF p, RefInv, RefNodes, RefTypes, Below, ListFrom
<1> HIDE DEF K
<1>3. RefCount!Chain' = [k \in 1..Len(c) |-> p[k - 1].ptr]
  BY <1>1, <1>2 DEF K, CountsWhole, RefCount!Chain, RefCount!Cardinality, Cardinality,
    RefCount!IsFiniteSet, IsFiniteSet
<1>4. [k \in 1..Len(c) |-> p[k - 1].ptr] = c
  <2>1. \A k \in 1..Len(c) : p[k - 1].ptr = c[k]
    BY <1>2 DEF CountsWhole
  <2>2. c = [k \in 1..Len(c) |-> c[k]]
    BY <1>2
  <2> QED BY <2>1, <2>2
<1> QED BY <1>3, <1>4

(* What the invariant says of the properties of RefCountStack.              *)
LEMMA RefMeans ==
  ASSUME NEW c, RefInv(c)
  PROVE  /\ RefCount!TypeOK /\ RefCount!NoUseAfterDelete /\ RefCount!NoLeak
         /\ RefCount!CountsAddUp
<1>1. /\ RefTypes /\ (\A t \in Threads : RefThread(t)) /\ RefNodes(c) /\ RefCounts(c)
      /\ empties + Cardinality(RefLooking) <= pops
  BY DEF RefInv
<1>2. /\ RefCount!Linked = Members(c)
      /\ \A l \in RefCount!Links : l.ptr = Null \/ l = head \/ \E m \in Members(c) : l = next[m]
  BY RefPath
<1>3. RefCount!TypeOK
  <2>1. empties \in 0..MaxPops
    <3>1. empties \in Nat /\ pops \in 0..MaxPops /\ MaxPops \in Nat
      BY <1>1 DEF RefTypes
    <3>2. RefLooking \in SUBSET Threads
      BY DEF RefLooking
    <3>3. Cardinality(RefLooking) \in Nat
      BY <3>2, FS_Subset, FS_CardinalityType
    <3> QED BY <1>1, <3>1, <3>3
  <2> QED BY <1>1, <2>1 DEF RefTypes, RefPlaces, RefThread, RefCount!TypeOK
<1>4. RefCount!NoUseAfterDelete
  BY <1>1, <1>2 DEF RefNodes, RefTouches, RefCount!NoUseAfterDelete
<1>5. RefCount!NoLeak
  <2> SUFFICES ASSUME \A t \in Threads : pc[t] = "idle" PROVE alive = Members(c)
    BY <1>2 DEF RefCount!NoLeak
  <2>1. \A t \in Threads : RefOwns(t) = {} /\ RefUses(t) = {}
    BY DEF RefOwns, RefUses
  <2>2. \A n \in alive : ~RefLeft(n)
    BY <2>1, RefUsers DEF RefLeft
  <2> QED BY <1>1, <2>1, <2>2 DEF RefNodes, RefCounts
<1>6. RefCount!CountsAddUp
  <2>1. ASSUME NEW l \in RefCount!Links, l.ptr # Null
        PROVE  l.count - 1 + internal[l.ptr] = Cardinality(RefCount!Users(l.ptr))
    BY <1>1, <1>2, <2>1 DEF RefCounts, RefLink, RefUsed
  <2>2. ASSUME NEW t \in Threads, pc[t] = "take"
        PROVE  internal[ptr[t]] + old[t].count - 2 = Cardinality(RefCount!Users(ptr[t]))
    BY <1>1, <2>2 DEF RefCounts, RefOwes, RefUsed
  <2>3. ASSUME NEW n \in alive, n \notin Members(c),
               \A t \in Threads : ptr[t] = n => pc[t] \notin {"push", "take"}
        PROVE  internal[n] = Cardinality(RefCount!Users(n))
    <3>1. CASE RefLeft(n)
      BY <3>1 DEF RefLeft, RefUsed
    <3>2. CASE ~RefLeft(n)
      <4>1. PICK t \in Threads : n \in RefOwns(t)
        BY <1>1, <2>3, <3>2 DEF RefCounts
      <4>2. ptr[t] = n /\ pc[t] \in {"delete", "deleteRetry"}
        BY <2>3, <4>1 DEF RefOwns
      <4>3. internal[n] = 0 /\ RefUsed(n) = 0
        BY <1>1, <4>2 DEF RefCounts, RefOwes
      <4> QED BY <4>3 DEF RefUsed
    <3> QED BY <3>1, <3>2
  <2> QED BY <1>2, <2>1, <2>2, <2>3 DEF RefCount!CountsAddUp, RefCount!Cardinality, Cardinality,
      RefCount!IsFiniteSet, IsFiniteSet
<1> QED BY <1>3, <1>4, <1>5, <1>6

(* The stack is empty, and no thread has anything.                          *)
LEMMA RefInit ==
  ASSUME RefCount!Init
  PROVE  RefInv(<< >>) /\ RefCount!Lifo!Init
<1>1. /\ head = [count |-> 0, ptr |-> Null] /\ alive = {} /\ empties = 0 /\ pops = 0 /\ out = {}
      /\ \A t \in Threads : pc[t] = "idle"
  BY DEF RefCount!Init, RefCount!CountedPtr
<1>2. RefTypes
  <2>1. [count |-> 0, ptr |-> Null] \in RefCount!Counted
    BY DEF RefCount!Counted
  <2> QED BY <2>1 DEF RefCount!Init, RefCount!CountedPtr, RefTypes, RefPlaces
<1>3. \A t \in Threads : RefThread(t)
  BY <1>1 DEF RefThread, RefCount!Touching
<1>4. ListFrom(Nodes, Null, Null, Below, << >>) /\ Members(<< >>) = {}
  BY ListEmpty
<1>5. \A t \in Threads : /\ RefTouches(t) = {} /\ RefOwns(t) = {} /\ RefHolds(t) = {}
                         /\ RefTakes(t) = {} /\ RefOwes(t)
  BY <1>1 DEF RefTouches, RefOwns, RefHolds, RefTakes, RefOwes, RefCount!Touching
<1>6. RefNodes(<< >>)
  BY <1>1, <1>4, <1>5 DEF RefNodes
<1>7. RefCounts(<< >>)
  BY <1>1, <1>4, <1>5 DEF RefCounts, RefLink
<1>8. RefHeld(<< >>) = {}
  BY <1>4, <1>5 DEF RefHeld
<1>9. DataApart(RefHeld(<< >>))
  BY <1>8 DEF DataApart
<1>10. empties + Cardinality(RefLooking) <= pops
  <2>1. RefLooking = {}
    BY <1>1 DEF RefLooking
  <2> QED BY <1>1, <2>1, FS_EmptySet
<1>11. RefInv(<< >>)
  BY <1>2, <1>3, <1>6, <1>7, <1>9, <1>10 DEF RefInv
<1>12. [i \in 1..Len(RefCount!Chain) |-> data[RefCount!Chain[i]]] = << >>
  <2>1. RefCount!Chain = << >>
    BY <1>11, RefPath
  <2>2. Along(data, << >>) = << >>
    BY AlongEmpty
  <2> QED BY <2>1, <2>2 DEF Along
<1>13. RefCount!Popped = {}
  BY <1>1 DEF RefCount!Popped
<1> QED BY <1>1, <1>11, <1>12, <1>13 DEF RefCount!Lifo!Init

(* Every step of RefCountStack.                                             *)
LEMMA RefStep ==
  ASSUME NEW c, RefInv(c), RefCount!Next
  PROVE  \E d : RefInv(d)' /\ RefLifo(c, d)
<1>1. PICK t \in Threads :
        \/ \E x \in Values, n \in Nodes : RefCount!Push(t, x, n)
        \/ RefCount!PushLink(t) \/ RefCount!PushRetry(t)
        \/ RefCount!Pop(t) \/ RefCount!CountRetry(t) \/ RefCount!Count(t) \/ RefCount!CountEmpty(t)
        \/ RefCount!Swing(t) \/ RefCount!SwingFail(t) \/ RefCount!Take(t) \/ RefCount!Release(t)
        \/ RefCount!Delete(t)
  BY DEF RefCount!Next
<1>2. CASE \E x \in Values, n \in Nodes : RefCount!Push(t, x, n)
  BY <1>2, RefPush
<1>3. CASE RefCount!PushLink(t)
  BY <1>3, RefPushLink
<1>4. CASE RefCount!PushRetry(t) \/ RefCount!Pop(t) \/ RefCount!CountRetry(t)
  BY <1>4, RefPushRetry, RefPop, RefCountRetry
<1>5. CASE RefCount!Count(t) \/ RefCount!CountEmpty(t)
  BY <1>5, RefCountHead, RefCountEmpty
<1>6. CASE RefCount!Swing(t)
  BY <1>6, RefSwing
<1>7. CASE RefCount!SwingFail(t) \/ RefCount!Take(t) \/ RefCount!Release(t) \/ RefCount!Delete(t)
  BY <1>7, RefSwingFail, RefTake, RefRelease, RefDelete
<1> QED BY <1>1, <1>2, <1>3, <1>4, <1>5, <1>6, <1>7

(* It is one of LifoStack, or none.                                         *)
LEMMA RefImplements ==
  ASSUME NEW c, RefInv(c), NEW d, RefInv(d)', RefLifo(c, d)
  PROVE  [RefCount!Lifo!Next]_(RefCount!Lifo!stackVars)
<1>1. RefCount!Chain = c /\ RefCount!Chain' = d
  BY RefPath, RefPathNext
<1>2. PICK s, o, s2, o2 :
        /\ s = [k \in 1..Len(RefCount!Chain) |-> data[RefCount!Chain[k]]]
        /\ s2 = [k \in 1..Len(RefCount!Chain) |-> data[RefCount!Chain[k]]]'
        /\ o = out \cup RefCount!Popped /\ o2 = (out \cup RefCount!Popped)'
  OBVIOUS
<1>3. s = Along(data, c) /\ s2 = Along(data', d)
  BY <1>1, <1>2 DEF Along
<1>4. /\ RefCount!Popped = Elements(data, RefTaken)
      /\ RefCount!Popped' = Elements(data', RefTaken')
  <2>1. RefCount!Popped = Elements(data, RefTaken)
    BY DEF RefCount!Popped, Elements, RefTaken, RefTakes
  <2>2. RefCount!Popped' = Elements(data', RefTaken')
    BY DEF RefCount!Popped, Elements, RefTaken, RefTakes
  <2> QED BY <2>1, <2>2
<1>5. LifoStep(s, o, empties, s2, o2, empties')
  BY <1>2, <1>3, <1>4 DEF RefLifo
<1>6. CASE s2 = s /\ o2 = o /\ empties' = empties
  BY <1>2, <1>6 DEF RefCount!Lifo!stackVars
<1>7. CASE \E x \in Values : /\ x \notin { s[i] : i \in 1..Len(s) } \cup o
                           /\ s2 = << x >> \o s /\ o2 = o /\ empties' = empties
  <2>1. PICK x \in Values : /\ x \notin { s[i] : i \in 1..Len(s) } \cup o
                           /\ s2 = << x >> \o s /\ o2 = o /\ empties' = empties
    BY <1>7
  <2>2. RefCount!Lifo!Contents = { s[i] : i \in 1..Len(s) }
    BY <1>2 DEF RefCount!Lifo!Contents
  <2>3. RefCount!Lifo!Push(x)
    BY <1>2, <2>1, <2>2 DEF RefCount!Lifo!Push
  <2> QED BY <2>3 DEF RefCount!Lifo!Next
<1>8. CASE s # << >> /\ s2 = Tail(s) /\ o2 = o \cup {Head(s)} /\ empties' = empties
  BY <1>2, <1>8 DEF RefCount!Lifo!Next, RefCount!Lifo!Pop
<1>9. CASE s = << >> /\ empties' = empties + 1 /\ s2 = s /\ o2 = o
  BY <1>2, <1>9 DEF RefCount!Lifo!Next, RefCount!Lifo!PopEmpty
<1> QED BY <1>5, <1>6, <1>7, <1>8, <1>9 DEF LifoStep

=============================================================================
