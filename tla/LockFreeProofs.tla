--------------------------- MODULE LockFreeProofs ---------------------------
(***************************************************************************)
(* Proofs about the lock-free containers of MCLockFree: LockFreeQueue, and *)
(* the theorems about the four stacks and the queue.  The inductive        *)
(* invariant of the queue is about the list b of the nodes before the      *)
(* tail, about who holds each of the two external counters of a node (the  *)
(* sets A and B) and how far it has counted (va and vb), and about the     *)
(* references e that pops of nothing have not given back.                  *)
(***************************************************************************)
EXTENDS StackProofs

USE LockFreeAssumption DEF LockFreeAssumption

-----------------------------------------------------------------------------
(* LockFreeQueue. *)

QueueNodes == Nodes \cup {Dummy}

(* From the elements s, with o popped, l lost and e pops of nothing, to s2, *)
(* o2, l2 and e2: one operation of FifoQueue, or none.                      *)
FifoStep(s, o, l, e, s2, o2, l2, e2) ==
  \/ s2 = s /\ o2 = o /\ l2 = l /\ e2 = e
  \/ \E x \in Values : /\ x \notin Members(s) \cup Members(o) \cup l
                       /\ s2 = Append(s, x) /\ o2 = o /\ l2 = l /\ e2 = e
  \/ \E x \in Values : /\ x \notin Members(s) \cup Members(o) \cup l /\ o # << >>
                       /\ s2 = s /\ o2 = o /\ l2 = l \cup {x} /\ e2 = e
  \/ s # << >> /\ s2 = Tail(s) /\ o2 = Append(o, Head(s)) /\ l2 = l /\ e2 = e
  \/ s = << >> /\ e2 = e + 1 /\ s2 = s /\ o2 = o /\ l2 = l

QueuePlaces == Queue!Touching \cup {"idle", "countTail", "countHead"}

QueueLocals ==
  [pc : QueuePlaces, old : Queue!Counted, cur : QueueNodes \cup {Null}, to : Queue!Counted,
   mine : QueueNodes \cup {Null}, val : Values \cup {Null}]

QueueFields ==
  [next : Queue!Counted, internal : Int, counters : 0..2, data : Values \cup {Null}]

(* The type invariant, but for the bound of empties.                        *)
QueueTypes ==
  /\ head \in Queue!Counted /\ tail \in Queue!Counted
  /\ node \in [QueueNodes -> QueueFields]
  /\ alive \subseteq QueueNodes /\ emptyAt \subseteq QueueNodes
  /\ me \in [Threads -> QueueLocals]
  /\ pops \in 0..(MaxPops - 1) /\ empties \in Nat
  /\ lost \subseteq Values /\ out \in Seq(Values)

(* Where a thread is determines what its variables hold.                    *)
QueueLocal(t) ==
  /\ me[t].pc \in Queue!Touching \ {"release"} => me[t].old.ptr = me[t].cur
  /\ me[t].pc \in {"countTail", "data", "help"} => me[t].mine # Null /\ me[t].val # Null
  /\ me[t].pc = "link" => me[t].mine # Null
  /\ me[t].pc \in {"setTail", "free", "release"} /\ me[t].mine # Null => me[t].val # Null
  /\ me[t].pc \in {"idle", "countHead", "look", "setHead", "take"} =>
       me[t].to = Queue!None /\ me[t].mine = Null
  /\ me[t].pc \in {"free", "release"} /\ me[t].to = Queue!None => me[t].mine = Null
  /\ me[t].pc = "setTail" => me[t].to # Queue!None

(* The links without their counts, and the elements.                        *)
QueueNext == [n \in QueueNodes |-> node[n].next.ptr]
QueueData == [n \in QueueNodes |-> node[n].data]

(* The node after the tail; the node that a push has allocated.             *)
QueueAfter == {node[tail.ptr].next.ptr} \ {Null}
QueueMine(t) == {me[t].mine} \ {Null}
QueueSpare == UNION { QueueMine(t) : t \in Threads }

(* The nodes that are linked, with the list b of those before the tail.     *)
QueueLinked(b) == Members(b) \cup {tail.ptr} \cup QueueAfter

(* The nodes that have never been the tail are as they were allocated; an   *)
(* element is stored before the next node is linked.                        *)
QueueList(b) ==
  /\ ListFrom(QueueNodes, tail.ptr, head.ptr, QueueNext, b)
  /\ tail.ptr # Null /\ tail.ptr \notin Members(b)
  /\ QueueAfter \cap (Members(b) \cup {tail.ptr}) = {}
  /\ \A n \in QueueAfter \cup QueueSpare : node[n] = Queue!NewNode
  /\ \A n \in Members(b) : node[n].data # Null
  /\ QueueAfter # {} => node[tail.ptr].data # Null

(* What is allocated: the linked nodes, those of the pushes, and nodes that *)
(* have been popped.  Of the nodes that have been the tail only the tail    *)
(* may be without a next.                                                   *)
QueueAlive(b) ==
  /\ QueueLinked(b) \subseteq alive /\ QueueSpare \subseteq alive
  /\ QueueSpare \cap QueueLinked(b) = {}
  /\ \A t \in Threads : \A u \in Threads \ {t} : QueueMine(t) \cap QueueMine(u) = {}
  /\ \A n \in alive :
       /\ node[n].next = Queue!None => n \in QueueAfter \cup QueueSpare \cup {tail.ptr}
       /\ node[n].next # Queue!None => node[n].next.count = 1 /\ node[n].next.ptr # Null
       /\ n \in QueueLinked(b) \cup QueueSpare \/ out # << >>

(* The node that a thread will still dereference.                           *)
QueueUses(t) == IF me[t].pc \in Queue!Touching THEN {me[t].cur} ELSE {}
QueueUsed(n) == Cardinality({ t \in Threads : n \in QueueUses(t) })

(* What a thread has seen of the node it uses still holds.                  *)
QueueSeen(t, b) ==
  /\ QueueUses(t) \subseteq alive
  /\ me[t].pc = "setTail" => me[t].to = node[me[t].cur].next
  /\ me[t].pc \in {"link", "help"} /\ me[t].cur \in QueueLinked(b) => node[me[t].cur].data # Null
  /\ me[t].pc \in {"look", "setHead"} => me[t].cur = head.ptr \/ me[t].cur \notin QueueLinked(b)
  /\ me[t].pc = "setHead" => me[t].cur # tail.ptr

(* The node whose external counter a thread has taken out of head, or of    *)
(* tail, and the count it has read there.                                   *)
HeadWon == [t \in Threads |-> IF \/ me[t].pc = "take"
                                 \/ me[t].pc = "free" /\ me[t].to = Queue!None
                              THEN {me[t].cur} ELSE {}]
TailWon == [t \in Threads |-> IF me[t].pc = "free" /\ me[t].to # Queue!None
                              THEN {me[t].cur} ELSE {}]
QueueRead == [t \in Threads |-> me[t].old.count]

(* One of the two external counters of each node: S are the nodes that have *)
(* it, v what it has counted.  It is in place, in the link l or in one that *)
(* will be copied to l, or with the thread that has taken the node out of l *)
(* and will pay it back.                                                    *)
QueueSide(S, v, l, place, won, read) ==
  /\ v \in [QueueNodes -> Nat]
  /\ l.ptr \in place /\ v[l.ptr] = l.count - 1
  /\ \A n \in place \ {l.ptr} : v[n] = 0
  /\ \A n \in QueueNodes \ S : v[n] = 0
  /\ S = place \cup UNION { won[t] : t \in Threads }
  /\ \A t \in Threads : /\ won[t] \cap place = {}
                        /\ \A u \in Threads \ {t} : won[t] \cap won[u] = {}
                        /\ \A n \in won[t] : v[n] = read[t] - 1

InPlace(S, n) == IF n \in S THEN 1 ELSE 0

(* The counts of a node are, together, the threads that use it and the pops *)
(* that have left it without giving their reference back.                   *)
QueueSettled(n, A, va, B, vb, e) ==
  /\ node[n].internal + va[n] + vb[n] = QueueUsed(n) + e[n]
  /\ node[n].counters = InPlace(A, n) + InPlace(B, n)
  /\ node[n].internal # 0 \/ node[n].counters # 0

QueueCounts(b, A, va, B, vb, e) ==
  /\ QueueSide(A, va, head, QueueLinked(b) \cup QueueSpare, HeadWon, QueueRead)
  /\ QueueSide(B, vb, tail, {tail.ptr} \cup QueueAfter \cup QueueSpare, TailWon, QueueRead)
  /\ e \in [QueueNodes -> Nat] /\ emptyAt \subseteq alive
  /\ \A n \in QueueNodes : n \in emptyAt <=> e[n] # 0
  /\ \A n \in alive : QueueSettled(n, A, va, B, vb, e)

(* An element is in one node, or with one push, or has been popped or lost. *)
QueueApart(b) ==
  /\ \A n \in QueueLinked(b) : node[n].data # Null =>
       /\ node[n].data \notin lost \cup Members(out)
       /\ \A m \in QueueLinked(b) \ {n} : node[m].data # node[n].data
  /\ \A t \in Threads : me[t].val # Null =>
       /\ me[t].val \notin lost \cup Members(out)
       /\ \A n \in QueueNodes : node[n].data # me[t].val
       /\ \A u \in Threads \ {t} : me[u].val # me[t].val

(* The pops that may still find the queue empty.                            *)
QueueLooking ==
  { t \in Threads : \/ me[t].pc \in {"countHead", "look", "setHead"}
                    \/ me[t].pc = "release" /\ me[t].to = Queue!None }

QueueInv(b, A, va, B, vb, e) ==
  /\ QueueTypes
  /\ \A t \in Threads : QueueLocal(t) /\ QueueSeen(t, b)
  /\ QueueList(b) /\ QueueAlive(b) /\ QueueCounts(b, A, va, B, vb, e) /\ QueueApart(b)
  /\ empties + Cardinality(QueueLooking) <= pops

(* What a step from the list b to the list d does for the callers.          *)
QueueFifo(b, d) ==
  FifoStep(Along(QueueData, b), out, lost, empties, Along(QueueData', d), out', lost', empties')

(* After a step the invariant holds again, of some list and counts.         *)
QueueKeeps(b) ==
  \E d, A, va, B, vb, e : QueueInv(d, A, va, B, vb, e)' /\ QueueFifo(b, d)

-----------------------------------------------------------------------------
(* The sides. *)

(* The threads have what they had.                                          *)
SameWon(won, won2, read, read2) ==
  \A u \in Threads : won2[u] = won[u] /\ (won[u] # {} => read2[u] = read[u])

(* Nothing happens to a side.                                               *)
LEMMA SideStays ==
  ASSUME NEW S, NEW v, NEW l, NEW place, NEW won, NEW read, QueueSide(S, v, l, place, won, read),
         NEW won2, NEW read2, SameWon(won, won2, read, read2)
  PROVE  QueueSide(S, v, l, place, won2, read2)
<1>1. UNION { won2[t] : t \in Threads } = UNION { won[t] : t \in Threads }
  BY DEF SameWon
<1> QED BY <1>1 DEF QueueSide, SameWon

(* A thread counts itself in the link.                                      *)
LEMMA SideCounts ==
  ASSUME NEW S, NEW v, NEW l, NEW place, NEW won, NEW read, QueueSide(S, v, l, place, won, read),
         NEW won2, NEW read2, SameWon(won, won2, read, read2),
         NEW k, k.ptr = l.ptr, k.count = l.count + 1, l.count \in Nat, l.ptr \in QueueNodes
  PROVE  QueueSide(S, [v EXCEPT ![l.ptr] = @ + 1], k, place, won2, read2)
<1>1. UNION { won2[t] : t \in Threads } = UNION { won[t] : t \in Threads }
  BY DEF SameWon
<1>2. l.ptr \in place /\ place \subseteq S
  BY DEF QueueSide
<1>3. \A t \in Threads : l.ptr \notin won[t]
  BY <1>2 DEF QueueSide
<1> QED BY <1>1, <1>2, <1>3 DEF QueueSide, SameWon

(* A thread takes the node out of the link.                                 *)
LEMMA SideWins ==
  ASSUME NEW S, NEW v, NEW l, NEW place, NEW won, NEW read, QueueSide(S, v, l, place, won, read),
         NEW t \in Threads, won[t] = {}, NEW won2, NEW read2, won2[t] = {l.ptr},
         read2[t] = l.count,
         \A u \in Threads \ {t} : won2[u] = won[u] /\ read2[u] = read[u],
         NEW k, k.count = 1, k.ptr \in place \ {l.ptr}
  PROVE  QueueSide(S, v, k, place \ {l.ptr}, won2, read2)
<1> DEFINE W == UNION { won[u] : u \in Threads }
           W2 == UNION { won2[u] : u \in Threads }
<1>1. W2 = W \cup {l.ptr}
  <2>1. ASSUME NEW x, NEW u \in Threads
        PROVE  x \in won2[u] <=> x \in won[u] \/ (u = t /\ x = l.ptr)
    <3>1. CASE u = t
      BY <3>1
    <3>2. CASE u # t
      BY <3>2
    <3> QED BY <3>1, <3>2
  <2>2. \A x : x \in W2 <=> \E u \in Threads : x \in won2[u]
    OBVIOUS
  <2>3. \A x : x \in W <=> \E u \in Threads : x \in won[u]
    OBVIOUS
  <2> HIDE DEF W, W2
  <2>4. \A x : x \in W2 <=> x \in W \/ x = l.ptr
    BY <2>1, <2>2, <2>3
  <2> QED BY <2>4
<1>2. l.ptr \in place /\ v[l.ptr] = l.count - 1
  BY DEF QueueSide
<1>3. S = (place \ {l.ptr}) \cup UNION { won2[u] : u \in Threads }
  BY <1>1, <1>2 DEF QueueSide
<1>4. ASSUME NEW w \in Threads
      PROVE  /\ won2[w] \cap (place \ {l.ptr}) = {}
             /\ \A u \in Threads \ {w} : won2[w] \cap won2[u] = {}
             /\ \A n \in won2[w] : v[n] = read2[w] - 1
  <2>1. \A u \in Threads : l.ptr \notin won[u]
    BY <1>2 DEF QueueSide
  <2>2. CASE w = t
    BY <1>2, <2>1, <2>2
  <2>3. CASE w # t
    BY <2>1, <2>3 DEF QueueSide
  <2> QED BY <2>2, <2>3
<1> QED BY <1>2, <1>3, <1>4 DEF QueueSide

(* A thread pays back what it has taken.                                    *)
LEMMA SideGives ==
  ASSUME NEW S, NEW v, NEW l, NEW place, NEW won, NEW read, QueueSide(S, v, l, place, won, read),
         NEW t \in Threads, NEW n \in QueueNodes, won[t] = {n}, NEW won2, NEW read2, won2[t] = {},
         \A u \in Threads \ {t} : won2[u] = won[u] /\ read2[u] = read[u]
  PROVE  QueueSide(S \ {n}, [v EXCEPT ![n] = 0], l, place, won2, read2)
<1>1. n \notin place /\ \A u \in Threads \ {t} : n \notin won[u]
  BY DEF QueueSide
<1> DEFINE W == UNION { won[u] : u \in Threads }
           W2 == UNION { won2[u] : u \in Threads }
<1>2. W2 = W \ {n}
  <2>1. \A u \in Threads : won2[u] = won[u] \ {n}
    BY <1>1
  <2>2. \A x : x \in W2 <=> \E u \in Threads : x \in won2[u]
    OBVIOUS
  <2>3. \A x : x \in W <=> \E u \in Threads : x \in won[u]
    OBVIOUS
  <2> HIDE DEF W, W2
  <2>4. \A x : x \in W2 <=> x \in W /\ x # n
    BY <2>1, <2>2, <2>3
  <2> QED BY <2>4
<1>3. S \ {n} = place \cup UNION { won2[u] : u \in Threads }
  BY <1>1, <1>2 DEF QueueSide
<1>4. [v EXCEPT ![n] = 0] \in [QueueNodes -> Nat]
  BY DEF QueueSide
<1>5. \A m \in QueueNodes \ {n} : [v EXCEPT ![n] = 0][m] = v[m]
  BY DEF QueueSide
<1>6. [v EXCEPT ![n] = 0][n] = 0
  BY DEF QueueSide
<1>7. ASSUME NEW w \in Threads
      PROVE  /\ won2[w] \cap place = {}
             /\ \A u \in Threads \ {w} : won2[w] \cap won2[u] = {}
             /\ \A m \in won2[w] : [v EXCEPT ![n] = 0][m] = read2[w] - 1
  BY <1>1 DEF QueueSide
<1> HIDE DEF QueueNodes
<1>8. /\ [v EXCEPT ![n] = 0][l.ptr] = l.count - 1
      /\ \A m \in place \ {l.ptr} : [v EXCEPT ![n] = 0][m] = 0
  BY <1>1 DEF QueueSide
<1>9. \A m \in QueueNodes \ (S \ {n}) : [v EXCEPT ![n] = 0][m] = 0
  BY <1>5, <1>6 DEF QueueSide
<1>10. l.ptr \in place
  BY DEF QueueSide
<1> QED BY <1>3, <1>4, <1>7, <1>8, <1>9, <1>10 DEF QueueSide

(* A node comes to wait for its place.                                      *)
LEMMA SideGrows ==
  ASSUME NEW S, NEW v, NEW l, NEW place, NEW won, NEW read, QueueSide(S, v, l, place, won, read),
         NEW won2, NEW read2, SameWon(won, won2, read, read2),
         NEW n \in QueueNodes, n \notin S
  PROVE  QueueSide(S \cup {n}, v, l, place \cup {n}, won2, read2)
<1>1. UNION { won2[t] : t \in Threads } = UNION { won[t] : t \in Threads }
  BY DEF SameWon
<1> QED BY <1>1 DEF QueueSide, SameWon

(* A node that waits for its place is deleted.                              *)
LEMMA SideDrops ==
  ASSUME NEW S, NEW v, NEW l, NEW place, NEW won, NEW read, QueueSide(S, v, l, place, won, read),
         NEW won2, NEW read2, SameWon(won, won2, read, read2),
         NEW n \in place, n # l.ptr
  PROVE  QueueSide(S \ {n}, v, l, place \ {n}, won2, read2)
<1>1. UNION { won2[t] : t \in Threads } = UNION { won[t] : t \in Threads }
  BY DEF SameWon
<1>2. \A t \in Threads : n \notin won[t]
  BY DEF QueueSide
<1> QED BY <1>1, <1>2 DEF QueueSide, SameWon

-----------------------------------------------------------------------------
(* What the step of one thread leaves alone. *)

(* The step of thread t gives its variables these values and leaves those   *)
(* of the other threads alone.                                              *)
QueueBecomes(t, p, o, q, s, w, x) ==
  /\ me' \in [Threads -> QueueLocals]
  /\ /\ me'[t].pc = p /\ me'[t].old = o /\ me'[t].cur = q
     /\ me'[t].to = s /\ me'[t].mine = w /\ me'[t].val = x
  /\ \A u \in Threads \ {t} : me'[u] = me[u]

(* A thread's variables after a step that gives all of them new values.     *)
LEMMA QueueMoves ==
  ASSUME me \in [Threads -> QueueLocals], NEW t \in Threads, NEW r \in QueueLocals,
         me' = [me EXCEPT ![t] = r]
  PROVE  QueueBecomes(t, r.pc, r.old, r.cur, r.to, r.mine, r.val)
BY DEF QueueBecomes

(* What a thread is to the nodes changes only with its own step.            *)
QueueOthersStay(t) == \A u \in Threads \ {t} :
  /\ me'[u] = me[u]
  /\ QueueUses(u)' = QueueUses(u) /\ QueueMine(u)' = QueueMine(u)
  /\ HeadWon'[u] = HeadWon[u] /\ TailWon'[u] = TailWon[u]
  /\ QueueRead'[u] = QueueRead[u] /\ (QueueLocal(u) => QueueLocal(u)')

QueueIsNow(t, p, o, q, s, w) ==
  /\ QueueUses(t)' = IF p \in Queue!Touching THEN {q} ELSE {}
  /\ QueueMine(t)' = {w} \ {Null}
  /\ HeadWon'[t] = IF p = "take" \/ (p = "free" /\ s = Queue!None) THEN {q} ELSE {}
  /\ TailWon'[t] = IF p = "free" /\ s # Queue!None THEN {q} ELSE {}
  /\ QueueRead'[t] = o.count

(* What a thread is to the nodes follows from its variables.                *)
LEMMA QueueOthers ==
  ASSUME NEW t \in Threads, NEW p, NEW o, NEW q, NEW s, NEW w, NEW x,
         QueueBecomes(t, p, o, q, s, w, x)
  PROVE  QueueOthersStay(t) /\ QueueIsNow(t, p, o, q, s, w)
<1>1. /\ me'[t].pc = p /\ me'[t].old = o /\ me'[t].cur = q
      /\ me'[t].to = s /\ me'[t].mine = w /\ me'[t].val = x
  BY DEF QueueBecomes
<1>2. \A u \in Threads \ {t} : me'[u] = me[u]
  BY DEF QueueBecomes
<1>3. ASSUME NEW u \in Threads \ {t}
      PROVE  /\ QueueUses(u)' = QueueUses(u) /\ QueueMine(u)' = QueueMine(u)
             /\ HeadWon'[u] = HeadWon[u] /\ TailWon'[u] = TailWon[u]
             /\ QueueRead'[u] = QueueRead[u]
  BY <1>2 DEF QueueUses, QueueMine, HeadWon, TailWon, QueueRead
<1>4. ASSUME NEW u \in Threads \ {t}, QueueLocal(u) PROVE QueueLocal(u)'
  BY <1>2, <1>4 DEF QueueLocal
<1>5. /\ QueueUses(t)' = IF p \in Queue!Touching THEN {q} ELSE {}
      /\ QueueMine(t)' = {w} \ {Null}
  BY <1>1 DEF QueueUses, QueueMine
<1>6. /\ HeadWon'[t] = IF p = "take" \/ (p = "free" /\ s = Queue!None) THEN {q} ELSE {}
      /\ TailWon'[t] = IF p = "free" /\ s # Queue!None THEN {q} ELSE {}
      /\ QueueRead'[t] = o.count
  BY <1>1 DEF HeadWon, TailWon, QueueRead
<1>7. QueueOthersStay(t)
  BY <1>2, <1>3, <1>4 DEF QueueOthersStay
<1> QED BY <1>5, <1>6, <1>7 DEF QueueIsNow

(* The users of a node.                                                     *)
LEMMA QueueUsers ==
  \A n : QueueUsed(n) \in Nat /\ (QueueUsed(n) = 0 <=> \A t \in Threads : n \notin QueueUses(t))
<1> SUFFICES ASSUME NEW n
             PROVE  QueueUsed(n) \in Nat
                    /\ (QueueUsed(n) = 0 <=> \A t \in Threads : n \notin QueueUses(t))
  OBVIOUS
<1> DEFINE U == { t \in Threads : n \in QueueUses(t) }
<1>1. IsFiniteSet(U)
  <2>1. U \in SUBSET Threads
    OBVIOUS
  <2> HIDE DEF U
  <2> QED BY <2>1, FS_Subset
<1>2. QueueUsed(n) = Cardinality(U)
  BY DEF QueueUsed
<1>3. U = {} <=> \A t \in Threads : n \notin QueueUses(t)
  OBVIOUS
<1> HIDE DEF U
<1> QED BY <1>1, <1>2, <1>3, FS_CardinalityType, FS_EmptySet

(* How the step of a thread changes them.                                   *)
LEMMA QueueUsersNext ==
  ASSUME NEW t \in Threads, \A u \in Threads \ {t} : QueueUses(u)' = QueueUses(u), NEW n
  PROVE  /\ QueueUsed(n)' \in Nat
         /\ (n \in QueueUses(t)' <=> n \in QueueUses(t)) => QueueUsed(n)' = QueueUsed(n)
         /\ n \notin QueueUses(t) /\ n \in QueueUses(t)' => QueueUsed(n)' = QueueUsed(n) + 1
         /\ n \in QueueUses(t) /\ n \notin QueueUses(t)' => QueueUsed(n)' = QueueUsed(n) - 1
         /\ QueueUsed(n)' = 0 <=> \A u \in Threads : n \notin QueueUses(u)'
<1> DEFINE U == { u \in Threads : n \in QueueUses(u) }
           V == { u \in Threads : n \in QueueUses(u)' }
<1>1. QueueUsed(n) = Cardinality(U) /\ QueueUsed(n)' = Cardinality(V)
  BY DEF QueueUsed
<1>2. U \in SUBSET Threads /\ V \in SUBSET Threads /\ IsFiniteSet(V)
  <2>1. U \in SUBSET Threads /\ V \in SUBSET Threads
    OBVIOUS
  <2> HIDE DEF U, V
  <2> QED BY <2>1, FS_Subset
<1>3. V = {} <=> \A u \in Threads : n \notin QueueUses(u)'
  OBVIOUS
<1>4. (n \in QueueUses(t)' <=> n \in QueueUses(t)) => V = U
  OBVIOUS
<1>5. n \notin QueueUses(t) /\ n \in QueueUses(t)' => V = U \cup {t} /\ t \notin U
  OBVIOUS
<1>6. n \in QueueUses(t) /\ n \notin QueueUses(t)' => V = U \ {t} /\ t \in U
  OBVIOUS
<1> HIDE DEF U, V
<1>7. QueueUsed(n)' \in Nat /\ (QueueUsed(n)' = 0 <=> V = {})
  BY <1>1, <1>2, FS_CardinalityType, FS_EmptySet
<1>8. n \notin QueueUses(t) /\ n \in QueueUses(t)' => QueueUsed(n)' = QueueUsed(n) + 1
  BY <1>1, <1>2, <1>5, OneMore
<1>9. n \in QueueUses(t) /\ n \notin QueueUses(t)' => QueueUsed(n)' = QueueUsed(n) - 1
  BY <1>1, <1>2, <1>6, OneLess
<1>10. (n \in QueueUses(t)' <=> n \in QueueUses(t)) => QueueUsed(n)' = QueueUsed(n)
  BY <1>1, <1>4
<1> QED BY <1>3, <1>7, <1>8, <1>9, <1>10

(* What the pushes have allocated.                                          *)
LEMMA QueueSpareNext ==
  ASSUME NEW t \in Threads, \A u \in Threads \ {t} : QueueMine(u)' = QueueMine(u),
         \A u \in Threads : \A w \in Threads \ {u} : QueueMine(u) \cap QueueMine(w) = {}
  PROVE  /\ QueueSpare' = (QueueSpare \ QueueMine(t)) \cup QueueMine(t)'
         /\ QueueMine(t)' = QueueMine(t) => QueueSpare' = QueueSpare
         /\ QueueMine(t) \subseteq QueueSpare
<1>1. \A x : x \in QueueSpare <=> \E u \in Threads : x \in QueueMine(u)
  BY DEF QueueSpare
<1>2. \A x : x \in QueueSpare' <=> \E u \in Threads : x \in QueueMine(u)'
  BY DEF QueueSpare
<1>3. \A x : x \in QueueSpare' <=> (x \in QueueSpare /\ x \notin QueueMine(t)) \/ x \in QueueMine(t)'
  <2> SUFFICES ASSUME NEW x
               PROVE  x \in QueueSpare'
                        <=> (x \in QueueSpare /\ x \notin QueueMine(t)) \/ x \in QueueMine(t)'
    OBVIOUS
  <2>1. ASSUME NEW u \in Threads \ {t}, x \in QueueMine(u) PROVE x \notin QueueMine(t)
    BY <2>1
  <2> QED BY <1>1, <1>2, <2>1
<1>4. QueueSpare' = (QueueSpare \ QueueMine(t)) \cup QueueMine(t)'
  BY <1>3
<1>5. QueueMine(t) \subseteq QueueSpare
  BY <1>1
<1> QED BY <1>4, <1>5

(* What another thread has seen still holds, if the node it uses stays as   *)
(* it is, is not linked anew, and becomes neither head nor tail.            *)
LEMMA QueueSeenStays ==
  ASSUME NEW b, NEW d, NEW u \in Threads, me'[u] = me[u], QueueSeen(u, b),
         \A n \in QueueUses(u) :
           /\ n \in alive'
           /\ node[n].next # Queue!None => node'[n].next = node[n].next
           /\ n \in QueueLinked(d)' =>
                /\ n \in QueueLinked(b)
                /\ node[n].data # Null => node'[n].data # Null
                /\ n = head.ptr => n = head'.ptr
           /\ n = tail'.ptr => n = tail.ptr,
         QueueLocal(u)
  PROVE  QueueSeen(u, d)'
<1> DEFINE n == me[u].cur
<1>1. me[u].pc \in Queue!Touching => QueueUses(u) = {n}
  BY DEF QueueUses
<1>2. QueueUses(u)' = QueueUses(u)
  BY DEF QueueUses
<1>3. QueueUses(u)' \subseteq alive'
  BY <1>2
<1>4. me[u].pc = "setTail" => me[u].to = node'[n].next
  BY <1>1 DEF QueueSeen, QueueLocal, Queue!Touching
<1>5. me[u].pc \in {"link", "help"} /\ n \in QueueLinked(d)' => node'[n].data # Null
  BY <1>1 DEF QueueSeen, Queue!Touching
<1>6. me[u].pc \in {"look", "setHead"} => n = head'.ptr \/ n \notin QueueLinked(d)'
  BY <1>1 DEF QueueSeen, Queue!Touching
<1>7. me[u].pc = "setHead" => n # tail'.ptr
  BY <1>1 DEF QueueSeen, Queue!Touching
<1> QED BY <1>3, <1>4, <1>5, <1>6, <1>7 DEF QueueSeen

(* The list stays when the links of its nodes do.                           *)
LEMMA QueueListStays ==
  ASSUME NEW b, QueueTypes, QueueList(b), QueueLinked(b) \subseteq QueueNodes,
         tail'.ptr = tail.ptr, head'.ptr = head.ptr,
         \A n \in QueueLinked(b) : /\ node'[n].next = node[n].next
                                   /\ node[n].data # Null => node'[n].data # Null,
         \A n \in QueueAfter \cup QueueSpare' : node'[n] = Queue!NewNode
  PROVE  QueueList(b)' /\ QueueAfter' = QueueAfter /\ QueueLinked(b)' = QueueLinked(b)
<1>1. QueueAfter' = QueueAfter
  BY DEF QueueAfter, QueueLinked
<1>2. QueueLinked(b)' = QueueLinked(b)
  BY <1>1 DEF QueueLinked
<1>3. ListFrom(QueueNodes, tail.ptr, head.ptr, QueueNext', b)
  <2>1. \A n \in Members(b) : QueueNext'[n] = QueueNext[n]
    BY DEF QueueNext, QueueLinked
  <2>2. ListFrom(QueueNodes, tail.ptr, head.ptr, QueueNext, b)
    BY DEF QueueList
  <2> QED BY <2>1, <2>2, ListStays
<1>4. \A n \in Members(b) : node'[n].data # Null
  BY DEF QueueList, QueueLinked
<1>5. QueueAfter' # {} => node'[tail'.ptr].data # Null
  BY <1>1 DEF QueueList, QueueLinked
<1>6. QueueList(b)'
  <2>1. \A n \in QueueAfter' \cup QueueSpare' : node'[n] = Queue!NewNode
    BY <1>1
  <2>2. tail.ptr # Null /\ tail.ptr \notin Members(b)
        /\ QueueAfter \cap (Members(b) \cup {tail.ptr}) = {}
    BY DEF QueueList
  <2> QED BY <1>1, <1>3, <1>4, <1>5, <2>1, <2>2 DEF QueueList, Queue!NewNode, Queue!None, Queue!CountedNodePtr
<1> QED BY <1>1, <1>2, <1>6

(* What is allocated stays in order, if what is new is a push's and no node *)
(* leaves the pushes but by its deletion.                                   *)
LEMMA QueueAliveStays ==
  ASSUME NEW b, QueueAlive(b), QueueLinked(b)' = QueueLinked(b), QueueAfter' = QueueAfter,
         tail'.ptr = tail.ptr, out' = out \/ out' # << >>,
         QueueLinked(b) \subseteq alive', QueueSpare' \subseteq alive',
         QueueSpare' \cap QueueLinked(b) = {},
         \A t \in Threads : \A u \in Threads \ {t} : QueueMine(t)' \cap QueueMine(u)' = {},
         \A n \in alive' : \/ n \in alive /\ node'[n].next = node[n].next
                               /\ (n \in QueueSpare => n \in QueueSpare')
                           \/ n \in QueueSpare' /\ node'[n].next = Queue!None
  PROVE  QueueAlive(b)'
<1>1. ASSUME NEW n \in alive'
      PROVE  /\ node'[n].next = Queue!None => n \in QueueAfter' \cup QueueSpare' \cup {tail'.ptr}
             /\ node'[n].next # Queue!None => node'[n].next.count = 1 /\ node'[n].next.ptr # Null
             /\ n \in QueueLinked(b)' \cup QueueSpare' \/ out' # << >>
  <2>1. CASE n \in alive /\ node'[n].next = node[n].next /\ (n \in QueueSpare => n \in QueueSpare')
    BY <2>1 DEF QueueAlive
  <2>2. CASE n \in QueueSpare' /\ node'[n].next = Queue!None
    BY <2>2
  <2> QED BY <1>1, <2>1, <2>2
<1> QED BY <1>1 DEF QueueAlive, Queue!None, Queue!CountedNodePtr

(* Elements stay apart when no new one is stored.                           *)
LEMMA QueueApartStays ==
  ASSUME NEW b, NEW d, QueueApart(b), lost' = lost, out' = out,
         \A n \in QueueLinked(d)' : n \in QueueLinked(b) \/ node'[n].data = Null,
         \A n \in QueueNodes : node'[n].data = node[n].data \/ node'[n].data = Null,
         QueueLinked(d)' \subseteq QueueNodes,
         \A u \in Threads : me'[u].val = me[u].val \/ me'[u].val = Null
  PROVE  QueueApart(d)'
<1>1. ASSUME NEW n \in QueueLinked(d)', node'[n].data # Null
      PROVE  /\ node'[n].data \notin lost' \cup Members(out')
             /\ \A m \in QueueLinked(d)' \ {n} : node'[m].data # node'[n].data
  <2>1. n \in QueueLinked(b) /\ node'[n].data = node[n].data /\ node[n].data # Null
    BY <1>1
  <2>2. node'[n].data \notin lost' \cup Members(out')
    BY <2>1 DEF QueueApart
  <2>3. ASSUME NEW m \in QueueLinked(d)' \ {n} PROVE node'[m].data # node'[n].data
    <3>1. CASE node'[m].data = Null
      BY <1>1, <3>1
    <3>2. CASE node'[m].data # Null
      <4>1. m \in QueueLinked(b) \ {n} /\ node'[m].data = node[m].data
        BY <2>3, <3>2
      <4>2. node[m].data # node[n].data
        BY <2>1, <4>1 DEF QueueApart
      <4> QED BY <2>1, <4>1, <4>2
    <3> QED BY <3>1, <3>2
  <2> QED BY <2>2, <2>3
<1>2. ASSUME NEW t \in Threads, me'[t].val # Null
      PROVE  /\ me'[t].val \notin lost' \cup Members(out')
             /\ \A n \in QueueNodes : node'[n].data # me'[t].val
             /\ \A u \in Threads \ {t} : me'[u].val # me'[t].val
  <2>1. me'[t].val = me[t].val /\ me[t].val # Null
    BY <1>2
  <2>2. /\ me[t].val \notin lost \cup Members(out)
        /\ \A n \in QueueNodes : node[n].data # me[t].val
        /\ \A u \in Threads \ {t} : me[u].val # me[t].val
    BY <2>1 DEF QueueApart
  <2>3. \A n \in QueueNodes : node'[n].data # me'[t].val
    BY <1>2, <2>1, <2>2
  <2>4. \A u \in Threads \ {t} : me'[u].val # me'[t].val
    BY <1>2, <2>1, <2>2
  <2> QED BY <2>1, <2>2, <2>3, <2>4
<1> QED BY <1>1, <1>2 DEF QueueApart

(* The callers see nothing.                                                 *)
LEMMA QueueFifoStays ==
  ASSUME NEW b, Members(b) \subseteq QueueNodes,
         \A n \in Members(b) : node'[n].data = node[n].data,
         out' = out, lost' = lost, empties' = empties
  PROVE  QueueFifo(b, b)
<1>1. \A n \in Members(b) : QueueData'[n] = QueueData[n]
  BY DEF QueueData
<1>2. Along(QueueData', b) = Along(QueueData, b)
  BY <1>1, AlongSame
<1> QED BY <1>2 DEF QueueFifo, FifoStep

(* No pop starts, and none returns nothing.                                 *)
LEMMA QueueEmptiesStay ==
  ASSUME empties + Cardinality(QueueLooking) <= pops, NEW t \in Threads,
         \A u \in Threads \ {t} : me'[u] = me[u], t \in QueueLooking' => t \in QueueLooking,
         empties' = empties, pops' = pops, empties \in Nat, pops \in Nat
  PROVE  (empties + Cardinality(QueueLooking) <= pops)'
<1>1. QueueLooking' \subseteq QueueLooking
  BY DEF QueueLooking
<1>2. IsFiniteSet(QueueLooking)
  <2>1. QueueLooking \in SUBSET Threads
    BY DEF QueueLooking
  <2> QED BY <2>1, FS_Subset
<1>3. /\ Cardinality(QueueLooking') <= Cardinality(QueueLooking)
      /\ Cardinality(QueueLooking') \in Nat /\ Cardinality(QueueLooking) \in Nat
  BY <1>1, <1>2, FS_Subset, FS_CardinalityType
<1> QED BY <1>3

(* Nothing happens to the counts of a node.                                 *)
LEMMA QueueSettledStays ==
  ASSUME NEW A, NEW va, NEW B, NEW vb, NEW e, NEW n, QueueSettled(n, A, va, B, vb, e),
         NEW A2, NEW va2, NEW B2, NEW vb2, NEW e2,
         node'[n].internal = node[n].internal, node'[n].counters = node[n].counters,
         QueueUsed(n)' = QueueUsed(n), n \in A2 <=> n \in A, n \in B2 <=> n \in B,
         va2[n] = va[n], vb2[n] = vb[n], e2[n] = e[n]
  PROVE  QueueSettled(n, A2, va2, B2, vb2, e2)'
BY DEF QueueSettled, InPlace

(* What the invariant says of nodes and links.                              *)
LEMMA QueueFacts ==
  ASSUME NEW b, NEW A, NEW va, NEW B, NEW vb, NEW e, QueueInv(b, A, va, B, vb, e)
  PROVE  /\ Members(b) \subseteq QueueLinked(b) /\ QueueLinked(b) \subseteq alive
         /\ alive \subseteq QueueNodes /\ b \in Seq(QueueNodes)
         /\ QueueAfter \subseteq QueueLinked(b) /\ tail.ptr \in QueueLinked(b)
         /\ head.ptr \in Members(b) \cup {tail.ptr}
         /\ head.count \in Nat /\ tail.count \in Nat
         /\ \A n \in QueueAfter \cup QueueSpare :
              /\ n # head.ptr /\ n # tail.ptr /\ n \notin Members(b)
              /\ va[n] = 0 /\ vb[n] = 0 /\ e[n] = 0 /\ n \in alive
              /\ \A u \in Threads : n \notin QueueUses(u)
<1>1. QueueTypes /\ QueueList(b) /\ QueueAlive(b) /\ QueueCounts(b, A, va, B, vb, e)
  BY DEF QueueInv
<1>2. /\ Members(b) \subseteq QueueLinked(b) /\ QueueAfter \subseteq QueueLinked(b)
      /\ tail.ptr \in QueueLinked(b)
  BY DEF QueueLinked
<1>3. QueueLinked(b) \subseteq alive /\ alive \subseteq QueueNodes
  BY <1>1 DEF QueueAlive, QueueTypes
<1>4. head.ptr \in Members(b) \cup {tail.ptr} /\ b \in Seq(QueueNodes)
  <2>1. /\ b \in Seq(QueueNodes) /\ Len(b) \in Nat
        /\ head.ptr = IF Len(b) = 0 THEN tail.ptr ELSE b[1]
    BY <1>1 DEF QueueList, ListFrom
  <2>2. CASE Len(b) = 0
    BY <2>1, <2>2
  <2>3. CASE Len(b) # 0
    <3>1. 1 \in 1..Len(b)
      BY <2>1, <2>3
    <3> QED BY <2>1, <2>3, <3>1 DEF Members
  <2> QED BY <2>1, <2>2, <2>3
<1>5. head.count \in Nat /\ tail.count \in Nat
  BY <1>1 DEF QueueTypes, Queue!Counted
<1>6. ASSUME NEW n \in QueueAfter \cup QueueSpare
      PROVE  n # head.ptr /\ n # tail.ptr /\ n \notin Members(b) /\ n \in alive
  <2>1. QueueSpare \cap QueueLinked(b) = {} /\ QueueSpare \subseteq alive
    BY <1>1 DEF QueueAlive
  <2>2. QueueAfter \cap (Members(b) \cup {tail.ptr}) = {}
    BY <1>1 DEF QueueList
  <2>3. n # tail.ptr /\ n \notin Members(b)
    BY <1>2, <2>1, <2>2
  <2> QED BY <1>2, <1>3, <1>4, <2>1, <2>3
<1>7. ASSUME NEW n \in QueueAfter \cup QueueSpare
      PROVE  /\ va[n] = 0 /\ vb[n] = 0 /\ e[n] = 0
             /\ \A u \in Threads : n \notin QueueUses(u)
  <2>1. va[n] = 0
    BY <1>1, <1>2, <1>6 DEF QueueCounts, QueueSide
  <2>2. vb[n] = 0
    BY <1>1, <1>6 DEF QueueCounts, QueueSide
  <2>3. node[n].internal = 0
    BY <1>1 DEF QueueList, Queue!NewNode
  <2>4. node[n].internal + va[n] + vb[n] = QueueUsed(n) + e[n]
    BY <1>1, <1>6 DEF QueueCounts, QueueSettled
  <2>5. e[n] \in Nat
    BY <1>1, <1>3, <1>6 DEF QueueCounts
  <2>6. QueueUsed(n) \in Nat
    BY QueueUsers
  <2>7. QueueUsed(n) = 0 /\ e[n] = 0
    BY <2>1, <2>2, <2>3, <2>4, <2>5, <2>6
  <2> QED BY <2>1, <2>2, <2>7, QueueUsers
<1> QED BY <1>2, <1>3, <1>4, <1>5, <1>6, <1>7

(* A node that a thread uses.                                               *)
LEMMA QueueUsing ==
  ASSUME NEW b, NEW A, NEW va, NEW B, NEW vb, NEW e, QueueInv(b, A, va, B, vb, e),
         NEW t \in Threads
  PROVE  /\ me[t] \in QueueLocals /\ QueueLocal(t) /\ QueueSeen(t, b)
         /\ QueueUses(t) \subseteq alive
         /\ me[t].pc \in Queue!Touching => /\ QueueUses(t) = {me[t].cur}
                                           /\ me[t].cur \in alive /\ me[t].cur \in QueueNodes
                                           /\ me[t].cur \notin QueueAfter \cup QueueSpare
<1>1. QueueTypes /\ QueueLocal(t) /\ QueueSeen(t, b)
  BY DEF QueueInv
<1>2. me[t] \in QueueLocals /\ alive \subseteq QueueNodes
  BY <1>1 DEF QueueTypes
<1>3. QueueUses(t) \subseteq alive
  BY <1>1 DEF QueueSeen
<1>4. me[t].pc \in Queue!Touching => QueueUses(t) = {me[t].cur}
  BY DEF QueueUses
<1>5. \A n \in QueueAfter \cup QueueSpare : n \notin QueueUses(t)
  BY QueueFacts
<1> QED BY <1>1, <1>2, <1>3, <1>4, <1>5

(* A step that counts nothing leaves the counts.                            *)
LEMMA QueueCountsStay ==
  ASSUME NEW b, NEW A, NEW va, NEW B, NEW vb, NEW e, QueueCounts(b, A, va, B, vb, e), NEW d,
         head' = head, tail' = tail, alive' = alive, emptyAt' = emptyAt,
         (QueueLinked(d) \cup QueueSpare)' = QueueLinked(b) \cup QueueSpare,
         ({tail.ptr} \cup QueueAfter \cup QueueSpare)' = {tail.ptr} \cup QueueAfter \cup QueueSpare,
         SameWon(HeadWon, HeadWon', QueueRead, QueueRead'),
         SameWon(TailWon, TailWon', QueueRead, QueueRead'),
         \A n \in alive : /\ node'[n].internal = node[n].internal
                          /\ node'[n].counters = node[n].counters
                          /\ QueueUsed(n)' = QueueUsed(n)
  PROVE  QueueCounts(d, A, va, B, vb, e)'
<1>1. QueueSide(A, va, head', (QueueLinked(d) \cup QueueSpare)', HeadWon', QueueRead')
  BY SideStays DEF QueueCounts
<1>2. QueueSide(B, vb, tail', ({tail.ptr} \cup QueueAfter \cup QueueSpare)', TailWon', QueueRead')
  BY SideStays DEF QueueCounts
<1>3. \A n \in alive : QueueSettled(n, A, va, B, vb, e)'
  BY QueueSettledStays DEF QueueCounts
<1>4. /\ e \in [QueueNodes -> Nat] /\ emptyAt' \subseteq alive'
      /\ \A n \in QueueNodes : n \in emptyAt' <=> e[n] # 0
  BY DEF QueueCounts
<1> QED BY <1>1, <1>2, <1>3, <1>4 DEF QueueCounts

(* A step that changes only the place of its thread, and not what it is to  *)
(* the nodes.                                                               *)
LEMMA QueueQuiet ==
  ASSUME NEW b, NEW A, NEW va, NEW B, NEW vb, NEW e, QueueInv(b, A, va, B, vb, e),
         NEW t \in Threads, NEW p, NEW o, NEW q, NEW s,
         QueueBecomes(t, p, o, q, s, me[t].mine, me[t].val),
         UNCHANGED << head, tail, node, alive, out, lost, empties, emptyAt >>,
         pops' \in 0..(MaxPops - 1), QueueUses(t)' = QueueUses(t), QueueLocal(t)',
         QueueSeen(t, b)', HeadWon[t] = {}, HeadWon'[t] = {}, TailWon[t] = {}, TailWon'[t] = {},
         (empties + Cardinality(QueueLooking) <= pops)'
  PROVE  QueueInv(b, A, va, B, vb, e)' /\ QueueFifo(b, b)
<1>1. /\ QueueTypes /\ (\A u \in Threads : QueueLocal(u) /\ QueueSeen(u, b))
      /\ QueueList(b) /\ QueueAlive(b) /\ QueueCounts(b, A, va, B, vb, e) /\ QueueApart(b)
  BY DEF QueueInv
<1>0. PICK w, x : w = me[t].mine /\ x = me[t].val /\ QueueBecomes(t, p, o, q, s, w, x)
  OBVIOUS
<1>2. QueueOthersStay(t) /\ QueueIsNow(t, p, o, q, s, w)
  BY <1>0, QueueOthers
<1>14. /\ \A u \in Threads \ {t} : me'[u] = me[u]
       /\ me'[t].val = me[t].val /\ me' \in [Threads -> QueueLocals]
  BY <1>0 DEF QueueBecomes
<1>3. QueueTypes'
  BY <1>1, <1>14 DEF QueueTypes
<1>4. QueueSpare' = QueueSpare /\ \A u \in Threads : QueueMine(u)' = QueueMine(u)
  <2>1. QueueMine(t)' = QueueMine(t)
    BY <1>0, <1>2 DEF QueueMine, QueueIsNow
  <2>2. \A u \in Threads : QueueMine(u)' = QueueMine(u)
    BY <1>2, <2>1 DEF QueueOthersStay
  <2> QED BY <1>1, <2>1, <2>2, QueueSpareNext DEF QueueAlive
<1>5. QueueLinked(b)' = QueueLinked(b) /\ QueueAfter' = QueueAfter
  BY DEF QueueLinked, QueueAfter
<1>6. \A n : QueueUsed(n)' = QueueUsed(n)
  <2>1. \A u \in Threads \ {t} : QueueUses(u)' = QueueUses(u)
    BY <1>2 DEF QueueOthersStay
  <2> QED BY <2>1, QueueUsersNext
<1>7. \A u \in Threads : QueueLocal(u)'
  BY <1>1, <1>2 DEF QueueOthersStay
<1>8. \A u \in Threads : QueueSeen(u, b)'
  <2> SUFFICES ASSUME NEW u \in Threads \ {t} PROVE QueueSeen(u, b)'
    OBVIOUS
  <2>1. QueueUses(u) \subseteq alive
    BY <1>1 DEF QueueSeen
  <2> QED BY <1>1, <1>5, <1>14, <2>1, QueueSeenStays
<1>9. QueueList(b)'
  BY <1>1, <1>4, <1>5 DEF QueueList, QueueNext, Queue!NewNode, Queue!None, Queue!CountedNodePtr
<1>10. QueueAlive(b)'
  BY <1>1, <1>4, <1>5 DEF QueueAlive, Queue!None, Queue!CountedNodePtr
<1>11. QueueCounts(b, A, va, B, vb, e)'
  <2>1. SameWon(HeadWon, HeadWon', QueueRead, QueueRead')
    BY <1>2 DEF SameWon, QueueOthersStay
  <2>2. SameWon(TailWon, TailWon', QueueRead, QueueRead')
    BY <1>2 DEF SameWon, QueueOthersStay
  <2> QED BY <1>1, <1>4, <1>5, <1>6, <2>1, <2>2, QueueCountsStay
<1>12. QueueApart(b)'
  <2>1. QueueLinked(b) \subseteq QueueNodes
    BY QueueFacts
  <2>2. \A u \in Threads : me'[u].val = me[u].val
    BY <1>14
  <2> QED BY <1>1, <1>5, <2>1, <2>2, QueueApartStays
<1>13. QueueFifo(b, b)
  BY QueueFacts, QueueFifoStays
<1> QED BY <1>3, <1>7, <1>8, <1>9, <1>10, <1>11, <1>12, <1>13 DEF QueueInv

(* The ways to write it that the actions have.                              *)
LEMMA QueueMovesPc ==
  ASSUME me \in [Threads -> QueueLocals], NEW t \in Threads,
         NEW p \in QueuePlaces,
         me' = [me EXCEPT ![t].pc = p]
  PROVE  QueueBecomes(t, p, me[t].old, me[t].cur, me[t].to, me[t].mine, me[t].val)
<1> DEFINE r == [me[t] EXCEPT !.pc = p]
<1>1. me' = [me EXCEPT ![t] = r]
  OBVIOUS
<1>2. me[t] \in QueueLocals
  OBVIOUS
<1>3. /\ r \in QueueLocals
      /\ r.pc = p /\ r.old = me[t].old /\ r.cur = me[t].cur
      /\ r.to = me[t].to /\ r.mine = me[t].mine /\ r.val = me[t].val
  BY <1>2 DEF QueueLocals
<1> HIDE DEF r
<1>4. QueueBecomes(t, r.pc, r.old, r.cur, r.to, r.mine, r.val)
  BY <1>1, <1>3, QueueMoves
<1> QED BY <1>3, <1>4

(* After a step that changes its place and what it has read.                *)
LEMMA QueueMovesPcOld ==
  ASSUME me \in [Threads -> QueueLocals], NEW t \in Threads,
         NEW p \in QueuePlaces, NEW o \in Queue!Counted,
         me' = [me EXCEPT ![t].pc = p, ![t].old = o]
  PROVE  QueueBecomes(t, p, o, me[t].cur, me[t].to, me[t].mine, me[t].val)
<1> DEFINE r == [me[t] EXCEPT !.pc = p, !.old = o]
<1>1. me' = [me EXCEPT ![t] = r]
  OBVIOUS
<1>2. me[t] \in QueueLocals
  OBVIOUS
<1>3. /\ r \in QueueLocals
      /\ r.pc = p /\ r.old = o /\ r.cur = me[t].cur
      /\ r.to = me[t].to /\ r.mine = me[t].mine /\ r.val = me[t].val
  BY <1>2 DEF QueueLocals
<1> HIDE DEF r
<1>4. QueueBecomes(t, r.pc, r.old, r.cur, r.to, r.mine, r.val)
  BY <1>1, <1>3, QueueMoves
<1> QED BY <1>3, <1>4

(* And the node it uses.                                                    *)
LEMMA QueueMovesPcOldCur ==
  ASSUME me \in [Threads -> QueueLocals], NEW t \in Threads,
         NEW p \in QueuePlaces, NEW o \in Queue!Counted, NEW q \in QueueNodes \cup {Null},
         me' = [me EXCEPT ![t].pc = p, ![t].old = o, ![t].cur = q]
  PROVE  QueueBecomes(t, p, o, q, me[t].to, me[t].mine, me[t].val)
<1> DEFINE r == [me[t] EXCEPT !.pc = p, !.old = o, !.cur = q]
<1>1. me' = [me EXCEPT ![t] = r]
  OBVIOUS
<1>2. me[t] \in QueueLocals
  OBVIOUS
<1>3. /\ r \in QueueLocals
      /\ r.pc = p /\ r.old = o /\ r.cur = q
      /\ r.to = me[t].to /\ r.mine = me[t].mine /\ r.val = me[t].val
  BY <1>2 DEF QueueLocals
<1> HIDE DEF r
<1>4. QueueBecomes(t, r.pc, r.old, r.cur, r.to, r.mine, r.val)
  BY <1>1, <1>3, QueueMoves
<1> QED BY <1>3, <1>4

(* After a step that changes its place and its element.                     *)
LEMMA QueueMovesPcVal ==
  ASSUME me \in [Threads -> QueueLocals], NEW t \in Threads,
         NEW p \in QueuePlaces, NEW x \in Values \cup {Null},
         me' = [me EXCEPT ![t].pc = p, ![t].val = x]
  PROVE  QueueBecomes(t, p, me[t].old, me[t].cur, me[t].to, me[t].mine, x)
<1> DEFINE r == [me[t] EXCEPT !.pc = p, !.val = x]
<1>1. me' = [me EXCEPT ![t] = r]
  OBVIOUS
<1>2. me[t] \in QueueLocals
  OBVIOUS
<1>3. /\ r \in QueueLocals
      /\ r.pc = p /\ r.old = me[t].old /\ r.cur = me[t].cur
      /\ r.to = me[t].to /\ r.mine = me[t].mine /\ r.val = x
  BY <1>2 DEF QueueLocals
<1> HIDE DEF r
<1>4. QueueBecomes(t, r.pc, r.old, r.cur, r.to, r.mine, r.val)
  BY <1>1, <1>3, QueueMoves
<1> QED BY <1>3, <1>4

(* Its place and the link for the tail.                                     *)
LEMMA QueueMovesPcTo ==
  ASSUME me \in [Threads -> QueueLocals], NEW t \in Threads,
         NEW p \in QueuePlaces, NEW s \in Queue!Counted,
         me' = [me EXCEPT ![t].pc = p, ![t].to = s]
  PROVE  QueueBecomes(t, p, me[t].old, me[t].cur, s, me[t].mine, me[t].val)
<1> DEFINE r == [me[t] EXCEPT !.pc = p, !.to = s]
<1>1. me' = [me EXCEPT ![t] = r]
  OBVIOUS
<1>2. me[t] \in QueueLocals
  OBVIOUS
<1>3. /\ r \in QueueLocals
      /\ r.pc = p /\ r.old = me[t].old /\ r.cur = me[t].cur
      /\ r.to = s /\ r.mine = me[t].mine /\ r.val = me[t].val
  BY <1>2 DEF QueueLocals
<1> HIDE DEF r
<1>4. QueueBecomes(t, r.pc, r.old, r.cur, r.to, r.mine, r.val)
  BY <1>1, <1>3, QueueMoves
<1> QED BY <1>3, <1>4

(* And its own node.                                                        *)
LEMMA QueueMovesPcToMine ==
  ASSUME me \in [Threads -> QueueLocals], NEW t \in Threads,
         NEW p \in QueuePlaces, NEW s \in Queue!Counted, NEW w \in QueueNodes \cup {Null},
         me' = [me EXCEPT ![t].pc = p, ![t].to = s, ![t].mine = w]
  PROVE  QueueBecomes(t, p, me[t].old, me[t].cur, s, w, me[t].val)
<1> DEFINE r == [me[t] EXCEPT !.pc = p, !.to = s, !.mine = w]
<1>1. me' = [me EXCEPT ![t] = r]
  OBVIOUS
<1>2. me[t] \in QueueLocals
  OBVIOUS
<1>3. /\ r \in QueueLocals
      /\ r.pc = p /\ r.old = me[t].old /\ r.cur = me[t].cur
      /\ r.to = s /\ r.mine = w /\ r.val = me[t].val
  BY <1>2 DEF QueueLocals
<1> HIDE DEF r
<1>4. QueueBecomes(t, r.pc, r.old, r.cur, r.to, r.mine, r.val)
  BY <1>1, <1>3, QueueMoves
<1> QED BY <1>3, <1>4

-----------------------------------------------------------------------------
(* The steps that count and store nothing. *)

(* A push finds that another has stored its element first.                  *)
LEMMA QueueDataTaken ==
  ASSUME NEW b, NEW A, NEW va, NEW B, NEW vb, NEW e, QueueInv(b, A, va, B, vb, e),
         NEW t \in Threads, Queue!DataTaken(t)
  PROVE  QueueKeeps(b)
<1>1. /\ me[t].pc = "data" /\ node[me[t].cur].data # Null
      /\ me' = [me EXCEPT ![t].pc = "help"]
      /\ UNCHANGED << head, tail, node, alive, out, lost, empties, emptyAt, pops >>
  BY DEF Queue!DataTaken, Queue!At, Queue!DataFree, Queue!history
<1>2. /\ QueueTypes /\ me[t] \in QueueLocals /\ QueueLocal(t) /\ QueueSeen(t, b)
      /\ empties + Cardinality(QueueLooking) <= pops
  BY QueueUsing DEF QueueInv
<1>3. PICK o, q, s, w, x :
        /\ o = me[t].old /\ q = me[t].cur /\ s = me[t].to /\ w = me[t].mine /\ x = me[t].val
        /\ QueueBecomes(t, "help", o, q, s, w, x)
  <2>1. me \in [Threads -> QueueLocals] /\ "help" \in QueuePlaces
    BY <1>2 DEF QueueTypes, QueuePlaces, Queue!Touching
  <2> QED BY <1>1, <2>1, QueueMovesPc
<1>4. /\ me'[t].pc = "help" /\ me'[t].old = o /\ me'[t].cur = q /\ me'[t].to = s
      /\ me'[t].mine = w /\ me'[t].val = x /\ \A u \in Threads \ {t} : me'[u] = me[u]
  BY <1>3 DEF QueueBecomes
<1>5. QueueOthersStay(t) /\ QueueIsNow(t, "help", o, q, s, w)
  BY <1>3, QueueOthers
<1>6. QueueLocal(t)'
  BY <1>1, <1>2, <1>3, <1>4 DEF QueueLocal, Queue!Touching
<1>7. QueueUses(t)' = QueueUses(t)
  BY <1>1, <1>3, <1>5 DEF QueueIsNow, QueueUses, Queue!Touching
<1>8. QueueSeen(t, b)'
  BY <1>1, <1>2, <1>3, <1>4, <1>7 DEF QueueSeen, QueueLinked, QueueAfter
<1>9. HeadWon[t] = {} /\ HeadWon'[t] = {} /\ TailWon[t] = {} /\ TailWon'[t] = {}
  BY <1>1, <1>5 DEF HeadWon, TailWon, QueueIsNow
<1>10. (empties + Cardinality(QueueLooking) <= pops)'
  <2>1. t \in QueueLooking' => t \in QueueLooking
    BY <1>4 DEF QueueLooking
  <2> QED BY <1>1, <1>2, <1>4, <2>1, QueueEmptiesStay DEF QueueTypes
<1>11. pops' \in 0..(MaxPops - 1)
  BY <1>1, <1>2 DEF QueueTypes
<1>12. QueueInv(b, A, va, B, vb, e)' /\ QueueFifo(b, b)
  BY <1>1, <1>3, <1>6, <1>7, <1>8, <1>9, <1>10, <1>11, QueueQuiet
<1> QED BY <1>12 DEF QueueKeeps

(* A pop sees that the node is not the tail.                                 *)
LEMMA QueueLook ==
  ASSUME NEW b, NEW A, NEW va, NEW B, NEW vb, NEW e, QueueInv(b, A, va, B, vb, e),
         NEW t \in Threads, Queue!Look(t)
  PROVE  QueueKeeps(b)
<1>1. /\ me[t].pc = "look" /\ me[t].cur # tail.ptr
      /\ me' = [me EXCEPT ![t].pc = "setHead"]
      /\ UNCHANGED << head, tail, node, alive, out, lost, empties, emptyAt, pops >>
  BY DEF Queue!Look, Queue!At, Queue!history, Queue!IsEmpty
<1>2. /\ QueueTypes /\ me[t] \in QueueLocals /\ QueueLocal(t) /\ QueueSeen(t, b)
      /\ empties + Cardinality(QueueLooking) <= pops
  BY QueueUsing DEF QueueInv
<1>3. PICK p, o, q, s, w, x :
        /\ p = "setHead" /\ o = me[t].old /\ q = me[t].cur /\ s = me[t].to
        /\ w = me[t].mine /\ x = me[t].val
        /\ QueueBecomes(t, p, o, q, s, w, x)
  <2>1. me \in [Threads -> QueueLocals] /\ "setHead" \in QueuePlaces
    BY <1>1, <1>2 DEF QueueTypes, QueuePlaces, Queue!Touching
  <2> QED BY <1>1, <2>1, QueueMovesPc
<1>4. /\ me'[t].pc = p /\ me'[t].old = o /\ me'[t].cur = q /\ me'[t].to = s
      /\ me'[t].mine = w /\ me'[t].val = x /\ \A u \in Threads \ {t} : me'[u] = me[u]
  BY <1>3 DEF QueueBecomes
<1>5. QueueOthersStay(t) /\ QueueIsNow(t, p, o, q, s, w)
  BY <1>3, QueueOthers
<1>6. QueueLocal(t)'
  BY <1>1, <1>2, <1>3, <1>4 DEF QueueLocal, Queue!Touching
<1>7. QueueUses(t)' = QueueUses(t)
  BY <1>1, <1>3, <1>5 DEF QueueIsNow, QueueUses, Queue!Touching
<1>8. QueueSeen(t, b)'
  BY <1>1, <1>2, <1>3, <1>4, <1>7 DEF QueueSeen, QueueLinked, QueueAfter
<1>9. HeadWon[t] = {} /\ HeadWon'[t] = {} /\ TailWon[t] = {} /\ TailWon'[t] = {}
  BY <1>1, <1>3, <1>5 DEF HeadWon, TailWon, QueueIsNow
<1>10. (empties + Cardinality(QueueLooking) <= pops)'
  <2>1. t \in QueueLooking' => t \in QueueLooking
    BY <1>1, <1>2, <1>3, <1>4 DEF QueueLooking, QueueLocal
  <2> QED BY <1>1, <1>2, <1>4, <2>1, QueueEmptiesStay DEF QueueTypes
<1>11. pops' \in 0..(MaxPops - 1)
  BY <1>1, <1>2 DEF QueueTypes
<1>12. QueueInv(b, A, va, B, vb, e)' /\ QueueFifo(b, b)
  BY <1>1, <1>3, <1>6, <1>7, <1>8, <1>9, <1>10, <1>11, QueueQuiet
<1> QED BY <1>12 DEF QueueKeeps

(* A helper finds the next node linked.                                      *)
LEMMA QueueHelpLinked ==
  ASSUME NEW b, NEW A, NEW va, NEW B, NEW vb, NEW e, QueueInv(b, A, va, B, vb, e),
         NEW t \in Threads, Queue!HelpLinked(t)
  PROVE  QueueKeeps(b)
<1>1. /\ me[t].pc = "help" /\ node[me[t].cur].next # Queue!None
      /\ me' = [me EXCEPT ![t].pc = "setTail", ![t].to = node[me[t].cur].next]
      /\ UNCHANGED << head, tail, node, alive, out, lost, empties, emptyAt, pops >>
  BY DEF Queue!HelpLinked, Queue!At, Queue!history
<1>2. /\ QueueTypes /\ me[t] \in QueueLocals /\ QueueLocal(t) /\ QueueSeen(t, b)
      /\ empties + Cardinality(QueueLooking) <= pops
  BY QueueUsing DEF QueueInv
<1>3. PICK p, o, q, s, w, x :
        /\ p = "setTail" /\ o = me[t].old /\ q = me[t].cur /\ s = node[me[t].cur].next
        /\ w = me[t].mine /\ x = me[t].val
        /\ QueueBecomes(t, p, o, q, s, w, x)
  <2>1. me[t].cur \in QueueNodes
    BY <1>1, QueueUsing DEF Queue!Touching
  <2>2. node[me[t].cur] \in QueueFields
    BY <1>2, <2>1 DEF QueueTypes
  <2>3. node[me[t].cur].next \in Queue!Counted
    BY <2>2 DEF QueueFields
  <2>4. me \in [Threads -> QueueLocals] /\ "setTail" \in QueuePlaces
    BY <1>2 DEF QueueTypes, QueuePlaces, Queue!Touching
  <2> QED BY <1>1, <2>3, <2>4, QueueMovesPcTo
<1>4. /\ me'[t].pc = p /\ me'[t].old = o /\ me'[t].cur = q /\ me'[t].to = s
      /\ me'[t].mine = w /\ me'[t].val = x /\ \A u \in Threads \ {t} : me'[u] = me[u]
  BY <1>3 DEF QueueBecomes
<1>5. QueueOthersStay(t) /\ QueueIsNow(t, p, o, q, s, w)
  BY <1>3, QueueOthers
<1>6. QueueLocal(t)'
  BY <1>1, <1>2, <1>3, <1>4 DEF QueueLocal, Queue!Touching
<1>7. QueueUses(t)' = QueueUses(t)
  BY <1>1, <1>3, <1>5 DEF QueueIsNow, QueueUses, Queue!Touching
<1>8. QueueSeen(t, b)'
  BY <1>1, <1>2, <1>3, <1>4, <1>7 DEF QueueSeen, QueueLinked, QueueAfter
<1>9. HeadWon[t] = {} /\ HeadWon'[t] = {} /\ TailWon[t] = {} /\ TailWon'[t] = {}
  BY <1>1, <1>3, <1>5 DEF HeadWon, TailWon, QueueIsNow
<1>10. (empties + Cardinality(QueueLooking) <= pops)'
  <2>1. t \in QueueLooking' => t \in QueueLooking
    BY <1>1, <1>2, <1>3, <1>4 DEF QueueLooking, QueueLocal
  <2> QED BY <1>1, <1>2, <1>4, <2>1, QueueEmptiesStay DEF QueueTypes
<1>11. pops' \in 0..(MaxPops - 1)
  BY <1>1, <1>2 DEF QueueTypes
<1>12. QueueInv(b, A, va, B, vb, e)' /\ QueueFifo(b, b)
  BY <1>1, <1>3, <1>6, <1>7, <1>8, <1>9, <1>10, <1>11, QueueQuiet
<1> QED BY <1>12 DEF QueueKeeps

(* A push finds the tail changed, by a count or by another node.             *)
LEMMA QueueSetTailFail ==
  ASSUME NEW b, NEW A, NEW va, NEW B, NEW vb, NEW e, QueueInv(b, A, va, B, vb, e),
         NEW t \in Threads, Queue!SetTailFail(t)
  PROVE  QueueKeeps(b)
<1>1. /\ me[t].pc = "setTail"
      /\ me' = [me EXCEPT ![t].old = tail,
                         ![t].pc = IF tail.ptr = me[t].cur THEN @ ELSE "release"]
      /\ UNCHANGED << head, tail, node, alive, out, lost, empties, emptyAt, pops >>
  BY DEF Queue!SetTailFail, Queue!At, Queue!history
<1>2. /\ QueueTypes /\ me[t] \in QueueLocals /\ QueueLocal(t) /\ QueueSeen(t, b)
      /\ empties + Cardinality(QueueLooking) <= pops
  BY QueueUsing DEF QueueInv
<1>3. PICK p, o, q, s, w, x :
        /\ p = "release" \/ (p = "setTail" /\ tail.ptr = me[t].cur)
        /\ o = tail /\ q = me[t].cur /\ s = me[t].to
        /\ w = me[t].mine /\ x = me[t].val
        /\ QueueBecomes(t, p, o, q, s, w, x)
  <2> DEFINE pp == IF tail.ptr = me[t].cur THEN "setTail" ELSE "release"
  <2>1. /\ me \in [Threads -> QueueLocals] /\ pp \in QueuePlaces
        /\ tail \in Queue!Counted
    BY <1>2 DEF QueueTypes, QueuePlaces, Queue!Touching
  <2>2. me' = [me EXCEPT ![t].pc = pp, ![t].old = tail]
    BY <1>1, <2>1
  <2>3. pp = "release" \/ (pp = "setTail" /\ tail.ptr = me[t].cur)
    OBVIOUS
  <2> HIDE DEF pp
  <2>4. QueueBecomes(t, pp, tail, me[t].cur, me[t].to, me[t].mine, me[t].val)
    BY <2>1, <2>2, QueueMovesPcOld
  <2> QED BY <2>3, <2>4
<1>4. /\ me'[t].pc = p /\ me'[t].old = o /\ me'[t].cur = q /\ me'[t].to = s
      /\ me'[t].mine = w /\ me'[t].val = x /\ \A u \in Threads \ {t} : me'[u] = me[u]
  BY <1>3 DEF QueueBecomes
<1>5. QueueOthersStay(t) /\ QueueIsNow(t, p, o, q, s, w)
  BY <1>3, QueueOthers
<1>6. QueueLocal(t)'
  BY <1>1, <1>2, <1>3, <1>4 DEF QueueLocal, Queue!Touching
<1>7. QueueUses(t)' = QueueUses(t)
  BY <1>1, <1>3, <1>5 DEF QueueIsNow, QueueUses, Queue!Touching
<1>8. QueueSeen(t, b)'
  BY <1>1, <1>2, <1>3, <1>4, <1>7 DEF QueueSeen, QueueLinked, QueueAfter
<1>9. HeadWon[t] = {} /\ HeadWon'[t] = {} /\ TailWon[t] = {} /\ TailWon'[t] = {}
  BY <1>1, <1>3, <1>5 DEF HeadWon, TailWon, QueueIsNow
<1>10. (empties + Cardinality(QueueLooking) <= pops)'
  <2>1. t \in QueueLooking' => t \in QueueLooking
    BY <1>1, <1>2, <1>3, <1>4 DEF QueueLooking, QueueLocal
  <2> QED BY <1>1, <1>2, <1>4, <2>1, QueueEmptiesStay DEF QueueTypes
<1>11. pops' \in 0..(MaxPops - 1)
  BY <1>1, <1>2 DEF QueueTypes
<1>12. QueueInv(b, A, va, B, vb, e)' /\ QueueFifo(b, b)
  BY <1>1, <1>3, <1>6, <1>7, <1>8, <1>9, <1>10, <1>11, QueueQuiet
<1> QED BY <1>12 DEF QueueKeeps

(* A pop finds the head changed.                                             *)
LEMMA QueueSetHeadFail ==
  ASSUME NEW b, NEW A, NEW va, NEW B, NEW vb, NEW e, QueueInv(b, A, va, B, vb, e),
         NEW t \in Threads, Queue!SetHeadFail(t)
  PROVE  QueueKeeps(b)
<1>1. /\ me[t].pc = "setHead"
      /\ me' = [me EXCEPT ![t].pc = "release", ![t].old = head]
      /\ UNCHANGED << head, tail, node, alive, out, lost, empties, emptyAt, pops >>
  BY DEF Queue!SetHeadFail, Queue!At, Queue!history
<1>2. /\ QueueTypes /\ me[t] \in QueueLocals /\ QueueLocal(t) /\ QueueSeen(t, b)
      /\ empties + Cardinality(QueueLooking) <= pops
  BY QueueUsing DEF QueueInv
<1>3. PICK p, o, q, s, w, x :
        /\ p = "release" /\ o = head /\ q = me[t].cur /\ s = me[t].to
        /\ w = me[t].mine /\ x = me[t].val
        /\ QueueBecomes(t, p, o, q, s, w, x)
  <2>1. /\ me \in [Threads -> QueueLocals] /\ "release" \in QueuePlaces
        /\ head \in Queue!Counted
    BY <1>2 DEF QueueTypes, QueuePlaces, Queue!Touching
  <2> QED BY <1>1, <2>1, QueueMovesPcOld
<1>4. /\ me'[t].pc = p /\ me'[t].old = o /\ me'[t].cur = q /\ me'[t].to = s
      /\ me'[t].mine = w /\ me'[t].val = x /\ \A u \in Threads \ {t} : me'[u] = me[u]
  BY <1>3 DEF QueueBecomes
<1>5. QueueOthersStay(t) /\ QueueIsNow(t, p, o, q, s, w)
  BY <1>3, QueueOthers
<1>6. QueueLocal(t)'
  BY <1>1, <1>2, <1>3, <1>4 DEF QueueLocal, Queue!Touching
<1>7. QueueUses(t)' = QueueUses(t)
  BY <1>1, <1>3, <1>5 DEF QueueIsNow, QueueUses, Queue!Touching
<1>8. QueueSeen(t, b)'
  BY <1>1, <1>2, <1>3, <1>4, <1>7 DEF QueueSeen, QueueLinked, QueueAfter
<1>9. HeadWon[t] = {} /\ HeadWon'[t] = {} /\ TailWon[t] = {} /\ TailWon'[t] = {}
  BY <1>1, <1>3, <1>5 DEF HeadWon, TailWon, QueueIsNow
<1>10. (empties + Cardinality(QueueLooking) <= pops)'
  <2>1. t \in QueueLooking' => t \in QueueLooking
    BY <1>1, <1>2, <1>3, <1>4 DEF QueueLooking, QueueLocal
  <2> QED BY <1>1, <1>2, <1>4, <2>1, QueueEmptiesStay DEF QueueTypes
<1>11. pops' \in 0..(MaxPops - 1)
  BY <1>1, <1>2 DEF QueueTypes
<1>12. QueueInv(b, A, va, B, vb, e)' /\ QueueFifo(b, b)
  BY <1>1, <1>3, <1>6, <1>7, <1>8, <1>9, <1>10, <1>11, QueueQuiet
<1> QED BY <1>12 DEF QueueKeeps

(* A pop starts.                                                             *)
LEMMA QueuePop ==
  ASSUME NEW b, NEW A, NEW va, NEW B, NEW vb, NEW e, QueueInv(b, A, va, B, vb, e),
         NEW t \in Threads, Queue!Pop(t)
  PROVE  QueueKeeps(b)
<1>1. /\ me[t].pc = "idle" /\ pops < MaxPops - 1
      /\ me' = [me EXCEPT ![t].pc = "countHead", ![t].old = head]
      /\ UNCHANGED << head, tail, node, alive, out, lost, empties, emptyAt >>
      /\ pops' = pops + 1
  BY DEF Queue!Pop, Queue!At, Queue!history
<1>2. /\ QueueTypes /\ me[t] \in QueueLocals /\ QueueLocal(t) /\ QueueSeen(t, b)
      /\ empties + Cardinality(QueueLooking) <= pops
  BY QueueUsing DEF QueueInv
<1>3. PICK p, o, q, s, w, x :
        /\ p = "countHead" /\ o = head /\ q = me[t].cur /\ s = me[t].to
        /\ w = me[t].mine /\ x = me[t].val
        /\ QueueBecomes(t, p, o, q, s, w, x)
  <2>1. /\ me \in [Threads -> QueueLocals] /\ "countHead" \in QueuePlaces
        /\ head \in Queue!Counted
    BY <1>2 DEF QueueTypes, QueuePlaces, Queue!Touching
  <2> QED BY <1>1, <2>1, QueueMovesPcOld
<1>4. /\ me'[t].pc = p /\ me'[t].old = o /\ me'[t].cur = q /\ me'[t].to = s
      /\ me'[t].mine = w /\ me'[t].val = x /\ \A u \in Threads \ {t} : me'[u] = me[u]
  BY <1>3 DEF QueueBecomes
<1>5. QueueOthersStay(t) /\ QueueIsNow(t, p, o, q, s, w)
  BY <1>3, QueueOthers
<1>6. QueueLocal(t)'
  BY <1>1, <1>2, <1>3, <1>4 DEF QueueLocal, Queue!Touching
<1>7. QueueUses(t)' = QueueUses(t)
  BY <1>1, <1>3, <1>5 DEF QueueIsNow, QueueUses, Queue!Touching
<1>8. QueueSeen(t, b)'
  BY <1>1, <1>2, <1>3, <1>4, <1>7 DEF QueueSeen, QueueLinked, QueueAfter
<1>9. HeadWon[t] = {} /\ HeadWon'[t] = {} /\ TailWon[t] = {} /\ TailWon'[t] = {}
  BY <1>1, <1>3, <1>5 DEF HeadWon, TailWon, QueueIsNow
<1>10. (empties + Cardinality(QueueLooking) <= pops)'
  <2>1. QueueLooking \in SUBSET Threads
    BY DEF QueueLooking
  <2>2. t \notin QueueLooking /\ QueueLooking' = QueueLooking \cup {t}
    BY <1>1, <1>3, <1>4 DEF QueueLooking
  <2>3. /\ Cardinality(QueueLooking) \in Nat
        /\ Cardinality(QueueLooking') = Cardinality(QueueLooking) + 1
    BY <2>1, <2>2, OneMore
  <2>4. pops \in Nat /\ empties \in Nat
    BY <1>2 DEF QueueTypes
  <2> QED BY <1>1, <1>2, <2>3, <2>4
<1>11. pops' \in 0..(MaxPops - 1)
  BY <1>1, <1>2 DEF QueueTypes
<1>12. QueueInv(b, A, va, B, vb, e)' /\ QueueFifo(b, b)
  BY <1>1, <1>3, <1>6, <1>7, <1>8, <1>9, <1>10, <1>11, QueueQuiet
<1> QED BY <1>12 DEF QueueKeeps

(* A push finds the tail changed when it counts itself.                      *)
LEMMA QueueCountTailRetry ==
  ASSUME NEW b, NEW A, NEW va, NEW B, NEW vb, NEW e, QueueInv(b, A, va, B, vb, e),
         NEW t \in Threads, Queue!CountTail(t), tail # me[t].old
  PROVE  QueueKeeps(b)
<1>1. /\ me[t].pc = "countTail"
      /\ me' = [me EXCEPT ![t].pc = me[t].pc, ![t].old = tail, ![t].cur = tail.ptr]
      /\ UNCHANGED << head, tail, node, alive, out, lost, empties, emptyAt, pops >>
  BY DEF Queue!CountTail, Queue!Counts, Queue!At, Queue!history
<1>2. /\ QueueTypes /\ me[t] \in QueueLocals /\ QueueLocal(t) /\ QueueSeen(t, b)
      /\ empties + Cardinality(QueueLooking) <= pops
  BY QueueUsing DEF QueueInv
<1>3. PICK o, q, s, w, x :
        /\ o = tail /\ q = tail.ptr /\ s = me[t].to
        /\ w = me[t].mine /\ x = me[t].val
        /\ QueueBecomes(t, "countTail", o, q, s, w, x)
  <2>1. /\ me \in [Threads -> QueueLocals] /\ me[t].pc \in QueuePlaces
        /\ tail \in Queue!Counted /\ tail.ptr \in QueueNodes \cup {Null}
    BY <1>1, <1>2 DEF QueueTypes, QueuePlaces, Queue!Touching, Queue!Counted, QueueNodes
  <2>2. QueueBecomes(t, me[t].pc, tail, tail.ptr, me[t].to, me[t].mine, me[t].val)
    BY <1>1, <2>1, QueueMovesPcOldCur
  <2> QED BY <1>1, <2>2
<1>4. /\ me'[t].pc = "countTail" /\ me'[t].old = o /\ me'[t].cur = q /\ me'[t].to = s
      /\ me'[t].mine = w /\ me'[t].val = x /\ \A u \in Threads \ {t} : me'[u] = me[u]
  BY <1>3 DEF QueueBecomes
<1>5. QueueOthersStay(t) /\ QueueIsNow(t, "countTail", o, q, s, w)
  BY <1>3, QueueOthers
<1>6. QueueLocal(t)'
  BY <1>1, <1>2, <1>3, <1>4 DEF QueueLocal, Queue!Touching
<1>7. QueueUses(t)' = QueueUses(t)
  BY <1>1, <1>3, <1>5 DEF QueueIsNow, QueueUses, Queue!Touching
<1>8. QueueSeen(t, b)'
  BY <1>1, <1>2, <1>3, <1>4, <1>7 DEF QueueSeen, QueueLinked, QueueAfter
<1>9. HeadWon[t] = {} /\ HeadWon'[t] = {} /\ TailWon[t] = {} /\ TailWon'[t] = {}
  BY <1>1, <1>3, <1>5 DEF HeadWon, TailWon, QueueIsNow
<1>10. (empties + Cardinality(QueueLooking) <= pops)'
  <2>1. t \in QueueLooking' => t \in QueueLooking
    BY <1>1, <1>4 DEF QueueLooking
  <2> QED BY <1>1, <1>2, <1>4, <2>1, QueueEmptiesStay DEF QueueTypes
<1>11. pops' \in 0..(MaxPops - 1)
  BY <1>1, <1>2 DEF QueueTypes
<1>12. QueueInv(b, A, va, B, vb, e)' /\ QueueFifo(b, b)
  BY <1>1, <1>3, <1>6, <1>7, <1>8, <1>9, <1>10, <1>11, QueueQuiet
<1> QED BY <1>12 DEF QueueKeeps

(* A push counts itself in the tail.                                         *)
LEMMA QueueCountTail ==
  ASSUME NEW b, NEW A, NEW va, NEW B, NEW vb, NEW e, QueueInv(b, A, va, B, vb, e),
         NEW t \in Threads, Queue!CountTail(t), tail = me[t].old
  PROVE  QueueKeeps(b)
<1>1. /\ me[t].pc = "countTail" /\ tail.count < MaxCount
      /\ tail' = [tail EXCEPT !.count = @ + 1]
      /\ me' = [me EXCEPT ![t].pc = "data", ![t].old = [tail EXCEPT !.count = @ + 1],
                          ![t].cur = tail.ptr]
      /\ UNCHANGED << head, node, alive, out, lost, empties, emptyAt, pops >>
  BY DEF Queue!CountTail, Queue!Counts, Queue!Increased, Queue!At, Queue!history
<1>2. /\ QueueTypes /\ (\A u \in Threads : QueueLocal(u) /\ QueueSeen(u, b))
      /\ QueueList(b) /\ QueueAlive(b) /\ QueueCounts(b, A, va, B, vb, e) /\ QueueApart(b)
      /\ empties + Cardinality(QueueLooking) <= pops
  BY DEF QueueInv
<1>3. PICK k, n : k = [tail EXCEPT !.count = @ + 1] /\ n = tail.ptr
  OBVIOUS
<1>4. /\ k \in Queue!Counted /\ k.ptr = n /\ k.count = tail.count + 1 /\ tail.count \in Nat
      /\ n \in QueueNodes /\ n \in alive /\ n \in QueueLinked(b)
  <2>1. tail \in Queue!Counted /\ MaxCount \in Nat
    BY <1>2 DEF QueueTypes
  <2>2. n \in QueueLinked(b) /\ n \in alive /\ n \in QueueNodes
    BY <1>3, QueueFacts
  <2>3. k \in Queue!Counted /\ k.ptr = n /\ k.count = tail.count + 1 /\ tail.count \in Nat
    BY <1>1, <1>3, <2>1 DEF Queue!Counted
  <2> QED BY <2>2, <2>3
<1>5. PICK s, w, x :
        /\ s = me[t].to /\ w = me[t].mine /\ x = me[t].val
        /\ QueueBecomes(t, "data", k, n, s, w, x)
  <2>1. me \in [Threads -> QueueLocals] /\ "data" \in QueuePlaces
    BY <1>2 DEF QueueTypes, QueuePlaces, Queue!Touching
  <2>2. me' = [me EXCEPT ![t].pc = "data", ![t].old = k, ![t].cur = n]
    BY <1>1, <1>3
  <2> QED BY <1>4, <2>1, <2>2, QueueMovesPcOldCur
<1>6. /\ me'[t].pc = "data" /\ me'[t].old = k /\ me'[t].cur = n /\ me'[t].to = s
      /\ me'[t].mine = w /\ me'[t].val = x /\ \A u \in Threads \ {t} : me'[u] = me[u]
      /\ me' \in [Threads -> QueueLocals]
  BY <1>5 DEF QueueBecomes
<1>7. QueueOthersStay(t) /\ QueueIsNow(t, "data", k, n, s, w)
  BY <1>5, QueueOthers
<1>8. tail' = k /\ tail'.ptr = tail.ptr
  BY <1>1, <1>3, <1>4
<1>9. QueueTypes'
  BY <1>1, <1>2, <1>4, <1>6, <1>8 DEF QueueTypes
<1>10. QueueSpare' = QueueSpare /\ \A u \in Threads : QueueMine(u)' = QueueMine(u)
  <2>1. QueueMine(t)' = QueueMine(t)
    BY <1>5, <1>7 DEF QueueMine, QueueIsNow
  <2>2. \A u \in Threads : QueueMine(u)' = QueueMine(u)
    BY <1>7, <2>1 DEF QueueOthersStay
  <2> QED BY <1>2, <2>1, <2>2, QueueSpareNext DEF QueueAlive
<1>11. QueueList(b)' /\ QueueAfter' = QueueAfter /\ QueueLinked(b)' = QueueLinked(b)
  <2>1. QueueLinked(b) \subseteq QueueNodes
    BY QueueFacts
  <2>2. \A m \in QueueAfter \cup QueueSpare' : node'[m] = Queue!NewNode
    BY <1>1, <1>2, <1>10 DEF QueueList
  <2> QED BY <1>1, <1>2, <1>8, <2>1, <2>2, QueueListStays
<1>12. QueueAlive(b)'
  <2>1. /\ QueueLinked(b) \subseteq alive' /\ QueueSpare' \subseteq alive'
        /\ QueueSpare' \cap QueueLinked(b) = {}
        /\ \A u \in Threads : \A y \in Threads \ {u} : QueueMine(u)' \cap QueueMine(y)' = {}
    BY <1>1, <1>2, <1>10 DEF QueueAlive
  <2> QED BY <1>1, <1>2, <1>8, <1>10, <1>11, <2>1, QueueAliveStays
<1>13. QueueUses(t) = {} /\ QueueUses(t)' = {n}
  BY <1>1, <1>7 DEF QueueUses, QueueIsNow, Queue!Touching
<1>14. \A u \in Threads : QueueLocal(u)'
  <2>1. QueueLocal(t)'
    BY <1>1, <1>2, <1>4, <1>5, <1>6 DEF QueueLocal, Queue!Touching
  <2> QED BY <1>2, <1>7, <2>1 DEF QueueOthersStay
<1>15. \A u \in Threads : QueueSeen(u, b)'
  <2>1. QueueSeen(t, b)'
    BY <1>1, <1>4, <1>6, <1>8, <1>13 DEF QueueSeen
  <2>2. ASSUME NEW u \in Threads \ {t} PROVE QueueSeen(u, b)'
    <3>1. QueueUses(u) \subseteq alive
      BY <1>2 DEF QueueSeen
    <3> QED BY <1>1, <1>2, <1>6, <1>8, <1>11, <3>1, QueueSeenStays
  <2> QED BY <2>1, <2>2
<1> DEFINE vb2 == [vb EXCEPT ![n] = @ + 1]
<1>16. QueueCounts(b, A, va, B, vb2, e)'
  <2>1. SameWon(HeadWon, HeadWon', QueueRead, QueueRead')
    BY <1>1, <1>7 DEF SameWon, QueueOthersStay, QueueIsNow, HeadWon
  <2>2. SameWon(TailWon, TailWon', QueueRead, QueueRead')
    BY <1>1, <1>7 DEF SameWon, QueueOthersStay, QueueIsNow, TailWon
  <2>3. QueueSide(A, va, head', (QueueLinked(b) \cup QueueSpare)', HeadWon', QueueRead')
    BY <1>1, <1>2, <1>10, <1>11, <2>1, SideStays DEF QueueCounts
  <2>4. QueueSide(B, vb2, tail', ({tail.ptr} \cup QueueAfter \cup QueueSpare)',
                  TailWon', QueueRead')
    <3> DEFINE P == {tail.ptr} \cup QueueAfter \cup QueueSpare
    <3>1. QueueSide(B, vb, tail, P, TailWon, QueueRead)
      BY <1>2 DEF QueueCounts
    <3>2. P' = P /\ tail'.ptr = tail.ptr
      BY <1>8, <1>10, <1>11
    <3> HIDE DEF P
    <3>3. QueueSide(B, [vb EXCEPT ![tail.ptr] = @ + 1], k, P, TailWon', QueueRead')
      BY <1>3, <1>4, <2>2, <3>1, SideCounts
    <3>4. QueueSide(B, vb2, tail', P', TailWon', QueueRead')
      BY <1>3, <1>8, <3>2, <3>3
    <3> QED BY <3>4 DEF P
  <2>5. ASSUME NEW m \in alive PROVE QueueSettled(m, A, va, B, vb2, e)'
    <3>1. QueueSettled(m, A, va, B, vb, e) /\ m \in QueueNodes
      BY <1>2, QueueFacts DEF QueueCounts
    <3>2. \A u \in Threads \ {t} : QueueUses(u)' = QueueUses(u)
      BY <1>7 DEF QueueOthersStay
    <3>3. vb \in [QueueNodes -> Nat]
      BY <1>2 DEF QueueCounts, QueueSide
    <3>4. CASE m = n
      <4>1. QueueUsed(m)' = QueueUsed(m) + 1
        BY <1>13, <3>2, <3>4, QueueUsersNext
      <4>2. vb2[m] = vb[m] + 1
        BY <3>1, <3>3, <3>4
      <4>3. /\ va[m] \in Nat /\ vb[m] \in Nat /\ e[m] \in Nat /\ QueueUsed(m) \in Nat
            /\ node[m].internal \in Int
        <5>1. /\ va[m] \in Nat /\ vb[m] \in Nat /\ e[m] \in Nat
          BY <1>2, <3>1 DEF QueueCounts, QueueSide
        <5>2. node[m] \in QueueFields
          BY <1>2, <3>1 DEF QueueTypes
        <5> QED BY <5>1, <5>2, QueueUsers DEF QueueFields
      <4>4. node[m].internal + va[m] + vb[m] = QueueUsed(m) + e[m]
        BY <3>1 DEF QueueSettled
      <4>5. node'[m].internal + va[m] + vb2[m] = QueueUsed(m)' + e[m]
        <5> HIDE DEF vb2
        <5> QED BY <1>1, <4>1, <4>2, <4>3, <4>4
      <4> HIDE DEF vb2
      <4> QED BY <1>1, <3>1, <4>5 DEF QueueSettled, InPlace
    <3>5. CASE m # n
      <4>1. QueueUsed(m)' = QueueUsed(m)
        BY <1>13, <3>2, <3>5, QueueUsersNext
      <4>2. vb2[m] = vb[m]
        BY <3>1, <3>3, <3>5
      <4> HIDE DEF vb2
      <4> QED BY <1>1, <3>1, <4>1, <4>2, QueueSettledStays
    <3> QED BY <3>4, <3>5
  <2>6. /\ e \in [QueueNodes -> Nat] /\ emptyAt' \subseteq alive'
        /\ \A m \in QueueNodes : m \in emptyAt' <=> e[m] # 0
    BY <1>1, <1>2 DEF QueueCounts
  <2> HIDE DEF vb2
  <2> QED BY <1>1, <2>3, <2>4, <2>5, <2>6 DEF QueueCounts
<1>17. QueueApart(b)'
  <2>1. QueueLinked(b) \subseteq QueueNodes
    BY QueueFacts
  <2>2. \A u \in Threads : me'[u].val = me[u].val
    BY <1>5, <1>6
  <2> QED BY <1>1, <1>2, <1>11, <2>1, <2>2, QueueApartStays
<1>18. (empties + Cardinality(QueueLooking) <= pops)'
  <2>1. t \in QueueLooking' => t \in QueueLooking
    BY <1>1, <1>6 DEF QueueLooking
  <2> QED BY <1>1, <1>2, <1>6, <2>1, QueueEmptiesStay DEF QueueTypes
<1>19. QueueFifo(b, b)
  BY <1>1, QueueFacts, QueueFifoStays
<1> HIDE DEF vb2
<1>20. QueueInv(b, A, va, B, vb2, e)'
  BY <1>9, <1>11, <1>12, <1>14, <1>15, <1>16, <1>17, <1>18 DEF QueueInv
<1> QED BY <1>19, <1>20 DEF QueueKeeps

(* A pop finds the head changed when it counts itself.                       *)
LEMMA QueueCountHeadRetry ==
  ASSUME NEW b, NEW A, NEW va, NEW B, NEW vb, NEW e, QueueInv(b, A, va, B, vb, e),
         NEW t \in Threads, Queue!CountHead(t), head # me[t].old
  PROVE  QueueKeeps(b)
<1>1. /\ me[t].pc = "countHead"
      /\ me' = [me EXCEPT ![t].pc = me[t].pc, ![t].old = head, ![t].cur = head.ptr]
      /\ UNCHANGED << head, tail, node, alive, out, lost, empties, emptyAt, pops >>
  BY DEF Queue!CountHead, Queue!Counts, Queue!At, Queue!history
<1>2. /\ QueueTypes /\ me[t] \in QueueLocals /\ QueueLocal(t) /\ QueueSeen(t, b)
      /\ empties + Cardinality(QueueLooking) <= pops
  BY QueueUsing DEF QueueInv
<1>3. PICK o, q, s, w, x :
        /\ o = head /\ q = head.ptr /\ s = me[t].to
        /\ w = me[t].mine /\ x = me[t].val
        /\ QueueBecomes(t, "countHead", o, q, s, w, x)
  <2>1. /\ me \in [Threads -> QueueLocals] /\ me[t].pc \in QueuePlaces
        /\ head \in Queue!Counted /\ head.ptr \in QueueNodes \cup {Null}
    BY <1>1, <1>2 DEF QueueTypes, QueuePlaces, Queue!Touching, Queue!Counted, QueueNodes
  <2>2. QueueBecomes(t, me[t].pc, head, head.ptr, me[t].to, me[t].mine, me[t].val)
    BY <1>1, <2>1, QueueMovesPcOldCur
  <2> QED BY <1>1, <2>2
<1>4. /\ me'[t].pc = "countHead" /\ me'[t].old = o /\ me'[t].cur = q /\ me'[t].to = s
      /\ me'[t].mine = w /\ me'[t].val = x /\ \A u \in Threads \ {t} : me'[u] = me[u]
  BY <1>3 DEF QueueBecomes
<1>5. QueueOthersStay(t) /\ QueueIsNow(t, "countHead", o, q, s, w)
  BY <1>3, QueueOthers
<1>6. QueueLocal(t)'
  BY <1>1, <1>2, <1>3, <1>4 DEF QueueLocal, Queue!Touching
<1>7. QueueUses(t)' = QueueUses(t)
  BY <1>1, <1>3, <1>5 DEF QueueIsNow, QueueUses, Queue!Touching
<1>8. QueueSeen(t, b)'
  BY <1>1, <1>2, <1>3, <1>4, <1>7 DEF QueueSeen, QueueLinked, QueueAfter
<1>9. HeadWon[t] = {} /\ HeadWon'[t] = {} /\ TailWon[t] = {} /\ TailWon'[t] = {}
  BY <1>1, <1>3, <1>5 DEF HeadWon, TailWon, QueueIsNow
<1>10. (empties + Cardinality(QueueLooking) <= pops)'
  <2>1. t \in QueueLooking' => t \in QueueLooking
    BY <1>1, <1>4 DEF QueueLooking
  <2> QED BY <1>1, <1>2, <1>4, <2>1, QueueEmptiesStay DEF QueueTypes
<1>11. pops' \in 0..(MaxPops - 1)
  BY <1>1, <1>2 DEF QueueTypes
<1>12. QueueInv(b, A, va, B, vb, e)' /\ QueueFifo(b, b)
  BY <1>1, <1>3, <1>6, <1>7, <1>8, <1>9, <1>10, <1>11, QueueQuiet
<1> QED BY <1>12 DEF QueueKeeps

(* A pop counts itself in the head.                                          *)
LEMMA QueueCountHead ==
  ASSUME NEW b, NEW A, NEW va, NEW B, NEW vb, NEW e, QueueInv(b, A, va, B, vb, e),
         NEW t \in Threads, Queue!CountHead(t), head = me[t].old
  PROVE  QueueKeeps(b)
<1>1. /\ me[t].pc = "countHead" /\ head.count < MaxCount
      /\ head' = [head EXCEPT !.count = @ + 1]
      /\ me' = [me EXCEPT ![t].pc = "look", ![t].old = [head EXCEPT !.count = @ + 1],
                          ![t].cur = head.ptr]
      /\ UNCHANGED << tail, node, alive, out, lost, empties, emptyAt, pops >>
  BY DEF Queue!CountHead, Queue!Counts, Queue!Increased, Queue!At, Queue!history
<1>2. /\ QueueTypes /\ (\A u \in Threads : QueueLocal(u) /\ QueueSeen(u, b))
      /\ QueueList(b) /\ QueueAlive(b) /\ QueueCounts(b, A, va, B, vb, e) /\ QueueApart(b)
      /\ empties + Cardinality(QueueLooking) <= pops
  BY DEF QueueInv
<1>3. PICK k, n : k = [head EXCEPT !.count = @ + 1] /\ n = head.ptr
  OBVIOUS
<1>4. /\ k \in Queue!Counted /\ k.ptr = n /\ k.count = head.count + 1 /\ head.count \in Nat
      /\ n \in QueueNodes /\ n \in alive /\ n \in QueueLinked(b)
  <2>1. head \in Queue!Counted /\ MaxCount \in Nat
    BY <1>2 DEF QueueTypes
  <2>2. n \in QueueLinked(b) /\ n \in alive /\ n \in QueueNodes
    BY <1>3, QueueFacts
  <2>3. k \in Queue!Counted /\ k.ptr = n /\ k.count = head.count + 1 /\ head.count \in Nat
    BY <1>1, <1>3, <2>1 DEF Queue!Counted
  <2> QED BY <2>2, <2>3
<1>5. PICK s, w, x :
        /\ s = me[t].to /\ w = me[t].mine /\ x = me[t].val
        /\ QueueBecomes(t, "look", k, n, s, w, x)
  <2>1. me \in [Threads -> QueueLocals] /\ "look" \in QueuePlaces
    BY <1>2 DEF QueueTypes, QueuePlaces, Queue!Touching
  <2>2. me' = [me EXCEPT ![t].pc = "look", ![t].old = k, ![t].cur = n]
    BY <1>1, <1>3
  <2> QED BY <1>4, <2>1, <2>2, QueueMovesPcOldCur
<1>6. /\ me'[t].pc = "look" /\ me'[t].old = k /\ me'[t].cur = n /\ me'[t].to = s
      /\ me'[t].mine = w /\ me'[t].val = x /\ \A u \in Threads \ {t} : me'[u] = me[u]
      /\ me' \in [Threads -> QueueLocals]
  BY <1>5 DEF QueueBecomes
<1>7. QueueOthersStay(t) /\ QueueIsNow(t, "look", k, n, s, w)
  BY <1>5, QueueOthers
<1>8. head' = k /\ head'.ptr = head.ptr
  BY <1>1, <1>3, <1>4
<1>9. QueueTypes'
  BY <1>1, <1>2, <1>4, <1>6, <1>8 DEF QueueTypes
<1>10. QueueSpare' = QueueSpare /\ \A u \in Threads : QueueMine(u)' = QueueMine(u)
  <2>1. QueueMine(t)' = QueueMine(t)
    BY <1>5, <1>7 DEF QueueMine, QueueIsNow
  <2>2. \A u \in Threads : QueueMine(u)' = QueueMine(u)
    BY <1>7, <2>1 DEF QueueOthersStay
  <2> QED BY <1>2, <2>1, <2>2, QueueSpareNext DEF QueueAlive
<1>11. QueueList(b)' /\ QueueAfter' = QueueAfter /\ QueueLinked(b)' = QueueLinked(b)
  <2>1. QueueLinked(b) \subseteq QueueNodes
    BY QueueFacts
  <2>2. \A m \in QueueAfter \cup QueueSpare' : node'[m] = Queue!NewNode
    BY <1>1, <1>2, <1>10 DEF QueueList
  <2> QED BY <1>1, <1>2, <1>8, <2>1, <2>2, QueueListStays
<1>12. QueueAlive(b)'
  <2>1. /\ QueueLinked(b) \subseteq alive' /\ QueueSpare' \subseteq alive'
        /\ QueueSpare' \cap QueueLinked(b) = {}
        /\ \A u \in Threads : \A y \in Threads \ {u} : QueueMine(u)' \cap QueueMine(y)' = {}
    BY <1>1, <1>2, <1>10 DEF QueueAlive
  <2> QED BY <1>1, <1>2, <1>8, <1>10, <1>11, <2>1, QueueAliveStays
<1>13. QueueUses(t) = {} /\ QueueUses(t)' = {n}
  BY <1>1, <1>7 DEF QueueUses, QueueIsNow, Queue!Touching
<1>14. \A u \in Threads : QueueLocal(u)'
  <2>1. QueueLocal(t)'
    BY <1>1, <1>2, <1>4, <1>5, <1>6 DEF QueueLocal, Queue!Touching
  <2> QED BY <1>2, <1>7, <2>1 DEF QueueOthersStay
<1>15. \A u \in Threads : QueueSeen(u, b)'
  <2>1. QueueSeen(t, b)'
    BY <1>1, <1>4, <1>6, <1>8, <1>13 DEF QueueSeen
  <2>2. ASSUME NEW u \in Threads \ {t} PROVE QueueSeen(u, b)'
    <3>1. QueueUses(u) \subseteq alive
      BY <1>2 DEF QueueSeen
    <3> QED BY <1>1, <1>2, <1>6, <1>8, <1>11, <3>1, QueueSeenStays
  <2> QED BY <2>1, <2>2
<1> DEFINE va2 == [va EXCEPT ![n] = @ + 1]
<1>16. QueueCounts(b, A, va2, B, vb, e)'
  <2>1. SameWon(HeadWon, HeadWon', QueueRead, QueueRead')
    BY <1>1, <1>7 DEF SameWon, QueueOthersStay, QueueIsNow, HeadWon
  <2>2. SameWon(TailWon, TailWon', QueueRead, QueueRead')
    BY <1>1, <1>7 DEF SameWon, QueueOthersStay, QueueIsNow, TailWon
  <2>3. QueueSide(A, va2, head', (QueueLinked(b) \cup QueueSpare)', HeadWon', QueueRead')
    <3> DEFINE P == QueueLinked(b) \cup QueueSpare
    <3>1. QueueSide(A, va, head, P, HeadWon, QueueRead)
      BY <1>2 DEF QueueCounts
    <3>2. P' = P /\ head'.ptr = head.ptr
      BY <1>8, <1>10, <1>11
    <3> HIDE DEF P
    <3>3. QueueSide(A, [va EXCEPT ![head.ptr] = @ + 1], k, P, HeadWon', QueueRead')
      BY <1>3, <1>4, <2>1, <3>1, SideCounts
    <3>4. QueueSide(A, va2, head', P', HeadWon', QueueRead')
      BY <1>3, <1>8, <3>2, <3>3
    <3> QED BY <3>4 DEF P
  <2>4. QueueSide(B, vb, tail', ({tail.ptr} \cup QueueAfter \cup QueueSpare)',
                  TailWon', QueueRead')
    BY <1>1, <1>2, <1>10, <1>11, <2>2, SideStays DEF QueueCounts
  <2>5. ASSUME NEW m \in alive PROVE QueueSettled(m, A, va2, B, vb, e)'
    <3>1. QueueSettled(m, A, va, B, vb, e) /\ m \in QueueNodes
      BY <1>2, QueueFacts DEF QueueCounts
    <3>2. \A u \in Threads \ {t} : QueueUses(u)' = QueueUses(u)
      BY <1>7 DEF QueueOthersStay
    <3>3. va \in [QueueNodes -> Nat]
      BY <1>2 DEF QueueCounts, QueueSide
    <3>4. CASE m = n
      <4>1. QueueUsed(m)' = QueueUsed(m) + 1
        BY <1>13, <3>2, <3>4, QueueUsersNext
      <4>2. va2[m] = va[m] + 1
        BY <3>1, <3>3, <3>4
      <4>3. /\ va[m] \in Nat /\ vb[m] \in Nat /\ e[m] \in Nat /\ QueueUsed(m) \in Nat
            /\ node[m].internal \in Int
        <5>1. /\ va[m] \in Nat /\ vb[m] \in Nat /\ e[m] \in Nat
          BY <1>2, <3>1 DEF QueueCounts, QueueSide
        <5>2. node[m] \in QueueFields
          BY <1>2, <3>1 DEF QueueTypes
        <5> QED BY <5>1, <5>2, QueueUsers DEF QueueFields
      <4>4. node[m].internal + va[m] + vb[m] = QueueUsed(m) + e[m]
        BY <3>1 DEF QueueSettled
      <4>5. node'[m].internal + va2[m] + vb[m] = QueueUsed(m)' + e[m]
        <5> HIDE DEF va2
        <5> QED BY <1>1, <4>1, <4>2, <4>3, <4>4
      <4> HIDE DEF va2
      <4> QED BY <1>1, <3>1, <4>5 DEF QueueSettled, InPlace
    <3>5. CASE m # n
      <4>1. QueueUsed(m)' = QueueUsed(m)
        BY <1>13, <3>2, <3>5, QueueUsersNext
      <4>2. va2[m] = va[m]
        BY <3>1, <3>3, <3>5
      <4> HIDE DEF va2
      <4> QED BY <1>1, <3>1, <4>1, <4>2, QueueSettledStays
    <3> QED BY <3>4, <3>5
  <2>6. /\ e \in [QueueNodes -> Nat] /\ emptyAt' \subseteq alive'
        /\ \A m \in QueueNodes : m \in emptyAt' <=> e[m] # 0
    BY <1>1, <1>2 DEF QueueCounts
  <2> HIDE DEF va2
  <2> QED BY <1>1, <2>3, <2>4, <2>5, <2>6 DEF QueueCounts
<1>17. QueueApart(b)'
  <2>1. QueueLinked(b) \subseteq QueueNodes
    BY QueueFacts
  <2>2. \A u \in Threads : me'[u].val = me[u].val
    BY <1>5, <1>6
  <2> QED BY <1>1, <1>2, <1>11, <2>1, <2>2, QueueApartStays
<1>18. (empties + Cardinality(QueueLooking) <= pops)'
  <2>1. t \in QueueLooking' => t \in QueueLooking
    BY <1>1, <1>6 DEF QueueLooking
  <2> QED BY <1>1, <1>2, <1>6, <2>1, QueueEmptiesStay DEF QueueTypes
<1>19. QueueFifo(b, b)
  BY <1>1, QueueFacts, QueueFifoStays
<1> HIDE DEF va2
<1>20. QueueInv(b, A, va2, B, vb, e)'
  BY <1>9, <1>11, <1>12, <1>14, <1>15, <1>16, <1>17, <1>18 DEF QueueInv
<1> QED BY <1>19, <1>20 DEF QueueKeeps

-----------------------------------------------------------------------------
(* The list and the path that LockFreeQueue follows. *)

(* The nodes from h on, as LockFreeQueue defines them.                      *)
QueueFrom(h, nd, K) ==
  CHOOSE q : q = [k \in 0..K |-> IF k = 0 THEN h
                              ELSE IF q[k - 1] = Null THEN Null ELSE nd[q[k - 1]].next.ptr]

(* They follow the links.                                                   *)
LEMMA QueueUnfolds ==
  ASSUME NEW nd \in [QueueNodes -> QueueFields], NEW h \in QueueNodes, NEW K \in Nat,
         NEW p, p = QueueFrom(h, nd, K), NEW nx, nx = [n \in QueueNodes |-> nd[n].next.ptr]
  PROVE  Follows(Null, h, nx, K, p) /\ DOMAIN p = 0..K
<1> DEFINE D == QueueNodes \cup {Null}
           st == [m \in D |-> IF m = Null THEN Null ELSE nx[m]]
           Is(q) == q = [k \in 0..K |-> IF k = 0 THEN h
                              ELSE IF q[k - 1] = Null THEN Null ELSE nd[q[k - 1]].next.ptr]
<1>1. nx \in [QueueNodes -> D]
  <2> SUFFICES ASSUME NEW n \in QueueNodes PROVE nd[n].next.ptr \in D
    OBVIOUS
  <2>1. nd[n] \in QueueFields
    OBVIOUS
  <2> QED BY <2>1 DEF QueueFields, Queue!Counted, QueueNodes
<1>2. st \in [D -> D]
  BY <1>1
<1>3. PICK q \in [0..K -> D] : q[0] = h /\ \A k \in 1..K : q[k] = st[q[k - 1]]
  <2>1. h \in D
    OBVIOUS
  <2> HIDE DEF D, st, Is
  <2>2. \E q : Repeats(D, st, h, K, q)
    BY <1>2, <2>1, Iterates
  <2> QED BY <2>2 DEF Repeats
<1>4. Is(q)
  <2>1. \A k \in 0..K : q[k] = IF k = 0 THEN h
                              ELSE IF q[k - 1] = Null THEN Null ELSE nd[q[k - 1]].next.ptr
    <3> SUFFICES ASSUME NEW k \in 0..K, k # 0
                 PROVE  q[k] = IF q[k - 1] = Null THEN Null ELSE nd[q[k - 1]].next.ptr
      BY <1>3
    <3>1. k \in 1..K /\ k - 1 \in 0..K
      OBVIOUS
    <3>2. q[k - 1] \in D /\ q[k] = st[q[k - 1]]
      BY <1>3, <3>1
    <3> QED BY <3>2
  <2> HIDE DEF D
  <2>2. q = [k \in 0..K |-> q[k]]
    BY <1>3
  <2>3. Is([k \in 0..K |-> q[k]])
    BY <2>1, <2>2
  <2> QED BY <2>2, <2>3
<1>5. p = CHOOSE r : Is(r)
  BY DEF QueueFrom
<1>6. Is(p)
  <2> HIDE DEF Is
  <2> QED BY <1>4, <1>5
<1>7. /\ p[0] = h
      /\ \A k \in 1..K : p[k] = IF p[k - 1] = Null THEN Null ELSE nd[p[k - 1]].next.ptr
  <2>1. p = [k \in 0..K |-> IF k = 0 THEN h
                              ELSE IF p[k - 1] = Null THEN Null ELSE nd[p[k - 1]].next.ptr]
    BY <1>6
  <2>2. p[0] = h
    BY <2>1
  <2>3. \A k \in 1..K : p[k] = IF p[k - 1] = Null THEN Null ELSE nd[p[k - 1]].next.ptr
    <3> SUFFICES ASSUME NEW k \in 1..K
                 PROVE  p[k] = IF p[k - 1] = Null THEN Null ELSE nd[p[k - 1]].next.ptr
      OBVIOUS
    <3>1. k \in 0..K /\ k # 0
      OBVIOUS
    <3> QED BY <2>1, <3>1
  <2> QED BY <2>2, <2>3
<1>8. \A k \in 0..K : p[k] = q[k]
  <2> DEFINE Bad == { k \in 0..K : p[k] # q[k] }
  <2> SUFFICES ASSUME Bad # {} PROVE FALSE
    OBVIOUS
  <2>1. Bad \in SUBSET Nat
    OBVIOUS
  <2>2. PICK k \in Bad : \A j \in Bad : k <= j
    <3> HIDE DEF Bad
    <3> QED BY <2>1, LeastExists
  <2>3. k # 0
    BY <1>3, <1>7, <2>2
  <2>4. k \in 1..K /\ k - 1 \in 0..K /\ k - 1 \notin Bad
    BY <2>2, <2>3
  <2>5. p[k - 1] = q[k - 1] /\ q[k - 1] \in D /\ q[k] = st[q[k - 1]]
    BY <1>3, <2>4
  <2> QED BY <1>7, <2>2, <2>4, <2>5
<1>9. \A k \in 1..K : p[k] = IF p[k - 1] = Null THEN Null ELSE nx[p[k - 1]]
  <2> SUFFICES ASSUME NEW k \in 1..K
               PROVE  p[k] = IF p[k - 1] = Null THEN Null ELSE nx[p[k - 1]]
    OBVIOUS
  <2>1. k \in 0..K /\ k - 1 \in 0..K
    OBVIOUS
  <2>2. q[k - 1] \in D /\ q[k] = st[q[k - 1]]
    BY <1>3, <2>1
  <2>3. p[k] = q[k] /\ p[k - 1] = q[k - 1]
    BY <1>8, <2>1
  <2> QED BY <2>2, <2>3
<1>10. DOMAIN p = 0..K
  <2>1. p = [k \in 0..K |-> IF k = 0 THEN h
                              ELSE IF p[k - 1] = Null THEN Null ELSE nd[p[k - 1]].next.ptr]
    BY <1>6
  <2> QED BY <2>1
<1> HIDE DEF D, st, Is
<1> QED BY <1>7, <1>9, <1>10 DEF Follows

(* Who follows the links from h passes the nodes of b, z, and the one after *)
(* z, and stops.                                                            *)
QueueWhole(p, b, z, after) ==
  LET K == Cardinality(QueueNodes) IN
  /\ { p[k] : k \in 0..K } \ {Null} = Members(b) \cup {z} \cup after
  /\ Cardinality({ k \in 0..K : \A i \in 0..k : p[i] \notin {z, Null} }) = Len(b)
  /\ \A k \in 1..Len(b) : k - 1 \in 0..K /\ p[k - 1] = b[k]

(* The nodes from head that the path passes before it comes to the tail.    *)
LEMMA QueuePasses ==
  ASSUME NEW nx \in [QueueNodes -> QueueNodes \cup {Null}], NEW h, NEW z \in QueueNodes, NEW b,
         ListFrom(QueueNodes, z, h, nx, b), z \notin Members(b),
         nx[z] = Null \/ (nx[z] \notin Members(b) \cup {z} /\ nx[nx[z]] = Null),
         NEW p, Follows(Null, h, nx, Cardinality(QueueNodes), p)
  PROVE  QueueWhole(p, b, z, {nx[z]} \ {Null})
<1> DEFINE K == Cardinality(QueueNodes)
           d == Append(b, z)
<1>1. /\ Null \notin QueueNodes /\ IsFiniteSet(QueueNodes) /\ K \in Nat
  <2>1. Null \notin QueueNodes /\ IsFiniteSet(QueueNodes)
    BY FS_AddElement DEF QueueNodes
  <2> QED BY <2>1, FS_CardinalityType
<1>2. ListFrom(QueueNodes, nx[z], h, nx, d) /\ Members(d) = Members(b) \cup {z}
  BY ListAppend
<1>3. /\ b \in Seq(QueueNodes) /\ Len(b) \in Nat /\ \A i \in 1..Len(b) : b[i] \in QueueNodes
      /\ Len(d) = Len(b) + 1 /\ d[Len(b) + 1] = z /\ \A i \in 1..Len(b) : d[i] = b[i]
  <2>1. b \in Seq(QueueNodes)
    BY DEF ListFrom
  <2> QED BY <2>1, AppendProperties
<1> HIDE DEF d, K
<1>4. PICK c :
        /\ ListFrom(QueueNodes, Null, h, nx, c)
        /\ Members(c) = Members(b) \cup {z} \cup ({nx[z]} \ {Null})
        /\ Len(c) \in Nat /\ Len(c) >= Len(b) + 1
        /\ c[Len(b) + 1] = z /\ \A i \in 1..Len(b) : c[i] = b[i]
  <2>1. CASE nx[z] = Null
    <3>1. ListFrom(QueueNodes, Null, h, nx, d) /\ Members(d) = Members(b) \cup {z} \cup ({nx[z]} \ {Null})
      BY <1>2, <2>1
    <3> QED BY <1>3, <3>1
  <2>2. CASE nx[z] # Null
    <3>1. nx[z] \in QueueNodes /\ nx[z] \notin Members(d) /\ nx[nx[z]] = Null
      BY <1>2, <2>2
    <3> DEFINE c == Append(d, nx[z])
    <3>2. ListFrom(QueueNodes, Null, h, nx, c) /\ Members(c) = Members(d) \cup {nx[z]}
      BY <1>2, <3>1, ListAppend
    <3>3. d \in Seq(QueueNodes) /\ Len(d) \in Nat
      BY <1>2 DEF ListFrom
    <3>4. Len(c) = Len(d) + 1 /\ \A i \in 1..Len(d) : c[i] = d[i]
      BY <3>1, <3>3, AppendProperties
    <3> HIDE DEF c
    <3>5. Members(c) = Members(b) \cup {z} \cup ({nx[z]} \ {Null})
      BY <1>2, <2>2, <3>2
    <3>6. c[Len(b) + 1] = z /\ \A i \in 1..Len(b) : c[i] = b[i]
      <4>1. Len(b) + 1 \in 1..Len(d) /\ \A i \in 1..Len(b) : i \in 1..Len(d)
        BY <1>3
      <4> QED BY <1>3, <3>4, <4>1
    <3>7. Len(c) \in Nat /\ Len(c) >= Len(b) + 1
      BY <1>3, <3>3, <3>4
    <3>8. ListFrom(QueueNodes, Null, h, nx, c)
      BY <3>2
    <3> QED BY <3>5, <3>6, <3>7, <3>8
  <2> QED BY <2>1, <2>2
<1>5. Passes(Null, c, K, p)
  BY <1>1, <1>4, ListPath DEF K
<1>6. Len(c) <= K /\ c \in Seq(QueueNodes)
  <2>1. c \in Seq(QueueNodes) /\ \A i, j \in 1..Len(c) : c[i] = c[j] => i = j
    BY <1>4 DEF ListFrom
  <2> QED BY <1>1, <2>1, ListFits DEF K
<1>7. \A k \in 0..K : p[k] = IF k < Len(c) THEN c[k + 1] ELSE Null
  BY <1>5 DEF Passes
<1>8. { p[k] : k \in 0..K } \ {Null} = Members(c)
  <2>1. ASSUME NEW k \in 0..K, p[k] # Null PROVE p[k] \in Members(c)
    <3>1. k + 1 \in 1..Len(c) /\ p[k] = c[k + 1]
      BY <1>1, <1>4, <1>7, <2>1
    <3> QED BY <3>1 DEF Members
  <2>2. ASSUME NEW k \in 1..Len(c) PROVE c[k] \in { p[j] : j \in 0..K } \ {Null}
    <3>1. k - 1 \in 0..K /\ k - 1 < Len(c) /\ (k - 1) + 1 = k
      BY <1>1, <1>4, <1>6
    <3>2. p[k - 1] = c[k] /\ c[k] \in QueueNodes
      BY <1>6, <1>7, <3>1
    <3> QED BY <1>1, <3>1, <3>2
  <2> QED BY <2>1, <2>2 DEF Members
<1>9. \A k \in 1..Len(b) : k - 1 \in 0..K /\ p[k - 1] = b[k]
  <2> SUFFICES ASSUME NEW k \in 1..Len(b) PROVE k - 1 \in 0..K /\ p[k - 1] = b[k]
    OBVIOUS
  <2>1. k - 1 \in 0..K /\ k - 1 < Len(c) /\ (k - 1) + 1 = k
    BY <1>1, <1>3, <1>4, <1>6
  <2> QED BY <1>4, <1>7, <2>1
<1>10. p[Len(b)] = z /\ Len(b) \in 0..K
  <2>1. Len(b) \in 0..K /\ Len(b) < Len(c)
    BY <1>1, <1>3, <1>4, <1>6
  <2> QED BY <1>4, <1>7, <2>1
<1>11. { k \in 0..K : \A i \in 0..k : p[i] \notin {z, Null} } = 0..(Len(b) - 1)
  <2>1. ASSUME NEW k \in 0..K, \A i \in 0..k : p[i] \notin {z, Null} PROVE k \in 0..(Len(b) - 1)
    <3>1. ~(Len(b) \in 0..k)
      BY <1>10, <2>1
    <3> QED BY <1>1, <1>3, <3>1
  <2>2. ASSUME NEW k \in 0..(Len(b) - 1), NEW i \in 0..k PROVE k \in 0..K /\ p[i] \notin {z, Null}
    <3>1. i + 1 \in 1..Len(b) /\ (i + 1) - 1 = i /\ k \in 0..K
      BY <1>1, <1>3, <1>10
    <3>2. p[i] = b[i + 1] /\ b[i + 1] \in QueueNodes /\ b[i + 1] \in Members(b)
      BY <1>3, <1>9, <3>1 DEF Members
    <3> QED BY <1>1, <3>1, <3>2
  <2> QED BY <2>1, <2>2
<1>12. Cardinality(0..(Len(b) - 1)) = Len(b)
  <2>1. 0 \in Int /\ Len(b) - 1 \in Int
    BY <1>3
  <2>2. Cardinality(0..(Len(b) - 1)) = IF 0 > Len(b) - 1 THEN 0 ELSE Len(b) - 1 - 0 + 1
    BY <2>1, FS_Interval
  <2> QED BY <1>3, <2>2
<1> QED BY <1>4, <1>8, <1>9, <1>11, <1>12 DEF QueueWhole, K

(* What it passes is the list of the invariant: before the step, and after. *)
LEMMA QueuePath ==
  ASSUME NEW b, QueueTypes, QueueList(b), QueueAlive(b)
  PROVE  Queue!Linked = QueueLinked(b) /\ Queue!Queue = Along(QueueData, b)
<1> DEFINE K == Cardinality(QueueNodes)
           p == QueueFrom(head.ptr, node, K)
<1>1. Queue!Path = p
  BY DEF QueueFrom, Queue!Path, Queue!Cardinality, Cardinality, Queue!IsFiniteSet, IsFiniteSet,
    QueueNodes
<1> HIDE DEF p
<1>2. K \in Nat
  <2>1. IsFiniteSet(QueueNodes)
    BY FS_AddElement DEF QueueNodes
  <2> QED BY <2>1, FS_CardinalityType
<1> HIDE DEF K
<1>3. /\ QueueLinked(b) \subseteq QueueNodes /\ tail.ptr \in QueueNodes
      /\ node \in [QueueNodes -> QueueFields] /\ b \in Seq(QueueNodes)
      /\ QueueNext \in [QueueNodes -> QueueNodes \cup {Null}]
  <2>1. QueueLinked(b) \subseteq QueueNodes /\ tail.ptr \in QueueLinked(b)
    BY DEF QueueAlive, QueueTypes, QueueLinked
  <2>2. node \in [QueueNodes -> QueueFields] /\ b \in Seq(QueueNodes)
    BY DEF QueueTypes, QueueList, ListFrom
  <2>3. ASSUME NEW n \in QueueNodes PROVE node[n].next.ptr \in QueueNodes \cup {Null}
    <3>1. node[n] \in QueueFields
      BY <2>2
    <3> QED BY <3>1 DEF QueueFields, Queue!Counted, QueueNodes
  <2> QED BY <2>1, <2>2, <2>3 DEF QueueNext
<1>4. head.ptr \in QueueNodes
  <2>1. Len(b) \in Nat /\ head.ptr = IF Len(b) = 0 THEN tail.ptr ELSE b[1]
    BY <1>3 DEF QueueList, ListFrom
  <2> QED BY <1>3, <2>1
<1>5. Follows(Null, head.ptr, QueueNext, K, p) /\ DOMAIN p = 0..K
  BY <1>2, <1>3, <1>4, QueueUnfolds DEF p, QueueNext
<1>6. QueueWhole(p, b, tail.ptr, QueueAfter)
  <2>1. QueueNext[tail.ptr] = node[tail.ptr].next.ptr
    BY <1>3 DEF QueueNext
  <2>2. QueueAfter = {QueueNext[tail.ptr]} \ {Null}
    BY <2>1 DEF QueueAfter
  <2>3. CASE QueueNext[tail.ptr] = Null
    BY <1>3, <1>5, <2>2, <2>3, QueuePasses DEF QueueList, K
  <2>4. CASE QueueNext[tail.ptr] # Null
    <3>1. QueueNext[tail.ptr] \in QueueAfter /\ QueueNext[tail.ptr] \in QueueNodes
      BY <1>3, <2>2, <2>4
    <3>2. QueueNext[QueueNext[tail.ptr]] = Null
      BY <3>1 DEF QueueList, QueueNext, Queue!NewNode, Queue!None, Queue!CountedNodePtr
    <3>3. QueueNext[tail.ptr] \notin Members(b) \cup {tail.ptr}
      BY <3>1 DEF QueueList
    <3> QED BY <1>3, <1>5, <2>2, <3>2, <3>3, QueuePasses DEF QueueList, K
  <2> QED BY <2>3, <2>4
<1>7. Queue!Linked = QueueLinked(b)
  <2>1. Queue!Linked = { p[k] : k \in 0..K } \ {Null}
    BY <1>1, <1>5 DEF Queue!Linked
  <2> QED BY <1>6, <2>1 DEF QueueWhole, QueueLinked, K
<1>8. Queue!Queue = Along(QueueData, b)
  <2> DEFINE S == { k \in 0..K : \A i \in 0..k : p[i] \notin {tail.ptr, Null} }
  <2>1. Queue!Before = S
    BY <1>1, <1>5 DEF Queue!Before
  <2>2. Cardinality(S) = Len(b) /\ \A k \in 1..Len(b) : p[k - 1] = b[k]
    BY <1>6 DEF QueueWhole, K
  <2> HIDE DEF S
  <2>3. Queue!Queue = [k \in 1..Cardinality(S) |-> node[p[k - 1]].data]
    BY <1>1, <2>1 DEF Queue!Queue, Queue!Cardinality, Cardinality, Queue!IsFiniteSet, IsFiniteSet
  <2>4. \A k \in 1..Len(b) : node[p[k - 1]].data = QueueData[b[k]]
    BY <1>3, <2>2 DEF QueueData
  <2> QED BY <2>2, <2>3, <2>4 DEF Along
<1> QED BY <1>7, <1>8

(* The same of the next state.                                              *)
LEMMA QueuePaths ==
  (\A b : QueueTypes /\ QueueList(b) /\ QueueAlive(b)
     => Queue!Linked = QueueLinked(b) /\ Queue!Queue = Along(QueueData, b))'
<1> DEFINE F == \A b : QueueTypes /\ QueueList(b) /\ QueueAlive(b)
     => Queue!Linked = QueueLinked(b) /\ Queue!Queue = Along(QueueData, b)
<1>1. F
  BY QueuePath
<1> HIDE DEF F
<1>2. F'
  BY <1>1, PTL
<1> QED BY <1>2 DEF F

-----------------------------------------------------------------------------
(* The steps that change what a node holds, and those that return nothing. *)

(* What the counts of a node are.                                           *)
LEMMA QueueNumbers ==
  ASSUME NEW b, NEW A, NEW va, NEW B, NEW vb, NEW e, QueueInv(b, A, va, B, vb, e),
         NEW n \in QueueNodes
  PROVE  /\ va[n] \in Nat /\ vb[n] \in Nat /\ e[n] \in Nat /\ QueueUsed(n) \in Nat
         /\ node[n] \in QueueFields /\ node[n].internal \in Int /\ node[n].counters \in 0..2
         /\ node[n].next \in Queue!Counted /\ node[n].data \in Values \cup {Null}
<1>1. QueueTypes /\ QueueCounts(b, A, va, B, vb, e)
  BY DEF QueueInv
<1>2. va[n] \in Nat /\ vb[n] \in Nat /\ e[n] \in Nat
  BY <1>1 DEF QueueCounts, QueueSide
<1>3. node[n] \in QueueFields
  BY <1>1 DEF QueueTypes
<1> QED BY <1>2, <1>3, QueueUsers DEF QueueFields

(* A thread with no call in progress has nothing.                           *)
LEMMA QueueIdleIs ==
  /\ Queue!Idle \in QueueLocals
  /\ Queue!Idle.pc = "idle" /\ Queue!Idle.old = Queue!None /\ Queue!Idle.cur = Null
  /\ Queue!Idle.to = Queue!None /\ Queue!Idle.mine = Null /\ Queue!Idle.val = Null
  /\ Queue!None \in Queue!Counted /\ Queue!None.count = 0 /\ Queue!None.ptr = Null
<1>1. Queue!None \in Queue!Counted /\ Queue!None.count = 0 /\ Queue!None.ptr = Null
  BY DEF Queue!None, Queue!CountedNodePtr, Queue!Counted
<1> QED BY <1>1 DEF Queue!Idle, QueueLocals, QueuePlaces

(* A node's counts stay together when what is counted grows by as much as   *)
(* the threads and pops that it is for.                                     *)
LEMMA QueueSettledMoves ==
  ASSUME NEW b, NEW A, NEW va, NEW B, NEW vb, NEW e, QueueInv(b, A, va, B, vb, e),
         NEW n \in alive, NEW A2, NEW va2, NEW B2, NEW vb2, NEW e2,
         NEW i \in Int, NEW j \in Int, NEW k \in Int, NEW u \in Int,
         node'[n].internal = node[n].internal + i, va2[n] = va[n] + j, vb2[n] = vb[n] + k,
         QueueUsed(n)' + e2[n] = QueueUsed(n) + e[n] + u, i + j + k = u,
         node'[n].counters = InPlace(A2, n) + InPlace(B2, n),
         node'[n].internal # 0 \/ node'[n].counters # 0
  PROVE  QueueSettled(n, A2, va2, B2, vb2, e2)'
<1>1. /\ va[n] \in Nat /\ vb[n] \in Nat /\ e[n] \in Nat /\ QueueUsed(n) \in Nat
      /\ node[n].internal \in Int
  BY QueueFacts, QueueNumbers
<1>2. node[n].internal + va[n] + vb[n] = QueueUsed(n) + e[n]
  BY DEF QueueInv, QueueCounts, QueueSettled
<1>3. node'[n].internal + va2[n] + vb2[n] = QueueUsed(n)' + e2[n]
  BY <1>1, <1>2
<1>4. InPlace(A2, n)' = InPlace(A2, n) /\ InPlace(B2, n)' = InPlace(B2, n)
  OBVIOUS
<1> QED BY <1>3, <1>4 DEF QueueSettled

(* A pop returns nothing, and keeps its reference.                          *)
LEMMA QueuePopEmpty ==
  ASSUME NEW b, NEW A, NEW va, NEW B, NEW vb, NEW e, QueueInv(b, A, va, B, vb, e),
         NEW t \in Threads, Queue!PopEmpty(t)
  PROVE  QueueKeeps(b)
<1>1. /\ me[t].pc = "look" /\ me[t].cur = tail.ptr
      /\ empties' = empties + 1 /\ emptyAt' = emptyAt \cup {me[t].cur}
      /\ me' = [me EXCEPT ![t] = Queue!Idle]
      /\ UNCHANGED << head, tail, node, alive, out, lost, pops >>
  BY DEF Queue!PopEmpty, Queue!IsEmpty, Queue!At
<1>2. /\ QueueTypes /\ (\A u \in Threads : QueueLocal(u) /\ QueueSeen(u, b))
      /\ QueueList(b) /\ QueueAlive(b) /\ QueueCounts(b, A, va, B, vb, e) /\ QueueApart(b)
      /\ empties + Cardinality(QueueLooking) <= pops
  BY DEF QueueInv
<1>3. PICK n : n = tail.ptr /\ n \in QueueLinked(b) /\ n \in alive /\ n \in QueueNodes
  BY QueueFacts
<1>4. me[t].to = Queue!None /\ me[t].mine = Null /\ QueueUses(t) = {n} /\ n = head.ptr
  BY <1>1, <1>2, <1>3 DEF QueueLocal, QueueSeen, QueueUses, Queue!Touching
<1>5. b = << >>
  <2>1. /\ b \in Seq(QueueNodes) /\ Len(b) \in Nat
        /\ head.ptr = IF Len(b) = 0 THEN tail.ptr ELSE b[1]
    BY <1>2 DEF QueueList, ListFrom
  <2>2. CASE Len(b) # 0
    <3>1. 1 \in 1..Len(b)
      BY <2>1, <2>2
    <3>2. b[1] \in Members(b)
      BY <3>1 DEF Members
    <3> QED BY <1>2, <1>3, <1>4, <2>1, <2>2, <3>2 DEF QueueList
  <2>3. CASE Len(b) = 0
    BY <2>1, <2>3, EmptySeq
  <2> QED BY <2>2, <2>3
<1>6. PICK p, o, q, s, w, x :
        /\ p = "idle" /\ o = Queue!None /\ q = Null /\ s = Queue!None /\ w = Null /\ x = Null
        /\ QueueBecomes(t, p, o, q, s, w, x)
  <2>1. me \in [Threads -> QueueLocals]
    BY <1>2 DEF QueueTypes
  <2> QED BY <1>1, <2>1, QueueMoves, QueueIdleIs
<1>7. /\ me'[t].pc = p /\ me'[t].old = o /\ me'[t].cur = q /\ me'[t].to = s
      /\ me'[t].mine = w /\ me'[t].val = x /\ \A u \in Threads \ {t} : me'[u] = me[u]
      /\ me' \in [Threads -> QueueLocals]
  BY <1>6 DEF QueueBecomes
<1>8. QueueOthersStay(t) /\ QueueIsNow(t, p, o, q, s, w)
  BY <1>6, QueueOthers
<1>9. QueueTypes'
  BY <1>1, <1>2, <1>3, <1>7 DEF QueueTypes
<1>10. QueueSpare' = QueueSpare /\ \A u \in Threads : QueueMine(u)' = QueueMine(u)
  <2>1. QueueMine(t)' = QueueMine(t)
    BY <1>4, <1>6, <1>8 DEF QueueMine, QueueIsNow
  <2>2. \A u \in Threads : QueueMine(u)' = QueueMine(u)
    BY <1>8, <2>1 DEF QueueOthersStay
  <2> QED BY <1>2, <2>1, <2>2, QueueSpareNext DEF QueueAlive
<1>11. QueueList(b)' /\ QueueAfter' = QueueAfter /\ QueueLinked(b)' = QueueLinked(b)
  <2>1. QueueLinked(b) \subseteq QueueNodes
    BY QueueFacts
  <2>2. \A m \in QueueAfter \cup QueueSpare' : node'[m] = Queue!NewNode
    BY <1>1, <1>2, <1>10 DEF QueueList
  <2> QED BY <1>1, <1>2, <2>1, <2>2, QueueListStays
<1>12. QueueAlive(b)'
  <2>1. /\ QueueLinked(b) \subseteq alive' /\ QueueSpare' \subseteq alive'
        /\ QueueSpare' \cap QueueLinked(b) = {}
        /\ \A u \in Threads : \A y \in Threads \ {u} : QueueMine(u)' \cap QueueMine(y)' = {}
    BY <1>1, <1>2, <1>10 DEF QueueAlive
  <2> QED BY <1>1, <1>2, <1>10, <1>11, <2>1, QueueAliveStays
<1>13. QueueUses(t)' = {}
  BY <1>6, <1>8 DEF QueueIsNow, Queue!Touching
<1>14. \A u \in Threads : QueueLocal(u)'
  <2>1. QueueLocal(t)'
    BY <1>6, <1>7 DEF QueueLocal, Queue!Touching
  <2> QED BY <1>2, <1>8, <2>1 DEF QueueOthersStay
<1>15. \A u \in Threads : QueueSeen(u, b)'
  <2>1. QueueSeen(t, b)'
    BY <1>6, <1>7, <1>13 DEF QueueSeen
  <2>2. ASSUME NEW u \in Threads \ {t} PROVE QueueSeen(u, b)'
    <3>1. QueueUses(u) \subseteq alive
      BY <1>2 DEF QueueSeen
    <3> QED BY <1>1, <1>2, <1>7, <1>11, <3>1, QueueSeenStays
  <2> QED BY <2>1, <2>2
<1> DEFINE e2 == [e EXCEPT ![n] = @ + 1]
<1>16. QueueCounts(b, A, va, B, vb, e2)'
  <2>1. SameWon(HeadWon, HeadWon', QueueRead, QueueRead')
    BY <1>1, <1>6, <1>8 DEF SameWon, QueueOthersStay, QueueIsNow, HeadWon
  <2>2. SameWon(TailWon, TailWon', QueueRead, QueueRead')
    BY <1>1, <1>6, <1>8 DEF SameWon, QueueOthersStay, QueueIsNow, TailWon
  <2>3. QueueSide(A, va, head', (QueueLinked(b) \cup QueueSpare)', HeadWon', QueueRead')
    BY <1>1, <1>2, <1>10, <1>11, <2>1, SideStays DEF QueueCounts
  <2>4. QueueSide(B, vb, tail', ({tail.ptr} \cup QueueAfter \cup QueueSpare)',
                  TailWon', QueueRead')
    BY <1>1, <1>2, <1>10, <1>11, <2>2, SideStays DEF QueueCounts
  <2>5. e \in [QueueNodes -> Nat]
    BY <1>2 DEF QueueCounts
  <2>6. ASSUME NEW m \in alive PROVE QueueSettled(m, A, va, B, vb, e2)'
    <3>1. QueueSettled(m, A, va, B, vb, e) /\ m \in QueueNodes
      BY <1>2, QueueFacts DEF QueueCounts
    <3>2. \A u \in Threads \ {t} : QueueUses(u)' = QueueUses(u)
      BY <1>8 DEF QueueOthersStay
    <3>3. CASE m = n
      <4>1. QueueUsed(m)' = QueueUsed(m) - 1
        BY <1>4, <1>13, <3>2, <3>3, QueueUsersNext
      <4>2. e2[m] = e[m] + 1
        BY <2>5, <3>1, <3>3
      <4> HIDE DEF e2
      <4>3. QueueUsed(m)' + e2[m] = QueueUsed(m) + e[m] + 0
        BY <3>1, <4>1, <4>2, QueueNumbers
      <4>4. va[m] = va[m] + 0 /\ vb[m] = vb[m] + 0 /\ node'[m].internal = node[m].internal + 0
        BY <1>1, <3>1, QueueNumbers
      <4>5. /\ node'[m].counters = InPlace(A, m) + InPlace(B, m)
            /\ node'[m].internal # 0 \/ node'[m].counters # 0
        BY <1>1, <3>1 DEF QueueSettled
      <4> QED BY <4>3, <4>4, <4>5, QueueSettledMoves
    <3>4. CASE m # n
      <4>1. QueueUsed(m)' = QueueUsed(m)
        BY <1>4, <1>13, <3>2, <3>4, QueueUsersNext
      <4>2. e2[m] = e[m]
        BY <2>5, <3>1, <3>4
      <4> HIDE DEF e2
      <4> QED BY <1>1, <3>1, <4>1, <4>2, QueueSettledStays
    <3> QED BY <3>3, <3>4
  <2>7. /\ e2 \in [QueueNodes -> Nat] /\ emptyAt' \subseteq alive'
        /\ \A m \in QueueNodes : m \in emptyAt' <=> e2[m] # 0
    <3>1. emptyAt \subseteq alive /\ \A m \in QueueNodes : m \in emptyAt <=> e[m] # 0
      BY <1>2 DEF QueueCounts
    <3>2. e2[n] # 0 /\ e2 \in [QueueNodes -> Nat]
      BY <1>3, <2>5
    <3>3. \A m \in QueueNodes \ {n} : e2[m] = e[m]
      BY <2>5
    <3> HIDE DEF e2
    <3> QED BY <1>1, <1>3, <3>1, <3>2, <3>3
  <2> HIDE DEF e2
  <2> QED BY <1>1, <2>3, <2>4, <2>6, <2>7 DEF QueueCounts
<1>17. QueueApart(b)'
  <2>1. QueueLinked(b) \subseteq QueueNodes
    BY QueueFacts
  <2>2. \A u \in Threads : me'[u].val = me[u].val \/ me'[u].val = Null
    BY <1>6, <1>7
  <2> QED BY <1>1, <1>2, <1>11, <2>1, <2>2, QueueApartStays
<1>18. (empties + Cardinality(QueueLooking) <= pops)'
  <2>1. QueueLooking \in SUBSET Threads
    BY DEF QueueLooking
  <2>2. t \in QueueLooking /\ QueueLooking' = QueueLooking \ {t}
    BY <1>1, <1>6, <1>7 DEF QueueLooking
  <2>3. /\ Cardinality(QueueLooking) \in Nat
        /\ Cardinality(QueueLooking') = Cardinality(QueueLooking) - 1
    BY <2>1, <2>2, OneLess
  <2>4. pops \in Nat /\ empties \in Nat
    BY <1>2 DEF QueueTypes
  <2> QED BY <1>1, <1>2, <2>3, <2>4
<1>19. QueueFifo(b, b)
  <2>1. Along(QueueData, b) = << >> /\ Along(QueueData', b) = << >>
    BY <1>5, AlongEmpty
  <2> QED BY <1>1, <2>1 DEF QueueFifo, FifoStep
<1> HIDE DEF e2
<1>20. QueueInv(b, A, va, B, vb, e2)'
  BY <1>9, <1>11, <1>12, <1>14, <1>15, <1>16, <1>17, <1>18 DEF QueueInv
<1> QED BY <1>19, <1>20 DEF QueueKeeps

(* A pop takes the element out of the node that it has won.                 *)
LEMMA QueueTake ==
  ASSUME NEW b, NEW A, NEW va, NEW B, NEW vb, NEW e, QueueInv(b, A, va, B, vb, e),
         NEW t \in Threads, Queue!Take(t)
  PROVE  QueueKeeps(b)
<1>1. /\ me[t].pc = "take"
      /\ node' = [node EXCEPT ![me[t].cur].data = Null]
      /\ me' = [me EXCEPT ![t].pc = "free"]
      /\ UNCHANGED << head, tail, alive, out, lost, pops, empties, emptyAt >>
  BY DEF Queue!Take, Queue!At, Queue!history
<1>2. /\ QueueTypes /\ (\A u \in Threads : QueueLocal(u) /\ QueueSeen(u, b))
      /\ QueueList(b) /\ QueueAlive(b) /\ QueueCounts(b, A, va, B, vb, e) /\ QueueApart(b)
      /\ empties + Cardinality(QueueLooking) <= pops
  BY DEF QueueInv
<1>3. PICK n : /\ n = me[t].cur /\ n \in alive /\ n \in QueueNodes /\ QueueUses(t) = {n}
               /\ n \notin QueueLinked(b) \cup QueueAfter \cup QueueSpare
  <2>1. PICK n : n = me[t].cur
    OBVIOUS
  <2>2. n \in alive /\ n \in QueueNodes /\ QueueUses(t) = {n}
    BY <1>1, <2>1, QueueUsing DEF Queue!Touching
  <2>3. HeadWon[t] = {n}
    BY <1>1, <2>1 DEF HeadWon
  <2>4. n \notin QueueLinked(b) \cup QueueSpare
    BY <1>2, <2>3 DEF QueueCounts, QueueSide
  <2>5. QueueAfter \subseteq QueueLinked(b)
    BY QueueFacts
  <2> QED BY <2>1, <2>2, <2>4, <2>5
<1>4. /\ \A m \in QueueNodes \ {n} : node'[m] = node[m]
      /\ node'[n].data = Null /\ node'[n].next = node[n].next
      /\ node'[n].internal = node[n].internal /\ node'[n].counters = node[n].counters
      /\ node' \in [QueueNodes -> QueueFields]
  <2>1. node \in [QueueNodes -> QueueFields] /\ node[n] \in QueueFields
    BY <1>2, <1>3 DEF QueueTypes
  <2>2. node' = [node EXCEPT ![n] = [node[n] EXCEPT !.data = Null]]
    BY <1>1, <1>3
  <2>3. [node[n] EXCEPT !.data = Null] \in QueueFields
    BY <2>1 DEF QueueFields
  <2>4. node'[n] = [node[n] EXCEPT !.data = Null]
    BY <1>3, <2>1, <2>2
  <2>5. /\ node'[n].data = Null /\ node'[n].next = node[n].next
        /\ node'[n].internal = node[n].internal /\ node'[n].counters = node[n].counters
    BY <2>1, <2>4 DEF QueueFields
  <2> QED BY <1>3, <2>1, <2>2, <2>3, <2>5
<1>5. me[t].to = Queue!None /\ me[t].mine = Null
  BY <1>1, <1>2 DEF QueueLocal
<1>6. PICK p, o, q, s, w, x :
        /\ p = "free" /\ o = me[t].old /\ q = n /\ s = Queue!None /\ w = Null /\ x = me[t].val
        /\ QueueBecomes(t, p, o, q, s, w, x)
  <2>1. me \in [Threads -> QueueLocals] /\ "free" \in QueuePlaces
    BY <1>2 DEF QueueTypes, QueuePlaces, Queue!Touching
  <2> QED BY <1>1, <1>3, <1>5, <2>1, QueueMovesPc
<1>7. /\ me'[t].pc = p /\ me'[t].old = o /\ me'[t].cur = q /\ me'[t].to = s
      /\ me'[t].mine = w /\ me'[t].val = x /\ \A u \in Threads \ {t} : me'[u] = me[u]
      /\ me' \in [Threads -> QueueLocals]
  BY <1>6 DEF QueueBecomes
<1>8. QueueOthersStay(t) /\ QueueIsNow(t, p, o, q, s, w)
  BY <1>6, QueueOthers
<1>9. QueueTypes'
  BY <1>1, <1>2, <1>4, <1>7 DEF QueueTypes
<1>10. QueueSpare' = QueueSpare /\ \A u \in Threads : QueueMine(u)' = QueueMine(u)
  <2>1. QueueMine(t)' = QueueMine(t)
    BY <1>5, <1>6, <1>8 DEF QueueMine, QueueIsNow
  <2>2. \A u \in Threads : QueueMine(u)' = QueueMine(u)
    BY <1>8, <2>1 DEF QueueOthersStay
  <2> QED BY <1>2, <2>1, <2>2, QueueSpareNext DEF QueueAlive
<1>11. QueueList(b)' /\ QueueAfter' = QueueAfter /\ QueueLinked(b)' = QueueLinked(b)
  <2>1. QueueLinked(b) \subseteq QueueNodes /\ QueueSpare \subseteq QueueNodes
    BY <1>2, QueueFacts DEF QueueAlive
  <2>2. \A m \in QueueAfter \cup QueueSpare' : node'[m] = Queue!NewNode
    BY <1>2, <1>3, <1>4, <1>10, <2>1, QueueFacts DEF QueueList
  <2>3. \A m \in QueueLinked(b) : node'[m] = node[m]
    BY <1>3, <1>4, <2>1
  <2> QED BY <1>1, <1>2, <2>1, <2>2, <2>3, QueueListStays
<1>12. QueueAlive(b)'
  <2>1. /\ QueueLinked(b) \subseteq alive' /\ QueueSpare' \subseteq alive'
        /\ QueueSpare' \cap QueueLinked(b) = {}
        /\ \A u \in Threads : \A y \in Threads \ {u} : QueueMine(u)' \cap QueueMine(y)' = {}
    BY <1>1, <1>2, <1>10 DEF QueueAlive
  <2>2. \A m \in alive' : node'[m].next = node[m].next
    BY <1>1, <1>4, QueueFacts
  <2> QED BY <1>1, <1>2, <1>10, <1>11, <2>1, <2>2, QueueAliveStays
<1>13. QueueUses(t)' = {n}
  BY <1>6, <1>8 DEF QueueIsNow, Queue!Touching
<1>14. \A u \in Threads : QueueLocal(u)'
  <2>1. QueueLocal(t)'
    BY <1>1, <1>2, <1>3, <1>6, <1>7 DEF QueueLocal, Queue!Touching
  <2> QED BY <1>2, <1>8, <2>1 DEF QueueOthersStay
<1>15. \A u \in Threads : QueueSeen(u, b)'
  <2>1. QueueSeen(t, b)'
    BY <1>1, <1>3, <1>6, <1>7, <1>13 DEF QueueSeen
  <2>2. ASSUME NEW u \in Threads \ {t} PROVE QueueSeen(u, b)'
    <3>1. QueueUses(u) \subseteq alive /\ alive \subseteq QueueNodes
      BY <1>2, QueueFacts DEF QueueSeen
    <3>2. \A m \in QueueUses(u) : node'[m].next = node[m].next
      BY <1>4, <3>1
    <3>3. \A m \in QueueUses(u) : m \in QueueLinked(b) => node'[m].data = node[m].data
      BY <1>3, <1>4, <3>1
    <3> QED BY <1>1, <1>2, <1>7, <1>11, <3>1, <3>2, <3>3, QueueSeenStays
  <2> QED BY <2>1, <2>2
<1>16. QueueCounts(b, A, va, B, vb, e)'
  <2>1. HeadWon'[t] = HeadWon[t] /\ TailWon'[t] = TailWon[t] /\ QueueRead'[t] = QueueRead[t]
    BY <1>1, <1>3, <1>6, <1>8 DEF QueueIsNow, HeadWon, TailWon, QueueRead
  <2>2. SameWon(HeadWon, HeadWon', QueueRead, QueueRead')
    BY <1>8, <2>1 DEF SameWon, QueueOthersStay
  <2>3. SameWon(TailWon, TailWon', QueueRead, QueueRead')
    BY <1>8, <2>1 DEF SameWon, QueueOthersStay
  <2>4. \A m : QueueUsed(m)' = QueueUsed(m)
    <3>1. \A u \in Threads \ {t} : QueueUses(u)' = QueueUses(u)
      BY <1>8 DEF QueueOthersStay
    <3> QED BY <1>3, <1>13, <3>1, QueueUsersNext
  <2>5. \A m \in alive : /\ node'[m].internal = node[m].internal
                         /\ node'[m].counters = node[m].counters
    BY <1>4, QueueFacts
  <2> QED BY <1>1, <1>2, <1>10, <1>11, <2>2, <2>3, <2>4, <2>5, QueueCountsStay
<1>17. QueueApart(b)'
  <2>1. QueueLinked(b) \subseteq QueueNodes
    BY QueueFacts
  <2>2. \A u \in Threads : me'[u].val = me[u].val
    BY <1>6, <1>7
  <2>3. \A m \in QueueNodes : node'[m].data = node[m].data \/ node'[m].data = Null
    BY <1>4
  <2> QED BY <1>1, <1>2, <1>11, <2>1, <2>2, <2>3, QueueApartStays
<1>18. (empties + Cardinality(QueueLooking) <= pops)'
  <2>1. t \in QueueLooking' => t \in QueueLooking
    BY <1>6, <1>7 DEF QueueLooking
  <2> QED BY <1>1, <1>2, <1>7, <2>1, QueueEmptiesStay DEF QueueTypes
<1>19. QueueFifo(b, b)
  <2>1. Members(b) \subseteq QueueNodes /\ n \notin Members(b)
    BY <1>3, QueueFacts
  <2> QED BY <1>1, <1>4, <2>1, QueueFifoStays
<1>20. QueueInv(b, A, va, B, vb, e)'
  BY <1>9, <1>11, <1>12, <1>14, <1>15, <1>16, <1>17, <1>18 DEF QueueInv
<1> QED BY <1>19, <1>20 DEF QueueKeeps

(* A push stores its element: in the tail, or in a node that a pop has left. *)
LEMMA QueueSetData ==
  ASSUME NEW b, NEW A, NEW va, NEW B, NEW vb, NEW e, QueueInv(b, A, va, B, vb, e),
         NEW t \in Threads, Queue!SetData(t)
  PROVE  QueueKeeps(b)
<1>1. /\ me[t].pc = "data" /\ node[me[t].cur].data = Null
      /\ node' = [node EXCEPT ![me[t].cur].data = me[t].val]
      /\ lost' = IF me[t].cur \in Queue!Linked THEN lost ELSE lost \cup {me[t].val}
      /\ me' = [me EXCEPT ![t].pc = "link", ![t].val = Null]
      /\ UNCHANGED << head, tail, alive, out, pops, empties, emptyAt >>
  BY DEF Queue!SetData, Queue!At, Queue!DataFree
<1>2. /\ QueueTypes /\ (\A u \in Threads : QueueLocal(u) /\ QueueSeen(u, b))
      /\ QueueList(b) /\ QueueAlive(b) /\ QueueCounts(b, A, va, B, vb, e) /\ QueueApart(b)
      /\ empties + Cardinality(QueueLooking) <= pops
  BY DEF QueueInv
<1>3. PICK n, y : /\ n = me[t].cur /\ n \in alive /\ n \in QueueNodes /\ QueueUses(t) = {n}
                  /\ n \notin QueueAfter \cup QueueSpare /\ n \notin Members(b)
                  /\ y = me[t].val /\ y \in Values /\ node[n].data = Null
  <2>1. PICK n, y : n = me[t].cur /\ y = me[t].val
    OBVIOUS
  <2>2. /\ n \in alive /\ n \in QueueNodes /\ QueueUses(t) = {n}
        /\ n \notin QueueAfter \cup QueueSpare
    BY <1>1, <2>1, QueueUsing DEF Queue!Touching
  <2>3. y # Null /\ y \in Values \cup {Null}
    BY <1>1, <1>2, <2>1, QueueUsing DEF QueueLocal, QueueLocals
  <2>4. n \notin Members(b)
    BY <1>1, <1>2, <2>1 DEF QueueList
  <2> QED BY <1>1, <2>1, <2>2, <2>3, <2>4
<1>4. /\ \A m \in QueueNodes \ {n} : node'[m] = node[m]
      /\ node'[n].data = y /\ node'[n].next = node[n].next
      /\ node'[n].internal = node[n].internal /\ node'[n].counters = node[n].counters
      /\ node' \in [QueueNodes -> QueueFields]
  <2>1. node \in [QueueNodes -> QueueFields] /\ node[n] \in QueueFields
    BY <1>2, <1>3 DEF QueueTypes
  <2>2. node' = [node EXCEPT ![n] = [node[n] EXCEPT !.data = y]]
    BY <1>1, <1>3
  <2>3. [node[n] EXCEPT !.data = y] \in QueueFields
    BY <1>3, <2>1 DEF QueueFields
  <2>4. node'[n] = [node[n] EXCEPT !.data = y]
    BY <1>3, <2>1, <2>2
  <2>5. /\ node'[n].data = y /\ node'[n].next = node[n].next
        /\ node'[n].internal = node[n].internal /\ node'[n].counters = node[n].counters
    BY <2>1, <2>4 DEF QueueFields
  <2> QED BY <1>3, <2>1, <2>2, <2>3, <2>5
<1>5. \/ n = tail.ptr /\ lost' = lost
      \/ n \notin QueueLinked(b) /\ lost' = lost \cup {y} /\ out # << >>
  <2>1. Queue!Linked = QueueLinked(b)
    BY <1>2, QueuePath
  <2>2. CASE n \in QueueLinked(b)
    BY <1>1, <1>3, <2>1, <2>2 DEF QueueLinked
  <2>3. CASE n \notin QueueLinked(b)
    BY <1>1, <1>2, <1>3, <2>1, <2>3 DEF QueueAlive
  <2> QED BY <2>2, <2>3
<1>6. PICK p, o, q, s, w, x :
        /\ p = "link" /\ o = me[t].old /\ q = n /\ s = me[t].to /\ w = me[t].mine /\ x = Null
        /\ QueueBecomes(t, p, o, q, s, w, x)
  <2>1. me \in [Threads -> QueueLocals] /\ "link" \in QueuePlaces
    BY <1>2 DEF QueueTypes, QueuePlaces, Queue!Touching
  <2> QED BY <1>1, <1>3, <2>1, QueueMovesPcVal
<1>7. /\ me'[t].pc = p /\ me'[t].old = o /\ me'[t].cur = q /\ me'[t].to = s
      /\ me'[t].mine = w /\ me'[t].val = x /\ \A u \in Threads \ {t} : me'[u] = me[u]
      /\ me' \in [Threads -> QueueLocals]
  BY <1>6 DEF QueueBecomes
<1>8. QueueOthersStay(t) /\ QueueIsNow(t, p, o, q, s, w)
  BY <1>6, QueueOthers
<1>9. QueueTypes'
  <2>1. lost' \subseteq Values
    BY <1>2, <1>3, <1>5 DEF QueueTypes
  <2> QED BY <1>1, <1>2, <1>4, <1>7, <2>1 DEF QueueTypes
<1>10. QueueSpare' = QueueSpare /\ \A u \in Threads : QueueMine(u)' = QueueMine(u)
  <2>1. QueueMine(t)' = QueueMine(t)
    BY <1>6, <1>8 DEF QueueMine, QueueIsNow
  <2>2. \A u \in Threads : QueueMine(u)' = QueueMine(u)
    BY <1>8, <2>1 DEF QueueOthersStay
  <2> QED BY <1>2, <2>1, <2>2, QueueSpareNext DEF QueueAlive
<1>11. QueueList(b)' /\ QueueAfter' = QueueAfter /\ QueueLinked(b)' = QueueLinked(b)
  <2>1. QueueLinked(b) \subseteq QueueNodes /\ QueueSpare \subseteq QueueNodes
    BY <1>2, QueueFacts DEF QueueAlive
  <2>2. \A m \in QueueAfter \cup QueueSpare' : node'[m] = Queue!NewNode
    BY <1>2, <1>3, <1>4, <1>10, <2>1, QueueFacts DEF QueueList
  <2>3. \A m \in QueueLinked(b) : node'[m].next = node[m].next
    BY <1>3, <1>4, <2>1
  <2>4. \A m \in QueueLinked(b) : node[m].data # Null => node'[m].data # Null
    BY <1>3, <1>4, <2>1
  <2> QED BY <1>1, <1>2, <2>1, <2>2, <2>3, <2>4, QueueListStays
<1>12. QueueAlive(b)'
  <2>1. /\ QueueLinked(b) \subseteq alive' /\ QueueSpare' \subseteq alive'
        /\ QueueSpare' \cap QueueLinked(b) = {}
        /\ \A u \in Threads : \A y1 \in Threads \ {u} : QueueMine(u)' \cap QueueMine(y1)' = {}
    BY <1>1, <1>2, <1>10 DEF QueueAlive
  <2>2. \A m \in alive' : node'[m].next = node[m].next
    BY <1>1, <1>4, QueueFacts
  <2> QED BY <1>1, <1>2, <1>10, <1>11, <2>1, <2>2, QueueAliveStays
<1>13. QueueUses(t)' = {n}
  BY <1>6, <1>8 DEF QueueIsNow, Queue!Touching
<1>14. \A u \in Threads : QueueLocal(u)'
  <2>1. QueueLocal(t)'
    BY <1>1, <1>2, <1>3, <1>6, <1>7 DEF QueueLocal, Queue!Touching
  <2> QED BY <1>2, <1>8, <2>1 DEF QueueOthersStay
<1>15. \A u \in Threads : QueueSeen(u, b)'
  <2>1. QueueSeen(t, b)'
    BY <1>1, <1>3, <1>4, <1>6, <1>7, <1>13 DEF QueueSeen
  <2>2. ASSUME NEW u \in Threads \ {t} PROVE QueueSeen(u, b)'
    <3>1. QueueUses(u) \subseteq alive /\ alive \subseteq QueueNodes
      BY <1>2, QueueFacts DEF QueueSeen
    <3>2. \A m \in QueueUses(u) : node'[m].next = node[m].next
      BY <1>4, <3>1
    <3>3. \A m \in QueueUses(u) : node[m].data # Null => node'[m].data # Null
      BY <1>3, <1>4, <3>1
    <3> QED BY <1>1, <1>2, <1>7, <1>11, <3>1, <3>2, <3>3, QueueSeenStays
  <2> QED BY <2>1, <2>2
<1>16. QueueCounts(b, A, va, B, vb, e)'
  <2>1. HeadWon'[t] = HeadWon[t] /\ TailWon'[t] = TailWon[t] /\ QueueRead'[t] = QueueRead[t]
    BY <1>1, <1>3, <1>6, <1>8 DEF QueueIsNow, HeadWon, TailWon, QueueRead
  <2>2. SameWon(HeadWon, HeadWon', QueueRead, QueueRead')
    BY <1>8, <2>1 DEF SameWon, QueueOthersStay
  <2>3. SameWon(TailWon, TailWon', QueueRead, QueueRead')
    BY <1>8, <2>1 DEF SameWon, QueueOthersStay
  <2>4. \A m : QueueUsed(m)' = QueueUsed(m)
    <3>1. \A u \in Threads \ {t} : QueueUses(u)' = QueueUses(u)
      BY <1>8 DEF QueueOthersStay
    <3> QED BY <1>3, <1>13, <3>1, QueueUsersNext
  <2>5. \A m \in alive : /\ node'[m].internal = node[m].internal
                         /\ node'[m].counters = node[m].counters
    BY <1>4, QueueFacts
  <2> QED BY <1>1, <1>2, <1>10, <1>11, <2>2, <2>3, <2>4, <2>5, QueueCountsStay
<1>17. /\ y \notin lost \cup Members(out) /\ \A m \in QueueNodes : node[m].data # y
       /\ \A u \in Threads \ {t} : me[u].val # y
  BY <1>2, <1>3 DEF QueueApart
<1>18. QueueApart(b)'
  <2>1. QueueLinked(b) \subseteq QueueNodes
    BY QueueFacts
  <2>2. ASSUME NEW m \in QueueLinked(b), node'[m].data # Null
        PROVE  /\ node'[m].data \notin lost' \cup Members(out')
               /\ \A m2 \in QueueLinked(b) \ {m} : node'[m2].data # node'[m].data
    <3>1. CASE m = n
      <4>1. \A m2 \in QueueLinked(b) \ {m} : node'[m2] = node[m2]
        BY <1>4, <2>1, <3>1
      <4>2. lost' = lost
        BY <1>5, <3>1
      <4> QED BY <1>1, <1>4, <1>17, <2>1, <3>1, <4>1, <4>2
    <3>2. CASE m # n
      <4>1. node'[m] = node[m] /\ node[m].data # Null /\ node[m].data # y
        BY <1>4, <1>17, <2>1, <2>2, <3>2
      <4>2. /\ node[m].data \notin lost \cup Members(out)
            /\ \A m2 \in QueueLinked(b) \ {m} : node[m2].data # node[m].data
        BY <1>2, <4>1 DEF QueueApart
      <4>3. \A m2 \in QueueLinked(b) \ {m} : node'[m2].data # node'[m].data
        BY <1>4, <2>1, <4>1, <4>2
      <4> QED BY <1>1, <1>5, <4>1, <4>2, <4>3
    <3> QED BY <3>1, <3>2
  <2>3. ASSUME NEW u \in Threads, me'[u].val # Null
        PROVE  /\ me'[u].val \notin lost' \cup Members(out')
               /\ \A m \in QueueNodes : node'[m].data # me'[u].val
               /\ \A u2 \in Threads \ {u} : me'[u2].val # me'[u].val
    <3>1. u # t /\ me'[u] = me[u]
      BY <1>6, <1>7, <2>3
    <3>2. /\ me[u].val \notin lost \cup Members(out)
          /\ \A m \in QueueNodes : node[m].data # me[u].val
          /\ \A u2 \in Threads \ {u} : me[u2].val # me[u].val
      BY <1>2, <2>3, <3>1 DEF QueueApart
    <3>3. me[u].val # y
      BY <1>17, <3>1
    <3>4. \A m \in QueueNodes : node'[m].data # me'[u].val
      BY <1>4, <3>1, <3>2, <3>3
    <3>5. \A u2 \in Threads \ {u} : me'[u2].val # me'[u].val
      BY <1>6, <1>7, <2>3, <3>1, <3>2
    <3> QED BY <1>1, <1>5, <3>1, <3>2, <3>3, <3>4, <3>5
  <2> QED BY <1>11, <2>2, <2>3 DEF QueueApart
<1>19. (empties + Cardinality(QueueLooking) <= pops)'
  <2>1. t \in QueueLooking' => t \in QueueLooking
    BY <1>6, <1>7 DEF QueueLooking
  <2> QED BY <1>1, <1>2, <1>7, <2>1, QueueEmptiesStay DEF QueueTypes
<1>20. QueueFifo(b, b)
  <2>1. Members(b) \subseteq QueueNodes /\ b \in Seq(QueueNodes)
    BY QueueFacts
  <2>2. Along(QueueData', b) = Along(QueueData, b)
    <3>1. \A m \in Members(b) : QueueData'[m] = QueueData[m]
      BY <1>3, <1>4, <2>1 DEF QueueData
    <3> QED BY <3>1, AlongSame
  <2>3. y \notin Members(Along(QueueData, b))
    <3>1. Members(Along(QueueData, b)) = { QueueData[m] : m \in Members(b) }
      BY <2>1, AlongMembers
    <3> QED BY <1>17, <2>1, <3>1 DEF QueueData
  <2> QED BY <1>1, <1>3, <1>5, <1>17, <2>2, <2>3 DEF QueueFifo, FifoStep
<1>21. QueueInv(b, A, va, B, vb, e)'
  BY <1>9, <1>11, <1>12, <1>14, <1>15, <1>16, <1>18, <1>19 DEF QueueInv
<1> QED BY <1>20, <1>21 DEF QueueKeeps

-----------------------------------------------------------------------------
(* The steps that allocate a node or link one. *)

(* The counts when a push has allocated a node.                             *)
LEMMA QueueCountsGrow ==
  ASSUME NEW b, NEW A, NEW va, NEW B, NEW vb, NEW e, QueueInv(b, A, va, B, vb, e),
         NEW n \in QueueNodes \ alive, node'[n] = Queue!NewNode,
         UNCHANGED << head, tail, emptyAt >>, alive' = alive \cup {n},
         (QueueLinked(b) \cup QueueSpare)' = (QueueLinked(b) \cup QueueSpare) \cup {n},
         ({tail.ptr} \cup QueueAfter \cup QueueSpare)'
           = ({tail.ptr} \cup QueueAfter \cup QueueSpare) \cup {n},
         SameWon(HeadWon, HeadWon', QueueRead, QueueRead'),
         SameWon(TailWon, TailWon', QueueRead, QueueRead'),
         \A m \in alive : /\ node'[m].internal = node[m].internal
                          /\ node'[m].counters = node[m].counters,
         \A m : QueueUsed(m)' = QueueUsed(m)
  PROVE  QueueCounts(b, A \cup {n}, va, B \cup {n}, vb, e)'
<1>1. /\ QueueTypes /\ (\A u \in Threads : QueueSeen(u, b)) /\ QueueAlive(b)
      /\ QueueCounts(b, A, va, B, vb, e)
  BY DEF QueueInv
<1>2. \A u \in Threads : n \notin QueueUses(u)
  BY <1>1 DEF QueueSeen
<1>3. \A u \in Threads : n \notin HeadWon[u] /\ n \notin TailWon[u]
  BY <1>2 DEF QueueUses, HeadWon, TailWon, Queue!Touching
<1>4. n \notin QueueLinked(b) \cup QueueSpare /\ n \notin {tail.ptr} \cup QueueAfter \cup QueueSpare
  BY <1>1, QueueFacts DEF QueueAlive
<1>5. n \notin A /\ n \notin B
  <2>1. A = (QueueLinked(b) \cup QueueSpare) \cup UNION { HeadWon[u] : u \in Threads }
    BY <1>1 DEF QueueCounts, QueueSide
  <2>2. B = ({tail.ptr} \cup QueueAfter \cup QueueSpare) \cup UNION { TailWon[u] : u \in Threads }
    BY <1>1 DEF QueueCounts, QueueSide
  <2> QED BY <1>3, <1>4, <2>1, <2>2
<1>6. va[n] = 0 /\ vb[n] = 0 /\ e[n] = 0 /\ QueueUsed(n) = 0
  BY <1>1, <1>2, <1>5, QueueUsers DEF QueueCounts, QueueSide
<1>7. QueueSide(A \cup {n}, va, head', (QueueLinked(b) \cup QueueSpare)', HeadWon', QueueRead')
  <2> DEFINE P == QueueLinked(b) \cup QueueSpare
  <2>1. QueueSide(A, va, head, P, HeadWon, QueueRead)
    BY <1>1 DEF QueueCounts
  <2>2. P' = P \cup {n}
    OBVIOUS
  <2> HIDE DEF P
  <2>3. QueueSide(A \cup {n}, va, head, P \cup {n}, HeadWon', QueueRead')
    BY <1>5, <2>1, SideGrows
  <2>4. QueueSide(A \cup {n}, va, head', P', HeadWon', QueueRead')
    BY <2>2, <2>3
  <2> QED BY <2>4 DEF P
<1>8. QueueSide(B \cup {n}, vb, tail', ({tail.ptr} \cup QueueAfter \cup QueueSpare)',
                TailWon', QueueRead')
  <2> DEFINE P == {tail.ptr} \cup QueueAfter \cup QueueSpare
  <2>1. QueueSide(B, vb, tail, P, TailWon, QueueRead)
    BY <1>1 DEF QueueCounts
  <2>2. P' = P \cup {n}
    OBVIOUS
  <2> HIDE DEF P
  <2>3. QueueSide(B \cup {n}, vb, tail, P \cup {n}, TailWon', QueueRead')
    BY <1>5, <2>1, SideGrows
  <2>4. QueueSide(B \cup {n}, vb, tail', P', TailWon', QueueRead')
    BY <2>2, <2>3
  <2> QED BY <2>4 DEF P
<1>9. ASSUME NEW m \in alive' PROVE QueueSettled(m, A \cup {n}, va, B \cup {n}, vb, e)'
  <2>1. CASE m = n
    <3>1. node'[m].internal = 0 /\ node'[m].counters = 2
      BY <2>1 DEF Queue!NewNode
    <3>2. m \in A \cup {n} /\ m \in B \cup {n}
      BY <2>1
    <3> QED BY <1>6, <2>1, <3>1, <3>2 DEF QueueSettled, InPlace
  <2>2. CASE m # n
    <3>1. m \in alive /\ QueueSettled(m, A, va, B, vb, e)
      BY <1>1, <2>2 DEF QueueCounts
    <3>2. (m \in A \cup {n} <=> m \in A) /\ (m \in B \cup {n} <=> m \in B)
      BY <2>2
    <3> QED BY <3>1, <3>2, QueueSettledStays
  <2> QED BY <2>1, <2>2
<1>10. /\ e \in [QueueNodes -> Nat] /\ emptyAt' \subseteq alive'
       /\ \A m \in QueueNodes : m \in emptyAt' <=> e[m] # 0
  BY <1>1 DEF QueueCounts
<1> QED BY <1>7, <1>8, <1>9, <1>10 DEF QueueCounts

(* A node as it is allocated: no next and no element.                       *)
LEMMA QueueNewIs ==
  /\ Queue!NewNode \in QueueFields /\ Queue!NewNode.next = Queue!None
  /\ Queue!NewNode.data = Null
BY QueueIdleIs DEF Queue!NewNode, QueueFields

(* A push allocates its node.                                               *)
LEMMA QueuePush ==
  ASSUME NEW b, NEW A, NEW va, NEW B, NEW vb, NEW e, QueueInv(b, A, va, B, vb, e),
         NEW t \in Threads, NEW y \in Values, NEW n \in QueueNodes, Queue!Push(t, y, n)
  PROVE  QueueKeeps(b)
<1>1. /\ me[t].pc = "idle" /\ n \notin alive
      /\ alive' = alive \cup {n} /\ node' = [node EXCEPT ![n] = Queue!NewNode]
      /\ me' = [me EXCEPT ![t] = [Queue!Idle EXCEPT !.pc = "countTail", !.old = tail,
                                                    !.mine = n, !.val = y]]
      /\ UNCHANGED << head, tail, out, lost, pops, empties, emptyAt >>
  BY DEF Queue!Push, Queue!At, Queue!history
<1>2. /\ QueueTypes /\ (\A u \in Threads : QueueLocal(u) /\ QueueSeen(u, b))
      /\ QueueList(b) /\ QueueAlive(b) /\ QueueCounts(b, A, va, B, vb, e) /\ QueueApart(b)
      /\ empties + Cardinality(QueueLooking) <= pops
  BY DEF QueueInv
<1>3. /\ y \notin lost \cup Members(out) /\ (\A m \in QueueNodes : node[m].data # y)
      /\ \A u \in Threads : me[u].val # y
  BY DEF Queue!Push, Queue!Fresh, QueueNodes, Members
<1>4. /\ \A m \in QueueNodes \ {n} : node'[m] = node[m]
      /\ node'[n] = Queue!NewNode /\ node' \in [QueueNodes -> QueueFields]
  BY <1>1, <1>2, QueueNewIs DEF QueueTypes
<1>5. me[t].mine = Null /\ QueueMine(t) = {} /\ n # Null /\ Null \notin Values
  <2>1. Null \notin QueueNodes /\ Null \notin Values
    BY DEF QueueNodes
  <2> QED BY <1>1, <1>2, <2>1 DEF QueueLocal, QueueMine
<1>6. PICK p, o, q, s, w, x :
        /\ p = "countTail" /\ o = tail /\ q = Null /\ s = Queue!None /\ w = n /\ x = y
        /\ QueueBecomes(t, p, o, q, s, w, x)
  <2> DEFINE r == [Queue!Idle EXCEPT !.pc = "countTail", !.old = tail, !.mine = n, !.val = y]
  <2>1. me \in [Threads -> QueueLocals] /\ tail \in Queue!Counted
    BY <1>2 DEF QueueTypes
  <2>2. /\ r \in QueueLocals /\ r.pc = "countTail" /\ r.old = tail /\ r.cur = Null
        /\ r.to = Queue!None /\ r.mine = n /\ r.val = y
    BY <2>1, QueueIdleIs DEF QueueLocals, QueuePlaces
  <2>3. me' = [me EXCEPT ![t] = r]
    BY <1>1
  <2> HIDE DEF r
  <2>4. QueueBecomes(t, r.pc, r.old, r.cur, r.to, r.mine, r.val)
    BY <2>1, <2>2, <2>3, QueueMoves
  <2> QED BY <2>2, <2>4
<1>7. /\ me'[t].pc = p /\ me'[t].old = o /\ me'[t].cur = q /\ me'[t].to = s
      /\ me'[t].mine = w /\ me'[t].val = x /\ \A u \in Threads \ {t} : me'[u] = me[u]
      /\ me' \in [Threads -> QueueLocals]
  BY <1>6 DEF QueueBecomes
<1>8. QueueOthersStay(t) /\ QueueIsNow(t, p, o, q, s, w)
  BY <1>6, QueueOthers
<1>9. QueueTypes'
  <2>1. alive' \subseteq QueueNodes
    BY <1>1, <1>2 DEF QueueTypes
  <2> QED BY <1>1, <1>2, <1>4, <1>7, <2>1 DEF QueueTypes
<1>10. /\ QueueSpare' = QueueSpare \cup {n} /\ QueueMine(t)' = {n}
       /\ n \notin QueueSpare /\ n \notin QueueLinked(b)
       /\ \A u \in Threads \ {t} : QueueMine(u)' = QueueMine(u) /\ n \notin QueueMine(u)
  <2>1. QueueMine(t)' = {n}
    BY <1>5, <1>6, <1>8 DEF QueueIsNow
  <2>2. \A u \in Threads \ {t} : QueueMine(u)' = QueueMine(u)
    BY <1>8 DEF QueueOthersStay
  <2>3. QueueSpare' = QueueSpare \cup {n}
    BY <1>2, <1>5, <2>1, <2>2, QueueSpareNext DEF QueueAlive
  <2>4. n \notin QueueSpare /\ n \notin QueueLinked(b)
    BY <1>1, <1>2 DEF QueueAlive
  <2>5. \A u \in Threads : QueueMine(u) \subseteq QueueSpare
    BY DEF QueueSpare
  <2> QED BY <2>1, <2>2, <2>3, <2>4, <2>5
<1>11. QueueList(b)' /\ QueueAfter' = QueueAfter /\ QueueLinked(b)' = QueueLinked(b)
  <2>1. QueueLinked(b) \subseteq QueueNodes /\ QueueSpare \subseteq QueueNodes
    BY <1>2, QueueFacts DEF QueueAlive
  <2>2. \A m \in QueueAfter \cup QueueSpare' : node'[m] = Queue!NewNode
    <3>1. ASSUME NEW m \in QueueAfter \cup QueueSpare PROVE node'[m] = Queue!NewNode
      BY <1>2, <1>4, <1>10, <2>1, QueueFacts DEF QueueList
    <3> QED BY <1>4, <1>10, <3>1
  <2>3. \A m \in QueueLinked(b) : node'[m] = node[m]
    BY <1>4, <1>10, <2>1
  <2> QED BY <1>1, <1>2, <2>1, <2>2, <2>3, QueueListStays
<1>12. QueueAlive(b)'
  <2>1. /\ QueueLinked(b) \subseteq alive' /\ QueueSpare' \subseteq alive'
        /\ QueueSpare' \cap QueueLinked(b) = {}
    BY <1>1, <1>2, <1>10 DEF QueueAlive
  <2>2. \A u \in Threads : \A v \in Threads \ {u} : QueueMine(u)' \cap QueueMine(v)' = {}
    <3>1. \A u \in Threads : \A v \in Threads \ {u} : QueueMine(u) \cap QueueMine(v) = {}
      BY <1>2 DEF QueueAlive
    <3> QED BY <1>10, <3>1
  <2>3. ASSUME NEW m \in alive'
        PROVE  \/ m \in alive /\ node'[m].next = node[m].next /\ (m \in QueueSpare => m \in QueueSpare')
               \/ m \in QueueSpare' /\ node'[m].next = Queue!None
    <3>1. CASE m = n
      BY <1>4, <1>10, <3>1, QueueNewIs
    <3>2. CASE m # n
      BY <1>1, <1>4, <1>10, <3>2, QueueFacts
    <3> QED BY <3>1, <3>2
  <2> QED BY <1>1, <1>2, <1>11, <2>1, <2>2, <2>3, QueueAliveStays
<1>13. QueueUses(t) = {} /\ QueueUses(t)' = {}
  BY <1>1, <1>6, <1>8 DEF QueueIsNow, QueueUses, Queue!Touching
<1>14. \A u \in Threads : QueueLocal(u)'
  <2>1. QueueLocal(t)'
    BY <1>5, <1>6, <1>7 DEF QueueLocal, Queue!Touching
  <2> QED BY <1>2, <1>8, <2>1 DEF QueueOthersStay
<1>15. \A u \in Threads : QueueSeen(u, b)'
  <2>1. QueueSeen(t, b)'
    BY <1>6, <1>7, <1>13 DEF QueueSeen
  <2>2. ASSUME NEW u \in Threads \ {t} PROVE QueueSeen(u, b)'
    <3>1. QueueUses(u) \subseteq alive /\ alive \subseteq QueueNodes
      BY <1>2, QueueFacts DEF QueueSeen
    <3>2. \A m \in QueueUses(u) : node'[m] = node[m]
      BY <1>1, <1>4, <3>1
    <3> QED BY <1>1, <1>2, <1>7, <1>11, <3>1, <3>2, QueueSeenStays
  <2> QED BY <2>1, <2>2
<1>16. QueueCounts(b, A \cup {n}, va, B \cup {n}, vb, e)'
  <2>1. HeadWon[t] = {} /\ HeadWon'[t] = {} /\ TailWon[t] = {} /\ TailWon'[t] = {}
    BY <1>1, <1>6, <1>8 DEF QueueIsNow, HeadWon, TailWon
  <2>2. SameWon(HeadWon, HeadWon', QueueRead, QueueRead')
    BY <1>8, <2>1 DEF SameWon, QueueOthersStay
  <2>3. SameWon(TailWon, TailWon', QueueRead, QueueRead')
    BY <1>8, <2>1 DEF SameWon, QueueOthersStay
  <2>4. \A m : QueueUsed(m)' = QueueUsed(m)
    <3>1. \A u \in Threads \ {t} : QueueUses(u)' = QueueUses(u)
      BY <1>8 DEF QueueOthersStay
    <3> QED BY <1>13, <3>1, QueueUsersNext
  <2>5. \A m \in alive : /\ node'[m].internal = node[m].internal
                         /\ node'[m].counters = node[m].counters
    BY <1>1, <1>4, QueueFacts
  <2>6. (QueueLinked(b) \cup QueueSpare)' = (QueueLinked(b) \cup QueueSpare) \cup {n}
    BY <1>10, <1>11
  <2>7. ({tail.ptr} \cup QueueAfter \cup QueueSpare)'
           = ({tail.ptr} \cup QueueAfter \cup QueueSpare) \cup {n}
    BY <1>1, <1>10, <1>11
  <2> QED BY <1>1, <1>4, <2>2, <2>3, <2>4, <2>5, <2>6, <2>7, QueueCountsGrow
<1>17. QueueApart(b)'
  <2>1. QueueLinked(b) \subseteq QueueNodes
    BY QueueFacts
  <2>2. \A m \in QueueLinked(b) : node'[m] = node[m]
    BY <1>4, <1>10, <2>1
  <2>3. ASSUME NEW m \in QueueLinked(b), node'[m].data # Null
        PROVE  /\ node'[m].data \notin lost' \cup Members(out')
               /\ \A m2 \in QueueLinked(b) \ {m} : node'[m2].data # node'[m].data
    BY <1>1, <1>2, <2>2, <2>3 DEF QueueApart
  <2>4. ASSUME NEW u \in Threads, me'[u].val # Null
        PROVE  /\ me'[u].val \notin lost' \cup Members(out')
               /\ \A m \in QueueNodes : node'[m].data # me'[u].val
               /\ \A u2 \in Threads \ {u} : me'[u2].val # me'[u].val
    <3>1. CASE u = t
      <4>1. me'[u].val = y
        BY <1>6, <1>7, <3>1
      <4>2. \A u2 \in Threads \ {u} : me'[u2].val # me'[u].val
        BY <1>3, <1>7, <3>1, <4>1
      <4>3. \A m \in QueueNodes : node'[m].data # me'[u].val
        BY <1>3, <1>4, <1>5, <4>1, QueueNewIs
      <4> QED BY <1>1, <1>3, <4>1, <4>2, <4>3
    <3>2. CASE u # t
      <4>1. me'[u] = me[u]
        BY <1>7, <3>2
      <4>2. /\ me[u].val \notin lost \cup Members(out)
            /\ \A m \in QueueNodes : node[m].data # me[u].val
            /\ \A u2 \in Threads \ {u} : me[u2].val # me[u].val
        BY <1>2, <2>4, <4>1 DEF QueueApart
      <4>3. \A m \in QueueNodes : node'[m].data # me'[u].val
        BY <1>4, <2>4, <4>1, <4>2, QueueNewIs
      <4>4. \A u2 \in Threads \ {u} : me'[u2].val # me'[u].val
        BY <1>3, <1>6, <1>7, <4>1, <4>2
      <4> QED BY <1>1, <4>1, <4>2, <4>3, <4>4
    <3> QED BY <3>1, <3>2
  <2> QED BY <1>11, <2>3, <2>4 DEF QueueApart
<1>18. (empties + Cardinality(QueueLooking) <= pops)'
  <2>1. t \in QueueLooking' => t \in QueueLooking
    BY <1>6, <1>7 DEF QueueLooking
  <2> QED BY <1>1, <1>2, <1>7, <2>1, QueueEmptiesStay DEF QueueTypes
<1>19. QueueFifo(b, b)
  <2>1. Members(b) \subseteq QueueNodes /\ n \notin Members(b)
    BY <1>10, QueueFacts
  <2> QED BY <1>1, <1>4, <2>1, QueueFifoStays
<1>20. QueueInv(b, A \cup {n}, va, B \cup {n}, vb, e)'
  BY <1>9, <1>11, <1>12, <1>14, <1>15, <1>16, <1>17, <1>18 DEF QueueInv
<1> QED BY <1>19, <1>20 DEF QueueKeeps

(* A push links its node z to the tail c, and has w instead.                *)
QueueLinksTo(t, c, z, w) ==
  /\ me[t].pc \in {"link", "help"} /\ c = me[t].cur /\ z = me[t].mine
  /\ node[c].next = Queue!None
  /\ w \in QueueNodes \cup {Null} /\ w \notin alive /\ alive' = alive \cup ({w} \ {Null})
  /\ node' \in [QueueNodes -> QueueFields]
  /\ \A m \in QueueNodes \ {c, w} : node'[m] = node[m]
  /\ node'[c].next = Queue!CountedNodePtr(1, z) /\ node'[c].data = node[c].data
  /\ node'[c].internal = node[c].internal /\ node'[c].counters = node[c].counters
  /\ w # Null => node'[w] = Queue!NewNode /\ me[t].val # Null
  /\ QueueBecomes(t, "setTail", me[t].old, c, Queue!CountedNodePtr(1, z), w, me[t].val)
  /\ UNCHANGED << head, tail, out, lost, pops, empties, emptyAt >>

(* A push links a next node to the tail: the invariant holds again.         *)
LEMMA QueueLinks ==
  ASSUME NEW b, NEW A, NEW va, NEW B, NEW vb, NEW e, QueueInv(b, A, va, B, vb, e),
         NEW t \in Threads, NEW c, NEW z, NEW w, QueueLinksTo(t, c, z, w)
  PROVE  QueueKeeps(b)
<1>1. /\ me[t].pc \in {"link", "help"} /\ c = me[t].cur /\ z = me[t].mine
      /\ node[c].next = Queue!None
      /\ w \in QueueNodes \cup {Null} /\ w \notin alive /\ alive' = alive \cup ({w} \ {Null})
      /\ UNCHANGED << head, tail, out, lost, pops, empties, emptyAt >>
  BY DEF QueueLinksTo
<1>2. /\ QueueTypes /\ (\A u \in Threads : QueueLocal(u) /\ QueueSeen(u, b))
      /\ QueueList(b) /\ QueueAlive(b) /\ QueueCounts(b, A, va, B, vb, e) /\ QueueApart(b)
      /\ empties + Cardinality(QueueLooking) <= pops
  BY DEF QueueInv
<1>3. /\ c \in alive /\ c \in QueueNodes /\ QueueUses(t) = {c} /\ c = tail.ptr
      /\ c \in QueueLinked(b) /\ c \notin Members(b) /\ c # w
      /\ node[c].data # Null /\ QueueAfter = {}
  <2>1. c \in alive /\ c \in QueueNodes /\ QueueUses(t) = {c} /\ c \notin QueueAfter \cup QueueSpare
    BY <1>1, QueueUsing DEF Queue!Touching
  <2>2. c = tail.ptr
    BY <1>1, <1>2, <2>1 DEF QueueAlive
  <2>3. c \in QueueLinked(b) /\ c \notin Members(b)
    BY <1>2, <2>2 DEF QueueLinked, QueueList
  <2>4. node[c].data # Null
    BY <1>1, <1>2, <2>3 DEF QueueSeen
  <2>5. QueueAfter = {}
    BY <1>1, <2>2, QueueIdleIs DEF QueueAfter
  <2> QED BY <1>1, <2>1, <2>2, <2>3, <2>4, <2>5
<1>4. PICK k : /\ k = Queue!CountedNodePtr(1, z) /\ k.ptr = z /\ k.count = 1
               /\ k # Queue!None
  <2>1. PICK k : k = Queue!CountedNodePtr(1, z)
    OBVIOUS
  <2>2. k.ptr = z /\ k.count = 1
    BY <2>1 DEF Queue!CountedNodePtr
  <2>3. k # Queue!None
    BY <2>2, QueueIdleIs
  <2> QED BY <2>1, <2>2, <2>3
<1>5. /\ node' \in [QueueNodes -> QueueFields]
      /\ \A m \in QueueNodes \ {c, w} : node'[m] = node[m]
      /\ node'[c].next = k /\ node'[c].data = node[c].data
      /\ node'[c].internal = node[c].internal /\ node'[c].counters = node[c].counters
      /\ w # Null => node'[w] = Queue!NewNode
  BY <1>4 DEF QueueLinksTo
<1>6. PICK p, o, q, s, x :
        /\ p = "setTail" /\ o = me[t].old /\ q = c /\ s = k /\ x = me[t].val
        /\ w # Null => x # Null
        /\ QueueBecomes(t, p, o, q, s, w, x)
  BY <1>4 DEF QueueLinksTo
<1>7. /\ me'[t].pc = p /\ me'[t].old = o /\ me'[t].cur = q /\ me'[t].to = s
      /\ me'[t].mine = w /\ me'[t].val = x /\ \A u \in Threads \ {t} : me'[u] = me[u]
      /\ me' \in [Threads -> QueueLocals]
  BY <1>6 DEF QueueBecomes
<1>8. QueueOthersStay(t) /\ QueueIsNow(t, p, o, q, s, w)
  BY <1>6, QueueOthers
<1> DEFINE W == {w} \ {Null}
<1>9. QueueTypes'
  <2>1. alive' \subseteq QueueNodes
    BY <1>1, <1>2 DEF QueueTypes
  <2> QED BY <1>1, <1>2, <1>5, <1>7, <2>1 DEF QueueTypes
<1>10. /\ z # Null /\ QueueMine(t) = {z} /\ QueueMine(t)' = W /\ z \in QueueSpare
       /\ z \in QueueNodes /\ z \in alive /\ z \notin QueueLinked(b) /\ z # c /\ z # w
       /\ node[z] = Queue!NewNode
  <2>1. z # Null
    BY <1>1, <1>2 DEF QueueLocal
  <2>2. QueueMine(t) = {z}
    BY <1>1, <2>1 DEF QueueMine
  <2>3. QueueMine(t)' = W
    BY <1>8 DEF QueueIsNow
  <2>4. z \in QueueSpare
    BY <2>2 DEF QueueSpare
  <2>5. z \in alive /\ z \notin QueueLinked(b) /\ z \in QueueNodes
    BY <1>2, <2>4 DEF QueueAlive, QueueTypes
  <2>6. node[z] = Queue!NewNode
    BY <1>2, <2>4 DEF QueueList
  <2> QED BY <1>1, <1>3, <2>1, <2>2, <2>3, <2>4, <2>5, <2>6
<1>11. /\ QueueSpare' = (QueueSpare \ {z}) \cup W
       /\ \A u \in Threads \ {t} : QueueMine(u)' = QueueMine(u)
       /\ W \cap QueueSpare = {} /\ W \cap QueueLinked(b) = {} /\ W \cap alive = {}
       /\ \A u \in Threads : QueueMine(u) \subseteq QueueSpare
  <2>1. \A u \in Threads \ {t} : QueueMine(u)' = QueueMine(u)
    BY <1>8 DEF QueueOthersStay
  <2>2. QueueSpare' = (QueueSpare \ QueueMine(t)) \cup QueueMine(t)'
    BY <1>2, <2>1, QueueSpareNext DEF QueueAlive
  <2>3. W \cap QueueSpare = {} /\ W \cap QueueLinked(b) = {} /\ W \cap alive = {}
    BY <1>1, <1>2 DEF QueueAlive
  <2>4. \A u \in Threads : QueueMine(u) \subseteq QueueSpare
    BY DEF QueueSpare
  <2> HIDE DEF W
  <2> QED BY <1>10, <2>1, <2>2, <2>3, <2>4
<1>12. QueueAfter' = {z} /\ QueueLinked(b)' = QueueLinked(b) \cup {z}
  <2>1. QueueAfter' = {z}
    BY <1>1, <1>3, <1>4, <1>5, <1>10 DEF QueueAfter
  <2> QED BY <1>1, <1>3, <2>1 DEF QueueLinked
<1>13. QueueLinked(b) \subseteq alive /\ alive \subseteq QueueNodes /\ QueueSpare \subseteq alive
       /\ Members(b) \subseteq QueueLinked(b)
  BY <1>2, QueueFacts DEF QueueAlive
<1>14. \A m \in alive \ {c} : node'[m] = node[m]
  BY <1>1, <1>5, <1>13
<1>15. QueueList(b)'
  <2>1. ListFrom(QueueNodes, tail.ptr, head.ptr, QueueNext', b)
    <3>1. \A m \in Members(b) : QueueNext'[m] = QueueNext[m]
      BY <1>3, <1>13, <1>14 DEF QueueNext
    <3>2. ListFrom(QueueNodes, tail.ptr, head.ptr, QueueNext, b)
      BY <1>2 DEF QueueList
    <3> QED BY <3>1, <3>2, ListStays
  <2>2. tail.ptr # Null /\ tail.ptr \notin Members(b)
    BY <1>2 DEF QueueList
  <2>3. QueueAfter' \cap (Members(b) \cup {tail.ptr}) = {}
    BY <1>3, <1>10, <1>12, <1>13
  <2>4. ASSUME NEW m \in QueueAfter' \cup QueueSpare' PROVE node'[m] = Queue!NewNode
    <3>1. CASE m \in W
      BY <1>5, <3>1
    <3>2. CASE m \notin W
      <4>1. m \in QueueSpare /\ m # c
        BY <1>3, <1>10, <1>11, <1>12, <3>2, QueueFacts
      <4> QED BY <1>2, <1>13, <1>14, <4>1 DEF QueueList
    <3> QED BY <3>1, <3>2
  <2>5. \A m \in Members(b) : node'[m].data # Null
    BY <1>2, <1>3, <1>13, <1>14 DEF QueueList
  <2>6. node'[tail'.ptr].data # Null
    BY <1>1, <1>3, <1>5
  <2> HIDE DEF W
  <2> QED BY <1>1, <2>1, <2>2, <2>3, <2>4, <2>5, <2>6 DEF QueueList, Queue!NewNode, Queue!None, Queue!CountedNodePtr
<1>16. QueueAlive(b)'
  <2>1. QueueLinked(b)' \subseteq alive' /\ QueueSpare' \subseteq alive'
    BY <1>1, <1>10, <1>11, <1>12, <1>13
  <2>2. QueueSpare' \cap QueueLinked(b)' = {}
    BY <1>2, <1>10, <1>11, <1>12 DEF QueueAlive
  <2>3. \A u \in Threads : \A v \in Threads \ {u} : QueueMine(u)' \cap QueueMine(v)' = {}
    <3>1. \A u \in Threads : \A v \in Threads \ {u} : QueueMine(u) \cap QueueMine(v) = {}
      BY <1>2 DEF QueueAlive
    <3>2. \A u \in Threads \ {t} : W \cap QueueMine(u) = {}
      BY <1>11
    <3> HIDE DEF W
    <3> QED BY <1>10, <1>11, <3>1, <3>2
  <2>4. ASSUME NEW m \in alive'
        PROVE  /\ node'[m].next = Queue!None => m \in QueueAfter' \cup QueueSpare' \cup {tail'.ptr}
               /\ node'[m].next # Queue!None => node'[m].next.count = 1 /\ node'[m].next.ptr # Null
               /\ m \in QueueLinked(b)' \cup QueueSpare' \/ out' # << >>
    <3>1. CASE m \in W
      <4>1. node'[m] = Queue!NewNode /\ m \in QueueSpare'
        BY <1>5, <1>11, <3>1
      <4> QED BY <4>1, QueueNewIs
    <3>2. CASE m = c
      BY <1>3, <1>4, <1>5, <1>10, <1>12, <3>2
    <3>3. CASE m \notin W /\ m # c
      <4>1. m \in alive /\ node'[m] = node[m]
        BY <1>1, <1>14, <3>3
      <4>2. /\ node[m].next = Queue!None => m \in QueueAfter \cup QueueSpare \cup {tail.ptr}
            /\ node[m].next # Queue!None => node[m].next.count = 1 /\ node[m].next.ptr # Null
            /\ m \in QueueLinked(b) \cup QueueSpare \/ out # << >>
        BY <1>2, <4>1 DEF QueueAlive
      <4>3. m \in QueueSpare => m \in QueueAfter' \cup QueueSpare' /\ m \in QueueLinked(b)' \cup QueueSpare'
        BY <1>11, <1>12
      <4> QED BY <1>1, <1>3, <1>12, <4>1, <4>2, <4>3
    <3> QED BY <3>1, <3>2, <3>3
  <2> HIDE DEF W
  <2> QED BY <2>1, <2>2, <2>3, <2>4 DEF QueueAlive, Queue!None, Queue!CountedNodePtr
<1>17. QueueUses(t)' = {c}
  BY <1>6, <1>8 DEF QueueIsNow, Queue!Touching
<1>18. \A u \in Threads : QueueLocal(u)'
  <2>1. QueueLocal(t)'
    <3>1. me[t].old.ptr = c
      BY <1>1, <1>2 DEF QueueLocal, Queue!Touching
    <3> QED BY <1>4, <1>6, <1>7, <3>1 DEF QueueLocal, Queue!Touching, Queue!None, Queue!CountedNodePtr
  <2> QED BY <1>2, <1>8, <2>1 DEF QueueOthersStay
<1>19. \A u \in Threads : QueueSeen(u, b)'
  <2>1. QueueSeen(t, b)'
    BY <1>1, <1>3, <1>5, <1>6, <1>7, <1>17 DEF QueueSeen
  <2>2. ASSUME NEW u \in Threads \ {t} PROVE QueueSeen(u, b)'
    <3>1. QueueUses(u) \subseteq alive
      BY <1>2 DEF QueueSeen
    <3>2. z \notin QueueUses(u)
      BY <1>10, QueueFacts
    <3>3. ASSUME NEW m \in QueueUses(u)
          PROVE  /\ m \in alive' /\ (node[m].next # Queue!None => node'[m].next = node[m].next)
                 /\ m \in QueueLinked(b)' => m \in QueueLinked(b)
                 /\ node[m].data # Null => node'[m].data # Null
      <4>1. m \in alive
        BY <3>1
      <4>2. CASE m = c
        BY <1>1, <1>3, <1>5, <4>1, <4>2
      <4>3. CASE m # c
        BY <1>1, <1>12, <1>14, <3>2, <4>1, <4>3
      <4> QED BY <4>2, <4>3
    <3> QED BY <1>1, <1>2, <1>7, <3>3, QueueSeenStays
  <2> QED BY <2>1, <2>2
<1>20. \E A2, B2 : QueueCounts(b, A2, va, B2, vb, e)'
  <2>1. HeadWon[t] = {} /\ HeadWon'[t] = {} /\ TailWon[t] = {} /\ TailWon'[t] = {}
    BY <1>1, <1>6, <1>8 DEF QueueIsNow, HeadWon, TailWon
  <2>2. SameWon(HeadWon, HeadWon', QueueRead, QueueRead')
    BY <1>8, <2>1 DEF SameWon, QueueOthersStay
  <2>3. SameWon(TailWon, TailWon', QueueRead, QueueRead')
    BY <1>8, <2>1 DEF SameWon, QueueOthersStay
  <2>4. \A m : QueueUsed(m)' = QueueUsed(m)
    <3>1. \A u \in Threads \ {t} : QueueUses(u)' = QueueUses(u)
      BY <1>8 DEF QueueOthersStay
    <3> QED BY <1>3, <1>17, <3>1, QueueUsersNext
  <2>5. \A m \in alive : /\ node'[m].internal = node[m].internal
                         /\ node'[m].counters = node[m].counters
    BY <1>5, <1>14
  <2>6. (QueueLinked(b) \cup QueueSpare)' = (QueueLinked(b) \cup QueueSpare) \cup W
    BY <1>10, <1>11, <1>12
  <2>7. ({tail.ptr} \cup QueueAfter \cup QueueSpare)'
           = ({tail.ptr} \cup QueueAfter \cup QueueSpare) \cup W
    BY <1>1, <1>3, <1>10, <1>11, <1>12
  <2>8. CASE w = Null
    <3>1. W = {}
      BY <2>8
    <3>2. alive' = alive
      BY <1>1, <3>1
    <3> HIDE DEF W
    <3>3. QueueCounts(b, A, va, B, vb, e)'
      BY <1>1, <1>2, <2>2, <2>3, <2>4, <2>5, <2>6, <2>7, <3>1, <3>2, QueueCountsStay
    <3> QED BY <3>3
  <2>9. CASE w # Null
    <3>1. W = {w} /\ w \in QueueNodes \ alive /\ alive' = alive \cup {w}
      BY <1>1, <2>9
    <3> HIDE DEF W
    <3>2. QueueCounts(b, A \cup {w}, va, B \cup {w}, vb, e)'
      BY <1>1, <1>5, <2>2, <2>3, <2>4, <2>5, <2>6, <2>7, <2>9, <3>1, QueueCountsGrow
    <3> QED BY <3>2
  <2> QED BY <2>8, <2>9
<1>21. QueueApart(b)'
  <2>1. QueueLinked(b)' \subseteq QueueNodes
    BY <1>10, <1>12, <1>13
  <2>2. \A u \in Threads : me'[u].val = me[u].val
    BY <1>6, <1>7
  <2>3. ASSUME NEW m \in QueueNodes PROVE node'[m].data = node[m].data \/ node'[m].data = Null
    BY <1>5, QueueNewIs DEF QueueNodes
  <2>4. ASSUME NEW m \in QueueLinked(b)' PROVE m \in QueueLinked(b) \/ node'[m].data = Null
    BY <1>10, <1>12, <1>14, QueueNewIs
  <2> HIDE DEF W
  <2> QED BY <1>1, <1>2, <2>1, <2>2, <2>3, <2>4, QueueApartStays
<1>22. (empties + Cardinality(QueueLooking) <= pops)'
  <2>1. t \in QueueLooking' => t \in QueueLooking
    BY <1>6, <1>7 DEF QueueLooking
  <2> QED BY <1>1, <1>2, <1>7, <2>1, QueueEmptiesStay DEF QueueTypes
<1>23. QueueFifo(b, b)
  <2>1. Members(b) \subseteq QueueNodes /\ \A m \in Members(b) : node'[m].data = node[m].data
    BY <1>3, <1>13, <1>14
  <2> QED BY <1>1, <2>1, QueueFifoStays
<1>24. PICK A2, B2 : QueueCounts(b, A2, va, B2, vb, e)'
  BY <1>20
<1>25. QueueInv(b, A2, va, B2, vb, e)'
  BY <1>9, <1>15, <1>16, <1>18, <1>19, <1>21, <1>22, <1>24 DEF QueueInv
<1> QED BY <1>23, <1>25 DEF QueueKeeps

(* A push that has stored its element links its node.                       *)
LEMMA QueueLink ==
  ASSUME NEW b, NEW A, NEW va, NEW B, NEW vb, NEW e, QueueInv(b, A, va, B, vb, e),
         NEW t \in Threads, Queue!Link(t), node[me[t].cur].next = Queue!None
  PROVE  QueueKeeps(b)
<1>1. PICK c, z, k : c = me[t].cur /\ z = me[t].mine /\ k = Queue!CountedNodePtr(1, z)
  OBVIOUS
<1>2. QueueTypes /\ QueueLocal(t)
  BY DEF QueueInv
<1>3. /\ me[t].pc = "link" /\ node' = [node EXCEPT ![c].next = k]
      /\ me' = [me EXCEPT ![t].pc = "setTail", ![t].to = node'[c].next, ![t].mine = Null]
      /\ UNCHANGED << head, tail, alive, out, lost, pops, empties, emptyAt >>
  BY <1>1 DEF Queue!Link, Queue!At, Queue!history
<1>4. c \in QueueNodes /\ me[t] \in QueueLocals
  BY <1>1, <1>3, QueueUsing DEF Queue!Touching
<1>5. k \in Queue!Counted /\ 1 \in 0..MaxCount
  BY <1>1, <1>4 DEF Queue!CountedNodePtr, Queue!Counted, QueueLocals, QueueNodes
<1>6. /\ node' \in [QueueNodes -> QueueFields] /\ \A m \in QueueNodes \ {c, Null} : node'[m] = node[m]
      /\ node'[c].next = k /\ node'[c].data = node[c].data
      /\ node'[c].internal = node[c].internal /\ node'[c].counters = node[c].counters
  <2>1. node \in [QueueNodes -> QueueFields] /\ node[c] \in QueueFields
    BY <1>2, <1>4 DEF QueueTypes
  <2>2. node' = [node EXCEPT ![c] = [node[c] EXCEPT !.next = k]]
    BY <1>3, <1>4, <2>1
  <2>3. [node[c] EXCEPT !.next = k] \in QueueFields
    BY <1>5, <2>1 DEF QueueFields
  <2>4. node'[c] = [node[c] EXCEPT !.next = k]
    BY <1>4, <2>1, <2>2
  <2>5. /\ node'[c].next = k /\ node'[c].data = node[c].data
        /\ node'[c].internal = node[c].internal /\ node'[c].counters = node[c].counters
    BY <2>1, <2>4 DEF QueueFields
  <2> QED BY <1>4, <2>1, <2>2, <2>3, <2>5
<1>7. QueueBecomes(t, "setTail", me[t].old, me[t].cur, k, Null, me[t].val)
  <2>1. me \in [Threads -> QueueLocals] /\ "setTail" \in QueuePlaces
    BY <1>2 DEF QueueTypes, QueuePlaces, Queue!Touching
  <2>2. me' = [me EXCEPT ![t].pc = "setTail", ![t].to = k, ![t].mine = Null]
    BY <1>3, <1>6
  <2> QED BY <1>5, <2>1, <2>2, QueueMovesPcToMine
<1>8. Null \notin alive /\ alive' = alive \cup ({Null} \ {Null})
  BY <1>2, <1>3 DEF QueueTypes, QueueNodes
<1>9. QueueLinksTo(t, c, z, Null)
  BY <1>1, <1>3, <1>6, <1>7, <1>8 DEF QueueLinksTo
<1> QED BY <1>9, QueueLinks

(* A helper links its node, and allocates another one.                      *)
LEMMA QueueHelpLink ==
  ASSUME NEW b, NEW A, NEW va, NEW B, NEW vb, NEW e, QueueInv(b, A, va, B, vb, e),
         NEW t \in Threads, NEW w \in QueueNodes, Queue!HelpLink(t, w)
  PROVE  QueueKeeps(b)
<1>1. PICK c, z, k : c = me[t].cur /\ z = me[t].mine /\ k = Queue!CountedNodePtr(1, z)
  OBVIOUS
<1>2. QueueTypes /\ QueueLocal(t)
  BY DEF QueueInv
<1>3. /\ me[t].pc = "help" /\ node[c].next = Queue!None /\ w \notin alive
      /\ alive' = alive \cup {w}
      /\ node' = [node EXCEPT ![c].next = k, ![w] = Queue!NewNode]
      /\ me' = [me EXCEPT ![t].pc = "setTail", ![t].mine = w, ![t].to = k]
      /\ UNCHANGED << head, tail, out, lost, pops, empties, emptyAt >>
  BY <1>1 DEF Queue!HelpLink, Queue!At, Queue!history
<1>4. c \in QueueNodes /\ c \in alive /\ c # w /\ me[t] \in QueueLocals
  BY <1>1, <1>3, QueueUsing DEF Queue!Touching
<1>5. k \in Queue!Counted /\ 1 \in 0..MaxCount
  BY <1>1, <1>4 DEF Queue!CountedNodePtr, Queue!Counted, QueueLocals, QueueNodes
<1>6. /\ node' \in [QueueNodes -> QueueFields] /\ \A m \in QueueNodes \ {c, w} : node'[m] = node[m]
      /\ node'[c].next = k /\ node'[c].data = node[c].data
      /\ node'[c].internal = node[c].internal /\ node'[c].counters = node[c].counters
      /\ node'[w] = Queue!NewNode
  <2>1. node \in [QueueNodes -> QueueFields] /\ node[c] \in QueueFields
    BY <1>2, <1>4 DEF QueueTypes
  <2>2. node' = [[node EXCEPT ![c] = [node[c] EXCEPT !.next = k]] EXCEPT ![w] = Queue!NewNode]
    BY <1>3, <1>4, <2>1
  <2>3. [node[c] EXCEPT !.next = k] \in QueueFields
    BY <1>5, <2>1 DEF QueueFields
  <2>4. node'[c] = [node[c] EXCEPT !.next = k]
    BY <1>4, <2>1, <2>2
  <2>5. /\ node'[c].next = k /\ node'[c].data = node[c].data
        /\ node'[c].internal = node[c].internal /\ node'[c].counters = node[c].counters
    BY <2>1, <2>4 DEF QueueFields
  <2> QED BY <1>4, <2>1, <2>2, <2>3, <2>5, QueueNewIs
<1>7. QueueBecomes(t, "setTail", me[t].old, me[t].cur, k, w, me[t].val)
  <2>1. me \in [Threads -> QueueLocals] /\ "setTail" \in QueuePlaces
    BY <1>2 DEF QueueTypes, QueuePlaces, Queue!Touching
  <2>2. me' = [me EXCEPT ![t].pc = "setTail", ![t].to = k, ![t].mine = w]
    BY <1>3
  <2> QED BY <1>5, <2>1, <2>2, QueueMovesPcToMine
<1>8. w # Null /\ {w} \ {Null} = {w} /\ me[t].val # Null
  BY <1>2, <1>3 DEF QueueNodes, QueueLocal
<1>9. QueueLinksTo(t, c, z, w)
  BY <1>1, <1>3, <1>6, <1>7, <1>8 DEF QueueLinksTo
<1> QED BY <1>9, QueueLinks

(* A push finds the next node linked, and deletes its own.                  *)
LEMMA QueueLinkLate ==
  ASSUME NEW b, NEW A, NEW va, NEW B, NEW vb, NEW e, QueueInv(b, A, va, B, vb, e),
         NEW t \in Threads, Queue!Link(t), node[me[t].cur].next # Queue!None
  PROVE  QueueKeeps(b)
<1>1. PICK c, z : c = me[t].cur /\ z = me[t].mine
  OBVIOUS
<1>2. /\ QueueTypes /\ (\A u \in Threads : QueueLocal(u) /\ QueueSeen(u, b))
      /\ QueueList(b) /\ QueueAlive(b) /\ QueueCounts(b, A, va, B, vb, e) /\ QueueApart(b)
      /\ empties + Cardinality(QueueLooking) <= pops
  BY DEF QueueInv
<1>3. /\ me[t].pc = "link" /\ node[c].next # Queue!None /\ alive' = alive \ {z}
      /\ me' = [me EXCEPT ![t].pc = "setTail", ![t].to = node[c].next, ![t].mine = Null]
      /\ UNCHANGED << head, tail, node, out, lost, pops, empties, emptyAt >>
  BY <1>1 DEF Queue!Link, Queue!At, Queue!history, Queue!Spare
<1>4. c \in QueueNodes /\ c \in alive /\ QueueUses(t) = {c}
  BY <1>1, <1>3, QueueUsing DEF Queue!Touching
<1>5. PICK p, o, q, s, w, x :
        /\ p = "setTail" /\ o = me[t].old /\ q = c /\ s = node[c].next /\ w = Null /\ x = me[t].val
        /\ QueueBecomes(t, p, o, q, s, w, x)
  <2>1. me \in [Threads -> QueueLocals] /\ "setTail" \in QueuePlaces
    BY <1>2 DEF QueueTypes, QueuePlaces, Queue!Touching
  <2>2. node[c].next \in Queue!Counted
    BY <1>4, QueueNumbers
  <2> QED BY <1>1, <1>3, <2>1, <2>2, QueueMovesPcToMine
<1>6. /\ me'[t].pc = p /\ me'[t].old = o /\ me'[t].cur = q /\ me'[t].to = s
      /\ me'[t].mine = w /\ me'[t].val = x /\ \A u \in Threads \ {t} : me'[u] = me[u]
      /\ me' \in [Threads -> QueueLocals]
  BY <1>5 DEF QueueBecomes
<1>7. QueueOthersStay(t) /\ QueueIsNow(t, p, o, q, s, w)
  BY <1>5, QueueOthers
<1>8. /\ z # Null /\ QueueMine(t) = {z} /\ QueueMine(t)' = {} /\ z \in QueueSpare
      /\ z \in QueueNodes /\ z \notin QueueLinked(b)
      /\ z # head.ptr /\ z # tail.ptr /\ e[z] = 0 /\ \A u \in Threads : z \notin QueueUses(u)
  <2>1. z # Null
    BY <1>1, <1>2, <1>3 DEF QueueLocal
  <2>2. QueueMine(t) = {z}
    BY <1>1, <2>1 DEF QueueMine
  <2>3. QueueMine(t)' = {}
    BY <1>5, <1>7 DEF QueueIsNow
  <2>4. z \in QueueSpare
    BY <2>2 DEF QueueSpare
  <2>5. z \notin QueueLinked(b) /\ z \in QueueNodes
    BY <1>2, <2>4 DEF QueueAlive, QueueTypes
  <2> QED BY <2>1, <2>2, <2>3, <2>4, <2>5, QueueFacts
<1>9. QueueTypes'
  BY <1>2, <1>3, <1>6 DEF QueueTypes
<1>10. /\ QueueSpare' = QueueSpare \ {z}
       /\ \A u \in Threads \ {t} : QueueMine(u)' = QueueMine(u)
  <2>1. \A u \in Threads \ {t} : QueueMine(u)' = QueueMine(u)
    BY <1>7 DEF QueueOthersStay
  <2>2. QueueSpare' = (QueueSpare \ QueueMine(t)) \cup QueueMine(t)'
    BY <1>2, <2>1, QueueSpareNext DEF QueueAlive
  <2> QED BY <1>8, <2>1, <2>2
<1>11. QueueList(b)' /\ QueueAfter' = QueueAfter /\ QueueLinked(b)' = QueueLinked(b)
  <2>1. QueueLinked(b) \subseteq QueueNodes
    BY QueueFacts
  <2>2. \A m \in QueueAfter \cup QueueSpare' : node'[m] = Queue!NewNode
    BY <1>2, <1>3, <1>10 DEF QueueList
  <2> QED BY <1>2, <1>3, <2>1, <2>2, QueueListStays
<1>12. QueueAlive(b)'
  <2>1. /\ QueueLinked(b) \subseteq alive' /\ QueueSpare' \subseteq alive'
        /\ QueueSpare' \cap QueueLinked(b) = {}
    BY <1>2, <1>3, <1>8, <1>10 DEF QueueAlive
  <2>2. \A u \in Threads : \A v \in Threads \ {u} : QueueMine(u)' \cap QueueMine(v)' = {}
    <3>1. \A u \in Threads : \A v \in Threads \ {u} : QueueMine(u) \cap QueueMine(v) = {}
      BY <1>2 DEF QueueAlive
    <3> QED BY <1>8, <1>10, <3>1
  <2>3. \A m \in alive' : /\ m \in alive /\ node'[m].next = node[m].next
                          /\ m \in QueueSpare => m \in QueueSpare'
    BY <1>3, <1>10
  <2> QED BY <1>2, <1>3, <1>11, <2>1, <2>2, <2>3, QueueAliveStays
<1>13. QueueUses(t)' = {c}
  BY <1>5, <1>7 DEF QueueIsNow, Queue!Touching
<1>14. \A u \in Threads : QueueLocal(u)'
  <2>1. QueueLocal(t)'
    <3>1. me[t].old.ptr = c
      BY <1>1, <1>2, <1>3 DEF QueueLocal, Queue!Touching
    <3> QED BY <1>3, <1>5, <1>6, <3>1 DEF QueueLocal, Queue!Touching, Queue!None, Queue!CountedNodePtr
  <2> QED BY <1>2, <1>7, <2>1 DEF QueueOthersStay
<1>15. \A u \in Threads : QueueSeen(u, b)'
  <2>1. QueueSeen(t, b)'
    BY <1>3, <1>4, <1>5, <1>6, <1>8, <1>13 DEF QueueSeen
  <2>2. ASSUME NEW u \in Threads \ {t} PROVE QueueSeen(u, b)'
    <3>1. QueueUses(u) \subseteq alive
      BY <1>2 DEF QueueSeen
    <3>2. QueueUses(u) \subseteq alive'
      BY <1>3, <1>8, <3>1
    <3> QED BY <1>2, <1>3, <1>6, <1>11, <3>2, QueueSeenStays
  <2> QED BY <2>1, <2>2
<1>16. QueueCounts(b, A \ {z}, va, B \ {z}, vb, e)'
  <2>1. HeadWon[t] = {} /\ HeadWon'[t] = {} /\ TailWon[t] = {} /\ TailWon'[t] = {}
    BY <1>3, <1>5, <1>7 DEF QueueIsNow, HeadWon, TailWon
  <2>2. SameWon(HeadWon, HeadWon', QueueRead, QueueRead')
    BY <1>7, <2>1 DEF SameWon, QueueOthersStay
  <2>3. SameWon(TailWon, TailWon', QueueRead, QueueRead')
    BY <1>7, <2>1 DEF SameWon, QueueOthersStay
  <2>4. \A m : QueueUsed(m)' = QueueUsed(m)
    <3>1. \A u \in Threads \ {t} : QueueUses(u)' = QueueUses(u)
      BY <1>7 DEF QueueOthersStay
    <3> QED BY <1>4, <1>13, <3>1, QueueUsersNext
  <2>5. (QueueLinked(b) \cup QueueSpare)' = (QueueLinked(b) \cup QueueSpare) \ {z}
    BY <1>8, <1>10, <1>11
  <2>6. QueueAfter \subseteq QueueLinked(b) /\ tail.ptr \in QueueLinked(b)
    BY QueueFacts
  <2>7. ({tail.ptr} \cup QueueAfter \cup QueueSpare)'
           = ({tail.ptr} \cup QueueAfter \cup QueueSpare) \ {z}
    BY <1>3, <1>8, <1>10, <1>11, <2>6
  <2>8. QueueSide(A \ {z}, va, head', (QueueLinked(b) \cup QueueSpare)', HeadWon', QueueRead')
    <3> DEFINE P == QueueLinked(b) \cup QueueSpare
    <3>1. QueueSide(A, va, head, P, HeadWon, QueueRead)
      BY <1>2 DEF QueueCounts
    <3>2. P' = P \ {z} /\ z \in P
      BY <1>8, <2>5
    <3> HIDE DEF P
    <3>3. QueueSide(A \ {z}, va, head, P \ {z}, HeadWon', QueueRead')
      BY <1>8, <2>2, <3>1, <3>2, SideDrops
    <3>4. QueueSide(A \ {z}, va, head', P', HeadWon', QueueRead')
      BY <1>3, <3>2, <3>3
    <3> QED BY <3>4 DEF P
  <2>9. QueueSide(B \ {z}, vb, tail', ({tail.ptr} \cup QueueAfter \cup QueueSpare)',
                  TailWon', QueueRead')
    <3> DEFINE P == {tail.ptr} \cup QueueAfter \cup QueueSpare
    <3>1. QueueSide(B, vb, tail, P, TailWon, QueueRead)
      BY <1>2 DEF QueueCounts
    <3>2. P' = P \ {z} /\ z \in P
      BY <1>8, <2>7
    <3> HIDE DEF P
    <3>3. QueueSide(B \ {z}, vb, tail, P \ {z}, TailWon', QueueRead')
      BY <1>8, <2>3, <3>1, <3>2, SideDrops
    <3>4. QueueSide(B \ {z}, vb, tail', P', TailWon', QueueRead')
      BY <1>3, <3>2, <3>3
    <3> QED BY <3>4 DEF P
  <2>10. ASSUME NEW m \in alive' PROVE QueueSettled(m, A \ {z}, va, B \ {z}, vb, e)'
    <3>1. m \in alive /\ m # z /\ QueueSettled(m, A, va, B, vb, e)
      BY <1>2, <1>3 DEF QueueCounts
    <3>2. (m \in A \ {z} <=> m \in A) /\ (m \in B \ {z} <=> m \in B)
      BY <3>1
    <3> QED BY <1>3, <2>4, <3>1, <3>2, QueueSettledStays
  <2>11. /\ e \in [QueueNodes -> Nat] /\ emptyAt' \subseteq alive'
         /\ \A m \in QueueNodes : m \in emptyAt' <=> e[m] # 0
    BY <1>2, <1>3, <1>8 DEF QueueCounts
  <2> QED BY <2>8, <2>9, <2>10, <2>11 DEF QueueCounts
<1>17. QueueApart(b)'
  <2>1. QueueLinked(b) \subseteq QueueNodes
    BY QueueFacts
  <2>2. \A u \in Threads : me'[u].val = me[u].val
    BY <1>5, <1>6
  <2> QED BY <1>2, <1>3, <1>11, <2>1, <2>2, QueueApartStays
<1>18. (empties + Cardinality(QueueLooking) <= pops)'
  <2>1. t \in QueueLooking' => t \in QueueLooking
    BY <1>5, <1>6 DEF QueueLooking
  <2> QED BY <1>2, <1>3, <1>6, <2>1, QueueEmptiesStay DEF QueueTypes
<1>19. QueueFifo(b, b)
  BY <1>3, QueueFacts, QueueFifoStays
<1>20. QueueInv(b, A \ {z}, va, B \ {z}, vb, e)'
  BY <1>9, <1>11, <1>12, <1>14, <1>15, <1>16, <1>17, <1>18 DEF QueueInv
<1> QED BY <1>19, <1>20 DEF QueueKeeps

-----------------------------------------------------------------------------
(* The steps that move the tail and the head: a push and a pop for the      *)
(* callers.                                                                 *)

(* The members of a sequence with one more.                                 *)
LEMMA MembersAppend ==
  ASSUME NEW N, NEW s \in Seq(N), NEW x \in N
  PROVE  Members(Append(s, x)) = Members(s) \cup {x}
<1> DEFINE d == Append(s, x)
<1>1. /\ Len(s) \in Nat /\ Len(d) = Len(s) + 1 /\ d[Len(s) + 1] = x
      /\ \A i \in 1..Len(s) : d[i] = s[i]
  BY AppendProperties
<1> HIDE DEF d
<1>2. \A i \in 1..Len(d) : i \in 1..Len(s) \/ i = Len(s) + 1
  BY <1>1
<1>3. Len(s) + 1 \in 1..Len(d) /\ \A i \in 1..Len(s) : i \in 1..Len(d)
  BY <1>1
<1>4. Members(d) = Members(s) \cup {x}
  BY <1>1, <1>2, <1>3 DEF Members
<1> QED BY <1>4 DEF d

(* A push moves the tail to the next node: its element is in the queue.     *)
LEMMA QueueSetTail ==
  ASSUME NEW b, NEW A, NEW va, NEW B, NEW vb, NEW e, QueueInv(b, A, va, B, vb, e),
         NEW t \in Threads, Queue!SetTail(t)
  PROVE  QueueKeeps(b)
<1>1. /\ me[t].pc = "setTail" /\ tail = me[t].old /\ tail' = me[t].to
      /\ me' = [me EXCEPT ![t].pc = "free"]
      /\ UNCHANGED << head, node, alive, out, lost, pops, empties, emptyAt >>
  BY DEF Queue!SetTail, Queue!At, Queue!TailExpected, Queue!history
<1>2. /\ QueueTypes /\ (\A u \in Threads : QueueLocal(u) /\ QueueSeen(u, b))
      /\ QueueList(b) /\ QueueAlive(b) /\ QueueCounts(b, A, va, B, vb, e) /\ QueueApart(b)
      /\ empties + Cardinality(QueueLooking) <= pops
  BY DEF QueueInv
<1>3. PICK c, k, a :
        /\ c = me[t].cur /\ c = tail.ptr /\ c \in QueueNodes /\ c \in alive /\ QueueUses(t) = {c}
        /\ k = me[t].to /\ k = node[c].next /\ k # Queue!None /\ k.count = 1 /\ k.ptr # Null
        /\ a = k.ptr /\ QueueAfter = {a} /\ k \in Queue!Counted
        /\ c \in QueueLinked(b) /\ c \notin Members(b) /\ node[c].data # Null
        /\ a # c /\ a \notin Members(b) /\ node[a] = Queue!NewNode /\ a \in alive /\ a \in QueueNodes
  <2>1. PICK c, k, a : c = me[t].cur /\ k = me[t].to /\ a = k.ptr
    OBVIOUS
  <2>2. c \in QueueNodes /\ c \in alive /\ QueueUses(t) = {c}
    BY <1>1, <2>1, QueueUsing DEF Queue!Touching
  <2>3. c = tail.ptr
    BY <1>1, <1>2, <2>1 DEF QueueLocal, Queue!Touching
  <2>4. k = node[c].next /\ k # Queue!None
    BY <1>1, <1>2, <2>1 DEF QueueLocal, QueueSeen
  <2>5. k.count = 1 /\ k.ptr # Null
    BY <1>2, <2>2, <2>4 DEF QueueAlive
  <2>6. QueueAfter = {a}
    BY <2>1, <2>3, <2>4, <2>5 DEF QueueAfter
  <2>7. c \in QueueLinked(b) /\ c \notin Members(b) /\ node[c].data # Null
    BY <1>2, <2>3, <2>6 DEF QueueList, QueueLinked
  <2>8. a # c /\ a \notin Members(b) /\ node[a] = Queue!NewNode /\ a \in alive /\ a \in QueueNodes
    BY <1>2, <2>3, <2>6, QueueFacts DEF QueueList
  <2>9. k \in Queue!Counted
    <3>1. node[c].next \in Queue!Counted
      BY <2>2, QueueNumbers
    <3> QED BY <2>4, <3>1
  <2> QED BY <2>1, <2>2, <2>3, <2>4, <2>5, <2>6, <2>7, <2>8, <2>9
<1>4. PICK p, o, q, s, w, x :
        /\ p = "free" /\ o = tail /\ q = c /\ s = k /\ w = me[t].mine /\ x = me[t].val
        /\ QueueBecomes(t, p, o, q, s, w, x)
  <2>1. me \in [Threads -> QueueLocals] /\ "free" \in QueuePlaces
    BY <1>2 DEF QueueTypes, QueuePlaces, Queue!Touching
  <2> QED BY <1>1, <1>3, <2>1, QueueMovesPc
<1>5. /\ me'[t].pc = p /\ me'[t].old = o /\ me'[t].cur = q /\ me'[t].to = s
      /\ me'[t].mine = w /\ me'[t].val = x /\ \A u \in Threads \ {t} : me'[u] = me[u]
      /\ me' \in [Threads -> QueueLocals]
  BY <1>4 DEF QueueBecomes
<1>6. QueueOthersStay(t) /\ QueueIsNow(t, p, o, q, s, w)
  BY <1>4, QueueOthers
<1>7. PICK d : d = Append(b, c)
  OBVIOUS
<1>8. /\ ListFrom(QueueNodes, a, head.ptr, QueueNext, d) /\ Members(d) = Members(b) \cup {c}
  <2>1. QueueNext[c] = a
    BY <1>3 DEF QueueNext
  <2>2. ListFrom(QueueNodes, c, head.ptr, QueueNext, b)
    <3>1. ListFrom(QueueNodes, tail.ptr, head.ptr, QueueNext, b)
      BY <1>2 DEF QueueList
    <3> QED BY <1>3, <3>1
  <2> QED BY <1>3, <1>7, <2>1, <2>2, ListAppend
<1>9. tail' = k /\ tail'.ptr = a /\ QueueTypes'
  BY <1>1, <1>2, <1>3, <1>5 DEF QueueTypes
<1>10. QueueSpare' = QueueSpare /\ \A u \in Threads : QueueMine(u)' = QueueMine(u)
  <2>1. QueueMine(t)' = QueueMine(t)
    BY <1>4, <1>6 DEF QueueMine, QueueIsNow
  <2>2. \A u \in Threads : QueueMine(u)' = QueueMine(u)
    BY <1>6, <2>1 DEF QueueOthersStay
  <2> QED BY <1>2, <2>1, <2>2, QueueSpareNext DEF QueueAlive
<1>11. QueueAfter' = {} /\ QueueLinked(d)' = QueueLinked(b)
  <2>1. QueueAfter' = {}
    BY <1>1, <1>3, <1>9, QueueNewIs, QueueIdleIs DEF QueueAfter
  <2>2. QueueAfter = {a} /\ c = tail.ptr /\ Members(d) = Members(b) \cup {c} /\ tail'.ptr = a
    BY <1>3, <1>8, <1>9
  <2>3. QueueLinked(d)' = Members(d) \cup {a} \cup {}
    BY <2>1, <2>2 DEF QueueLinked
  <2>4. QueueLinked(b) = Members(b) \cup {c} \cup {a}
    BY <2>2 DEF QueueLinked
  <2>5. QueueLinked(d)' = QueueLinked(b)
    BY <2>2, <2>3, <2>4
  <2> QED BY <2>1, <2>5
<1>12. QueueList(d)'
  <2>1. QueueNext' = QueueNext
    BY <1>1 DEF QueueNext
  <2>2. ListFrom(QueueNodes, tail'.ptr, head'.ptr, QueueNext', d)
    BY <1>1, <1>8, <1>9, <2>1
  <2>3. tail'.ptr # Null /\ tail'.ptr \notin Members(d)
    BY <1>3, <1>8, <1>9
  <2>4. \A n \in QueueAfter' \cup QueueSpare' : node'[n] = Queue!NewNode
    BY <1>1, <1>2, <1>10, <1>11 DEF QueueList
  <2>5. \A n \in Members(d) : node'[n].data # Null
    <3>1. /\ node' = node /\ Members(d) = Members(b) \cup {c} /\ node[c].data # Null
          /\ \A n \in Members(b) : node[n].data # Null
      <4>1. \A n \in Members(b) : node[n].data # Null
        BY <1>2 DEF QueueList
      <4>2. node[c].data # Null
        BY <1>3
      <4> QED BY <1>1, <1>8, <4>1, <4>2
    <3> QED BY <3>1
  <2> QED BY <1>11, <2>2, <2>3, <2>4, <2>5 DEF QueueList, Queue!NewNode, Queue!None, Queue!CountedNodePtr
<1>13. QueueAlive(d)'
  <2>1. /\ QueueLinked(b) \subseteq alive' /\ QueueSpare' \subseteq alive'
        /\ QueueSpare' \cap QueueLinked(b) = {}
        /\ \A u \in Threads : \A y \in Threads \ {u} : QueueMine(u)' \cap QueueMine(y)' = {}
    BY <1>1, <1>2, <1>10 DEF QueueAlive
  <2>2. ASSUME NEW n \in alive'
        PROVE  /\ node'[n].next = Queue!None => n \in QueueAfter' \cup QueueSpare' \cup {tail'.ptr}
               /\ node'[n].next # Queue!None => node'[n].next.count = 1 /\ node'[n].next.ptr # Null
               /\ n \in QueueLinked(b) \cup QueueSpare' \/ out' # << >>
    <3>1. /\ node' = node /\ n \in alive /\ out' = out /\ QueueSpare' = QueueSpare
          /\ QueueAfter = {a} /\ c = tail.ptr /\ node[c].next # Queue!None /\ tail'.ptr = a
      BY <1>1, <1>3, <1>9, <1>10
    <3>2. /\ node[n].next = Queue!None => n \in QueueAfter \cup QueueSpare \cup {tail.ptr}
          /\ node[n].next # Queue!None => node[n].next.count = 1 /\ node[n].next.ptr # Null
          /\ n \in QueueLinked(b) \cup QueueSpare \/ out # << >>
      BY <1>2, <3>1 DEF QueueAlive
    <3> QED BY <3>1, <3>2
  <2> QED BY <1>11, <2>1, <2>2 DEF QueueAlive, Queue!None, Queue!CountedNodePtr
<1>14. QueueUses(t)' = {c}
  BY <1>4, <1>6 DEF QueueIsNow, Queue!Touching
<1>15. \A u \in Threads : QueueLocal(u)'
  <2>1. QueueLocal(t)'
    <3>1. me[t].mine # Null => me[t].val # Null
      BY <1>1, <1>2 DEF QueueLocal
    <3>2. /\ p = "free" /\ o.ptr = q /\ s # Queue!None /\ w = me[t].mine /\ x = me[t].val
      BY <1>3, <1>4
    <3>3. /\ me'[t].pc = "free" /\ me'[t].old.ptr = me'[t].cur /\ me'[t].to # Queue!None
          /\ me'[t].mine # Null => me'[t].val # Null
      BY <1>5, <3>1, <3>2
    <3> QED BY <3>3 DEF QueueLocal, Queue!Touching, Queue!None, Queue!CountedNodePtr
  <2> QED BY <1>2, <1>6, <2>1 DEF QueueOthersStay
<1>16. \A u \in Threads : QueueSeen(u, d)'
  <2>1. QueueSeen(t, d)'
    <3>1. me'[t].pc \notin {"setTail", "link", "help", "look", "setHead"}
      BY <1>4, <1>5
    <3>2. {c} \subseteq alive'
      BY <1>1, <1>3
    <3> QED BY <1>14, <3>1, <3>2 DEF QueueSeen
  <2>2. ASSUME NEW u \in Threads \ {t} PROVE QueueSeen(u, d)'
    <3>1. QueueUses(u) \subseteq alive /\ a \notin QueueUses(u)
      BY <1>2, <1>3, QueueFacts DEF QueueSeen
    <3> QED BY <1>1, <1>2, <1>5, <1>9, <1>11, <3>1, QueueSeenStays
  <2> QED BY <2>1, <2>2
<1>17. QueueCounts(d, A, va, B, vb, e)'
  <2>1. /\ HeadWon[t] = {} /\ HeadWon'[t] = {} /\ TailWon[t] = {} /\ TailWon'[t] = {c}
        /\ QueueRead'[t] = tail.count
    <3>1. p = "free" /\ o = tail /\ q = c /\ s # Queue!None /\ me[t].pc = "setTail"
      <4>1. s # Queue!None
        BY <1>3, <1>4
      <4> QED BY <1>1, <1>4, <4>1
    <3>2. HeadWon[t] = {} /\ TailWon[t] = {}
      BY <3>1 DEF HeadWon, TailWon
    <3> QED BY <1>6, <3>1, <3>2 DEF QueueIsNow
  <2>2. SameWon(HeadWon, HeadWon', QueueRead, QueueRead')
    BY <1>6, <2>1 DEF SameWon, QueueOthersStay
  <2>3. \A u \in Threads \ {t} : TailWon'[u] = TailWon[u] /\ QueueRead'[u] = QueueRead[u]
    BY <1>6 DEF QueueOthersStay
  <2>4. QueueSide(A, va, head', (QueueLinked(d) \cup QueueSpare)', HeadWon', QueueRead')
    BY <1>1, <1>2, <1>10, <1>11, <2>2, SideStays DEF QueueCounts
  <2>5. QueueSide(B, vb, tail', ({tail.ptr} \cup QueueAfter \cup QueueSpare)',
                  TailWon', QueueRead')
    <3> DEFINE P == {tail.ptr} \cup QueueAfter \cup QueueSpare
    <3>1. QueueSide(B, vb, tail, P, TailWon, QueueRead)
      BY <1>2 DEF QueueCounts
    <3>2. P' = P \ {tail.ptr} /\ a \in P \ {tail.ptr}
      <4>1. c \notin QueueSpare
        BY <1>3, QueueFacts
      <4> QED BY <1>3, <1>9, <1>10, <1>11, <4>1
    <3> HIDE DEF P
    <3>3. TailWon'[t] = {tail.ptr}
      BY <1>3, <2>1
    <3>6. k.count = 1 /\ k.ptr \in P \ {tail.ptr} /\ TailWon[t] = {} /\ QueueRead'[t] = tail.count
      BY <1>3, <2>1, <3>2
    <3>4. QueueSide(B, vb, k, P \ {tail.ptr}, TailWon', QueueRead')
      BY <2>3, <3>1, <3>3, <3>6, SideWins
    <3>5. QueueSide(B, vb, tail', P', TailWon', QueueRead')
      BY <1>9, <3>2, <3>4
    <3> QED BY <3>5 DEF P
  <2>6. ASSUME NEW m \in alive' PROVE QueueSettled(m, A, va, B, vb, e)'
    <3>1. m \in alive /\ QueueSettled(m, A, va, B, vb, e)
      BY <1>1, <1>2 DEF QueueCounts
    <3>2. \A u \in Threads \ {t} : QueueUses(u)' = QueueUses(u)
      BY <1>6 DEF QueueOthersStay
    <3>3. QueueUsed(m)' = QueueUsed(m)
      BY <1>3, <1>14, <3>2, QueueUsersNext
    <3> QED BY <1>1, <3>1, <3>3, QueueSettledStays
  <2>7. /\ e \in [QueueNodes -> Nat] /\ emptyAt' \subseteq alive'
        /\ \A m \in QueueNodes : m \in emptyAt' <=> e[m] # 0
    BY <1>1, <1>2 DEF QueueCounts
  <2> QED BY <2>4, <2>5, <2>6, <2>7 DEF QueueCounts
<1>18. QueueApart(d)'
  <2>1. QueueLinked(b) \subseteq QueueNodes
    BY QueueFacts
  <2>2. \A u \in Threads : me'[u].val = me[u].val
    BY <1>4, <1>5
  <2> QED BY <1>1, <1>2, <1>11, <2>1, <2>2, QueueApartStays
<1>19. (empties + Cardinality(QueueLooking) <= pops)'
  <2>1. t \in QueueLooking' => t \in QueueLooking
    BY <1>4, <1>5 DEF QueueLooking
  <2> QED BY <1>1, <1>2, <1>5, <2>1, QueueEmptiesStay DEF QueueTypes
<1>20. QueueFifo(b, d)
  <2>1. PICK y : y = node[c].data
    OBVIOUS
  <2>2. /\ y \in Values /\ y \notin lost \cup Members(out)
        /\ \A m \in QueueLinked(b) \ {c} : node[m].data # y
    <3>1. y \in Values \cup {Null}
      BY <1>3, <2>1, QueueNumbers
    <3> QED BY <1>2, <1>3, <2>1, <3>1 DEF QueueApart
  <2>3. b \in Seq(QueueNodes) /\ Members(b) \subseteq QueueLinked(b) /\ QueueLinked(b) \subseteq QueueNodes
    BY QueueFacts
  <2>4. QueueData' = QueueData /\ QueueData[c] = y
    BY <1>1, <1>3, <2>1 DEF QueueData
  <2>5. Along(QueueData', d) = Append(Along(QueueData, b), y)
    <3>1. Along(QueueData, Append(b, c)) = Append(Along(QueueData, b), QueueData[c])
      <4>1. b \in Seq(QueueNodes) /\ c \in QueueNodes
        BY <1>3, <2>3
      <4>2. \A f : Along(f, Append(b, c)) = Append(Along(f, b), f[c])
        BY <4>1, AlongAppend
      <4> QED BY <4>2
    <3> QED BY <1>7, <2>4, <3>1
  <2>6. y \notin Members(Along(QueueData, b))
    <3>1. Members(Along(QueueData, b)) = { QueueData[m] : m \in Members(b) }
      BY <2>3, AlongMembers
    <3>2. \A m \in Members(b) : QueueData[m] # y
      BY <1>3, <2>2, <2>3 DEF QueueData
    <3> QED BY <3>1, <3>2
  <2> QED BY <1>1, <2>2, <2>5, <2>6 DEF QueueFifo, FifoStep
<1>21. QueueInv(d, A, va, B, vb, e)'
  BY <1>9, <1>12, <1>13, <1>15, <1>16, <1>17, <1>18, <1>19 DEF QueueInv
<1> QED BY <1>20, <1>21 DEF QueueKeeps

(* A pop moves the head to the next node: its element has left the queue.   *)
LEMMA QueueSetHead ==
  ASSUME NEW b, NEW A, NEW va, NEW B, NEW vb, NEW e, QueueInv(b, A, va, B, vb, e),
         NEW t \in Threads, Queue!SetHead(t)
  PROVE  QueueKeeps(b)
<1>1. /\ me[t].pc = "setHead" /\ head = me[t].old /\ head' = node[me[t].cur].next
      /\ out' = Append(out, node[me[t].cur].data)
      /\ me' = [me EXCEPT ![t].pc = "take"]
      /\ UNCHANGED << tail, node, alive, lost, pops, empties, emptyAt >>
  BY DEF Queue!SetHead, Queue!At
<1>2. /\ QueueTypes /\ (\A u \in Threads : QueueLocal(u) /\ QueueSeen(u, b))
      /\ QueueList(b) /\ QueueAlive(b) /\ QueueCounts(b, A, va, B, vb, e) /\ QueueApart(b)
      /\ empties + Cardinality(QueueLooking) <= pops
  BY DEF QueueInv
<1>3. PICK c, k, y :
        /\ c = me[t].cur /\ c = head.ptr /\ c # tail.ptr
        /\ c \in QueueNodes /\ c \in alive /\ QueueUses(t) = {c}
        /\ c \notin QueueAfter \cup QueueSpare
        /\ k = node[c].next /\ k \in Queue!Counted /\ k.count = 1 /\ y = node[c].data
  <2>1. PICK c, k, y : c = me[t].cur /\ k = node[c].next /\ y = node[c].data
    OBVIOUS
  <2>2. c \in QueueNodes /\ c \in alive /\ QueueUses(t) = {c} /\ c \notin QueueAfter \cup QueueSpare
    BY <1>1, <2>1, QueueUsing DEF Queue!Touching
  <2>3. c = head.ptr /\ c # tail.ptr
    BY <1>1, <1>2, <2>1 DEF QueueLocal, QueueSeen, Queue!Touching
  <2>4. k \in Queue!Counted
    BY <2>1, <2>2, QueueNumbers
  <2>5. k.count = 1
    BY <1>2, <2>1, <2>2, <2>3 DEF QueueAlive
  <2> QED BY <2>1, <2>2, <2>3, <2>4, <2>5
<1>4. PICK p, o, q, s, w, x :
        /\ p = "take" /\ o = head /\ q = c /\ s = Queue!None /\ w = Null /\ x = me[t].val
        /\ QueueBecomes(t, p, o, q, s, w, x) /\ me[t].mine = Null
  <2>1. me \in [Threads -> QueueLocals] /\ "take" \in QueuePlaces
    BY <1>2 DEF QueueTypes, QueuePlaces, Queue!Touching
  <2>2. me[t].to = Queue!None /\ me[t].mine = Null
    BY <1>1, <1>2 DEF QueueLocal
  <2> QED BY <1>1, <1>3, <2>1, <2>2, QueueMovesPc
<1>5. /\ me'[t].pc = p /\ me'[t].old = o /\ me'[t].cur = q /\ me'[t].to = s
      /\ me'[t].mine = w /\ me'[t].val = x /\ \A u \in Threads \ {t} : me'[u] = me[u]
      /\ me' \in [Threads -> QueueLocals]
  BY <1>4 DEF QueueBecomes
<1>6. QueueOthersStay(t) /\ QueueIsNow(t, p, o, q, s, w)
  BY <1>4, QueueOthers
<1>7. PICK d : d = Tail(b)
  OBVIOUS
<1>8. /\ b # << >> /\ c = Head(b) /\ c \in Members(b)
      /\ ListFrom(QueueNodes, tail.ptr, k.ptr, QueueNext, d) /\ Members(d) = Members(b) \ {c}
  <2>1. QueueNext[c] = k.ptr
    BY <1>3 DEF QueueNext
  <2>2. ListFrom(QueueNodes, tail.ptr, c, QueueNext, b)
    BY <1>2, <1>3 DEF QueueList
  <2> QED BY <1>3, <1>7, <2>1, <2>2, ListPop
<1>9. /\ head' = k /\ QueueAfter' = QueueAfter /\ QueueLinked(d)' = QueueLinked(b) \ {c}
      /\ c \in QueueLinked(b)
  <2>1. head' = k /\ QueueAfter' = QueueAfter
    BY <1>1, <1>3 DEF QueueAfter
  <2> QED BY <1>1, <1>3, <1>8, <2>1 DEF QueueLinked
<1>10. k.ptr \in QueueLinked(d)'
  <2>1. Len(d) \in Nat /\ k.ptr = IF Len(d) = 0 THEN tail.ptr ELSE d[1]
    BY <1>8 DEF ListFrom
  <2>2. CASE Len(d) = 0
    BY <1>1, <2>1, <2>2 DEF QueueLinked
  <2>3. CASE Len(d) # 0
    <3>1. 1 \in 1..Len(d)
      BY <2>1, <2>3
    <3> QED BY <2>1, <2>3, <3>1 DEF QueueLinked, Members
  <2> QED BY <2>2, <2>3
<1>11. y \in Values /\ y \notin lost \cup Members(out)
       /\ (\A m \in QueueLinked(b) \ {c} : node[m].data # y) /\ \A u \in Threads : me[u].val # y
  <2>1. y # Null
    BY <1>2, <1>3, <1>8 DEF QueueList
  <2>2. y \in Values \cup {Null}
    BY <1>3, QueueNumbers
  <2> QED BY <1>2, <1>3, <1>9, <2>1, <2>2 DEF QueueApart
<1>12. /\ out' \in Seq(Values) /\ out' # << >> /\ out' = Append(out, y)
       /\ Members(out') = Members(out) \cup {y}
  <2>1. out \in Seq(Values) /\ out' = Append(out, y)
    BY <1>1, <1>2, <1>3 DEF QueueTypes
  <2>2. Members(out') = Members(out) \cup {y}
    BY <1>11, <2>1, MembersAppend
  <2>3. out' \in Seq(Values) /\ out' # << >>
    BY <1>11, <2>1, AppendProperties
  <2> QED BY <2>1, <2>2, <2>3
<1>13. QueueTypes'
  BY <1>1, <1>2, <1>3, <1>5, <1>9, <1>12 DEF QueueTypes
<1>14. QueueSpare' = QueueSpare /\ \A u \in Threads : QueueMine(u)' = QueueMine(u)
  <2>1. QueueMine(t)' = QueueMine(t)
    BY <1>4, <1>6 DEF QueueMine, QueueIsNow
  <2>2. \A u \in Threads : QueueMine(u)' = QueueMine(u)
    BY <1>6, <2>1 DEF QueueOthersStay
  <2> QED BY <1>2, <2>1, <2>2, QueueSpareNext DEF QueueAlive
<1>15. QueueList(d)'
  <2>1. QueueNext' = QueueNext
    BY <1>1 DEF QueueNext
  <2>2. ListFrom(QueueNodes, tail'.ptr, head'.ptr, QueueNext', d)
    BY <1>1, <1>8, <1>9, <2>1
  <2>3. /\ tail.ptr # Null /\ tail.ptr \notin Members(b)
        /\ QueueAfter \cap (Members(b) \cup {tail.ptr}) = {}
        /\ \A n \in QueueAfter \cup QueueSpare : node[n] = Queue!NewNode
        /\ \A n \in Members(b) : node[n].data # Null
        /\ QueueAfter # {} => node[tail.ptr].data # Null
    BY <1>2 DEF QueueList
  <2> QED BY <1>1, <1>8, <1>9, <1>14, <2>2, <2>3
        DEF QueueList, Queue!NewNode, Queue!None, Queue!CountedNodePtr
<1>16. QueueAlive(d)'
  <2>1. /\ QueueLinked(d)' \subseteq alive' /\ QueueSpare' \subseteq alive'
        /\ QueueSpare' \cap QueueLinked(d)' = {}
        /\ \A u \in Threads : \A v \in Threads \ {u} : QueueMine(u)' \cap QueueMine(v)' = {}
    BY <1>1, <1>2, <1>9, <1>14 DEF QueueAlive
  <2>2. ASSUME NEW n \in alive'
        PROVE  /\ node'[n].next = Queue!None => n \in QueueAfter' \cup QueueSpare' \cup {tail'.ptr}
               /\ node'[n].next # Queue!None => node'[n].next.count = 1 /\ node'[n].next.ptr # Null
    BY <1>1, <1>2, <1>9, <1>14 DEF QueueAlive
  <2> QED BY <1>12, <2>1, <2>2 DEF QueueAlive, Queue!None, Queue!CountedNodePtr
<1>17. QueueUses(t)' = {c}
  BY <1>4, <1>6 DEF QueueIsNow, Queue!Touching
<1>18. \A u \in Threads : QueueLocal(u)'
  <2>1. QueueLocal(t)'
    BY <1>3, <1>4, <1>5 DEF QueueLocal, Queue!Touching, Queue!None, Queue!CountedNodePtr
  <2> QED BY <1>2, <1>6, <2>1 DEF QueueOthersStay
<1>19. \A u \in Threads : QueueSeen(u, d)'
  <2>1. QueueSeen(t, d)'
    BY <1>1, <1>3, <1>4, <1>5, <1>17 DEF QueueSeen
  <2>2. ASSUME NEW u \in Threads \ {t} PROVE QueueSeen(u, d)'
    <3>1. QueueUses(u) \subseteq alive
      BY <1>2 DEF QueueSeen
    <3> QED BY <1>1, <1>2, <1>3, <1>5, <1>9, <3>1, QueueSeenStays
  <2> QED BY <2>1, <2>2
<1>20. QueueCounts(d, A, va, B, vb, e)'
  <2>1. /\ HeadWon[t] = {} /\ HeadWon'[t] = {c} /\ TailWon[t] = {} /\ TailWon'[t] = {}
        /\ QueueRead'[t] = head.count
    BY <1>1, <1>4, <1>6 DEF QueueIsNow, HeadWon, TailWon
  <2>2. SameWon(TailWon, TailWon', QueueRead, QueueRead')
    BY <1>6, <2>1 DEF SameWon, QueueOthersStay
  <2>3. \A u \in Threads \ {t} : HeadWon'[u] = HeadWon[u] /\ QueueRead'[u] = QueueRead[u]
    BY <1>6 DEF QueueOthersStay
  <2>4. QueueSide(A, va, head', (QueueLinked(d) \cup QueueSpare)', HeadWon', QueueRead')
    <3> DEFINE P == QueueLinked(b) \cup QueueSpare
    <3>1. QueueSide(A, va, head, P, HeadWon, QueueRead)
      BY <1>2 DEF QueueCounts
    <3>2. (QueueLinked(d) \cup QueueSpare)' = P \ {head.ptr} /\ k.ptr \in P \ {head.ptr}
      BY <1>3, <1>9, <1>10, <1>14
    <3> HIDE DEF P
    <3>3. HeadWon'[t] = {head.ptr}
      BY <1>3, <2>1
    <3>4. QueueSide(A, va, k, P \ {head.ptr}, HeadWon', QueueRead')
      BY <1>3, <2>1, <2>3, <3>1, <3>2, <3>3, SideWins
    <3> QED BY <1>9, <3>2, <3>4
  <2>5. QueueSide(B, vb, tail', ({tail.ptr} \cup QueueAfter \cup QueueSpare)',
                  TailWon', QueueRead')
    BY <1>1, <1>2, <1>9, <1>14, <2>2, SideStays DEF QueueCounts
  <2>6. ASSUME NEW m \in alive' PROVE QueueSettled(m, A, va, B, vb, e)'
    <3>1. m \in alive /\ QueueSettled(m, A, va, B, vb, e)
      BY <1>1, <1>2 DEF QueueCounts
    <3>2. \A u \in Threads \ {t} : QueueUses(u)' = QueueUses(u)
      BY <1>6 DEF QueueOthersStay
    <3>3. QueueUsed(m)' = QueueUsed(m)
      BY <1>3, <1>17, <3>2, QueueUsersNext
    <3> QED BY <1>1, <3>1, <3>3, QueueSettledStays
  <2>7. /\ e \in [QueueNodes -> Nat] /\ emptyAt' \subseteq alive'
        /\ \A m \in QueueNodes : m \in emptyAt' <=> e[m] # 0
    BY <1>1, <1>2 DEF QueueCounts
  <2> QED BY <2>4, <2>5, <2>6, <2>7 DEF QueueCounts
<1>21. QueueApart(d)'
  <2>1. ASSUME NEW m \in QueueLinked(d)', node'[m].data # Null
        PROVE  /\ node'[m].data \notin lost' \cup Members(out')
               /\ \A m2 \in QueueLinked(d)' \ {m} : node'[m2].data # node'[m].data
    <3>1. m \in QueueLinked(b) /\ m # c /\ node[m].data # Null /\ node[m].data # y
      BY <1>1, <1>9, <1>11, <2>1
    <3>2. /\ node[m].data \notin lost \cup Members(out)
          /\ \A m2 \in QueueLinked(b) \ {m} : node[m2].data # node[m].data
      BY <1>2, <3>1 DEF QueueApart
    <3> QED BY <1>1, <1>9, <1>12, <3>1, <3>2
  <2>2. ASSUME NEW u \in Threads, me'[u].val # Null
        PROVE  /\ me'[u].val \notin lost' \cup Members(out')
               /\ \A m \in QueueNodes : node'[m].data # me'[u].val
               /\ \A u2 \in Threads \ {u} : me'[u2].val # me'[u].val
    <3>1. \A v \in Threads : me'[v].val = me[v].val
      BY <1>4, <1>5
    <3>2. /\ me[u].val \notin lost \cup Members(out)
          /\ \A m \in QueueNodes : node[m].data # me[u].val
          /\ \A u2 \in Threads \ {u} : me[u2].val # me[u].val
      BY <1>2, <2>2, <3>1 DEF QueueApart
    <3>3. me[u].val # y
      BY <1>11
    <3> QED BY <1>1, <1>12, <3>1, <3>2, <3>3
  <2> QED BY <2>1, <2>2 DEF QueueApart
<1>22. (empties + Cardinality(QueueLooking) <= pops)'
  <2>1. t \in QueueLooking' => t \in QueueLooking
    BY <1>4, <1>5 DEF QueueLooking
  <2> QED BY <1>1, <1>2, <1>5, <2>1, QueueEmptiesStay DEF QueueTypes
<1>23. QueueFifo(b, d)
  <2>1. b \in Seq(QueueNodes) /\ QueueData' = QueueData /\ QueueData[c] = y
    BY <1>1, <1>3, QueueFacts DEF QueueData
  <2>2. /\ Along(QueueData, b) # << >> /\ Head(Along(QueueData, b)) = y
        /\ Along(QueueData', d) = Tail(Along(QueueData, b))
    BY <1>7, <1>8, <2>1, AlongPop
  <2> QED BY <1>1, <1>12, <2>2 DEF QueueFifo, FifoStep
<1>24. QueueInv(d, A, va, B, vb, e)'
  BY <1>13, <1>15, <1>16, <1>18, <1>19, <1>20, <1>21, <1>22 DEF QueueInv
<1> QED BY <1>23, <1>24 DEF QueueKeeps

-----------------------------------------------------------------------------
(* The steps that give a node back. *)

(* What a thread does to the node n when it gives it back: u is what it     *)
(* adds to the references, and i the counter that it removes.               *)
QueueGivesTo(n, u, i) ==
  /\ node' \in [QueueNodes -> QueueFields]
  /\ \A m \in QueueNodes \ {n} : node'[m] = node[m]
  /\ node'[n].next = node[n].next /\ node'[n].data = node[n].data
  /\ node'[n].internal = node[n].internal + u /\ node'[n].counters = node[n].counters - i
  /\ alive' = IF node'[n].internal = 0 /\ node'[n].counters = 0 THEN alive \ {n} ELSE alive
  /\ UNCHANGED << head, tail, out, lost, pops, empties, emptyAt >>

(* What it does next.                                                       *)
QueueGoesOn(t, p, o, q, s, w, x) ==
  /\ p \in {"idle", "countTail", "countHead"} /\ w = me[t].mine /\ x \in {me[t].val, Null}
  /\ QueueBecomes(t, p, o, q, s, w, x)
  /\ p = "countTail" => w # Null /\ x # Null
  /\ p # "countTail" => s = Queue!None /\ w = Null
  /\ p = "countHead" => t \in QueueLooking

(* What it gives back is its own, and the sides are without it.             *)
QueueGave(b, A, va, B, vb, t, n, u, i, A2, va2, B2, vb2) ==
  /\ n = me[t].cur /\ me[t].pc \in {"free", "release"} /\ u \in Int /\ i \in Int
  /\ QueueSide(A2, va2, head, QueueLinked(b) \cup QueueSpare, HeadWon', QueueRead')
  /\ QueueSide(B2, vb2, tail, {tail.ptr} \cup QueueAfter \cup QueueSpare, TailWon', QueueRead')
  /\ \A m \in QueueNodes \ {n} : /\ va2[m] = va[m] /\ vb2[m] = vb[m]
                                  /\ (m \in A2 <=> m \in A) /\ (m \in B2 <=> m \in B)
  /\ u + va2[n] + vb2[n] = va[n] + vb[n] - 1
  /\ node[n].counters - i = InPlace(A2, n) + InPlace(B2, n)

(* A thread that gives a node back keeps the invariant.                     *)
LEMMA QueueGives ==
  ASSUME NEW b, NEW A, NEW va, NEW B, NEW vb, NEW e, QueueInv(b, A, va, B, vb, e),
         NEW t \in Threads, NEW n, NEW u, NEW i, QueueGivesTo(n, u, i),
         NEW p, NEW o, NEW q, NEW s, NEW w, NEW x, QueueGoesOn(t, p, o, q, s, w, x),
         NEW A2, NEW va2, NEW B2, NEW vb2, QueueGave(b, A, va, B, vb, t, n, u, i, A2, va2, B2, vb2)
  PROVE  QueueKeeps(b)
<1> USE DEF QueueGave
<1>1. /\ UNCHANGED << head, tail, out, lost, pops, empties, emptyAt >>
      /\ node' \in [QueueNodes -> QueueFields]
      /\ \A m \in QueueNodes \ {n} : node'[m] = node[m]
      /\ node'[n].next = node[n].next /\ node'[n].data = node[n].data
  BY DEF QueueGivesTo
<1>2. /\ QueueTypes /\ (\A v \in Threads : QueueLocal(v) /\ QueueSeen(v, b))
      /\ QueueList(b) /\ QueueAlive(b) /\ QueueCounts(b, A, va, B, vb, e) /\ QueueApart(b)
      /\ empties + Cardinality(QueueLooking) <= pops
  BY DEF QueueInv
<1>3. /\ n \in alive /\ n \in QueueNodes /\ QueueUses(t) = {n}
      /\ n \notin QueueAfter \cup QueueSpare
  BY QueueUsing DEF Queue!Touching
<1>4. /\ p \in {"idle", "countTail", "countHead"} /\ w = me[t].mine /\ x \in {me[t].val, Null}
      /\ QueueBecomes(t, p, o, q, s, w, x)
      /\ p = "countTail" => w # Null /\ x # Null
      /\ p # "countTail" => s = Queue!None /\ w = Null
      /\ p = "countHead" => t \in QueueLooking
  BY DEF QueueGoesOn
<1>5. /\ me'[t].pc = p /\ me'[t].old = o /\ me'[t].cur = q /\ me'[t].to = s
      /\ me'[t].mine = w /\ me'[t].val = x /\ \A v \in Threads \ {t} : me'[v] = me[v]
      /\ me' \in [Threads -> QueueLocals]
  BY <1>4 DEF QueueBecomes
<1>6. QueueOthersStay(t) /\ QueueIsNow(t, p, o, q, s, w)
  BY <1>4, QueueOthers
<1>7. QueueUses(t)' = {}
  BY <1>4, <1>6 DEF QueueIsNow, Queue!Touching
<1>8. /\ QueueUsed(n)' = QueueUsed(n) - 1 /\ QueueUsed(n)' \in Nat
      /\ QueueUsed(n)' = 0 => \A v \in Threads : n \notin QueueUses(v)'
      /\ \A m : m # n => QueueUsed(m)' = QueueUsed(m)
  <2>1. \A v \in Threads \ {t} : QueueUses(v)' = QueueUses(v)
    BY <1>6 DEF QueueOthersStay
  <2> QED BY <1>3, <1>7, <2>1, QueueUsersNext
<1>9. /\ va2[n] \in Nat /\ vb2[n] \in Nat /\ e[n] \in Nat /\ node'[n].internal \in Int
      /\ node'[n].internal + va2[n] + vb2[n] = QueueUsed(n)' + e[n]
      /\ node'[n].counters = InPlace(A2, n) + InPlace(B2, n)
  <2>1. va2[n] \in Nat /\ vb2[n] \in Nat
    BY <1>3 DEF QueueSide
  <2>2. node[n].internal + va[n] + vb[n] = QueueUsed(n) + e[n]
    BY <1>2, <1>3 DEF QueueCounts, QueueSettled
  <2>3. /\ va[n] \in Nat /\ vb[n] \in Nat /\ e[n] \in Nat /\ QueueUsed(n) \in Nat
        /\ node[n].internal \in Int
    BY <1>3, QueueNumbers
  <2>4. /\ node'[n].internal = node[n].internal + u /\ node'[n].counters = node[n].counters - i
    BY DEF QueueGivesTo
  <2>5. node'[n].internal + va2[n] + vb2[n] = QueueUsed(n)' + e[n]
    <3> DEFINE c1 == node[n].internal
               c2 == va[n]
               c3 == vb[n]
               c4 == QueueUsed(n)
               c5 == e[n]
               d1 == node'[n].internal
               d4 == QueueUsed(n)'
    <3>1. PICK y2, y3 : y2 = va2[n] /\ y3 = vb2[n]
      OBVIOUS
    <3>2. /\ c1 \in Int /\ c2 \in Nat /\ c3 \in Nat /\ c4 \in Nat /\ c5 \in Nat
          /\ y2 \in Nat /\ y3 \in Nat /\ u \in Int /\ d1 = c1 + u /\ d4 = c4 - 1
          /\ c1 + c2 + c3 = c4 + c5
      BY <1>8, <2>1, <2>2, <2>3, <2>4, <3>1
    <3>3. u + y2 + y3 = c2 + c3 - 1
      BY <3>1
    <3>4. d1 + y2 + y3 = d4 + c5
      <4> HIDE DEF c1, c2, c3, c4, c5, d1, d4
      <4> QED BY <3>2, <3>3
    <3> QED BY <3>1, <3>4
  <2>6. node'[n].counters = InPlace(A2, n) + InPlace(B2, n)
    BY <2>4
  <2> QED BY <2>1, <2>3, <2>4, <2>5, <2>6
<1>10. \/ alive' = alive /\ (node'[n].internal # 0 \/ node'[n].counters # 0)
       \/ /\ alive' = alive \ {n} /\ n \notin QueueLinked(b) \cup QueueSpare
          /\ e[n] = 0 /\ \A v \in Threads : n \notin QueueUses(v)'
  <2>1. CASE node'[n].internal = 0 /\ node'[n].counters = 0
    <3>1. alive' = alive \ {n}
      BY <2>1 DEF QueueGivesTo
    <3>2. n \notin A2 /\ n \notin B2
      BY <1>9, <2>1 DEF InPlace
    <3>3. va2[n] = 0 /\ vb2[n] = 0 /\ n \notin QueueLinked(b) \cup QueueSpare
      BY <1>3, <3>2 DEF QueueSide
    <3>4. e[n] = 0 /\ QueueUsed(n)' = 0
      <4>1. PICK y, z : y = e[n] /\ z = QueueUsed(n)'
        OBVIOUS
      <4>2. y \in Nat /\ z \in Nat /\ z + y = 0
        BY <1>8, <1>9, <2>1, <3>3, <4>1
      <4>3. y = 0 /\ z = 0
        BY <4>2
      <4> QED BY <4>1, <4>3
    <3> QED BY <1>8, <3>1, <3>3, <3>4
  <2>2. CASE ~(node'[n].internal = 0 /\ node'[n].counters = 0)
    BY <2>2 DEF QueueGivesTo
  <2> QED BY <2>1, <2>2
<1>11. QueueTypes'
  <2>1. alive' \subseteq QueueNodes
    BY <1>2, <1>10 DEF QueueTypes
  <2> QED BY <1>1, <1>2, <1>5, <2>1 DEF QueueTypes
<1>12. QueueSpare' = QueueSpare /\ \A v \in Threads : QueueMine(v)' = QueueMine(v)
  <2>1. QueueMine(t)' = QueueMine(t)
    BY <1>4, <1>6 DEF QueueMine, QueueIsNow
  <2>2. \A v \in Threads : QueueMine(v)' = QueueMine(v)
    BY <1>6, <2>1 DEF QueueOthersStay
  <2> QED BY <1>2, <2>1, <2>2, QueueSpareNext DEF QueueAlive
<1>13. QueueList(b)' /\ QueueAfter' = QueueAfter /\ QueueLinked(b)' = QueueLinked(b)
  <2>1. QueueLinked(b) \subseteq QueueNodes /\ QueueSpare \subseteq QueueNodes
    BY <1>2, QueueFacts DEF QueueAlive
  <2>2. \A m \in QueueAfter \cup QueueSpare' : node'[m] = Queue!NewNode
    BY <1>1, <1>2, <1>3, <1>12, <2>1, QueueFacts DEF QueueList
  <2>3. \A m \in QueueLinked(b) : node'[m].next = node[m].next /\ node'[m].data = node[m].data
    BY <1>1, <2>1
  <2> QED BY <1>1, <1>2, <2>1, <2>2, <2>3, QueueListStays
<1>14. QueueAlive(b)'
  <2>1. /\ QueueLinked(b) \subseteq alive' /\ QueueSpare' \subseteq alive'
        /\ QueueSpare' \cap QueueLinked(b) = {}
        /\ \A v \in Threads : \A y \in Threads \ {v} : QueueMine(v)' \cap QueueMine(y)' = {}
    BY <1>2, <1>10, <1>12 DEF QueueAlive
  <2>2. \A m \in alive' : m \in alive /\ node'[m].next = node[m].next
    BY <1>1, <1>10, QueueFacts
  <2> QED BY <1>1, <1>2, <1>12, <1>13, <2>1, <2>2, QueueAliveStays
<1>15. \A v \in Threads : QueueLocal(v)'
  <2>1. QueueLocal(t)'
    BY <1>4, <1>5 DEF QueueLocal, Queue!Touching, Queue!None, Queue!CountedNodePtr
  <2> QED BY <1>2, <1>6, <2>1 DEF QueueOthersStay
<1>16. \A v \in Threads : QueueSeen(v, b)'
  <2>1. QueueSeen(t, b)'
    BY <1>4, <1>5, <1>7 DEF QueueSeen
  <2>2. ASSUME NEW v \in Threads \ {t} PROVE QueueSeen(v, b)'
    <3>1. QueueUses(v) \subseteq alive /\ alive \subseteq QueueNodes /\ QueueUses(v)' = QueueUses(v)
      BY <1>2, <1>6, QueueFacts DEF QueueSeen, QueueOthersStay
    <3>2. QueueUses(v) \subseteq alive'
      BY <1>10, <3>1
    <3>3. \A m \in QueueUses(v) : node'[m].next = node[m].next /\ node'[m].data = node[m].data
      BY <1>1, <3>1
    <3> QED BY <1>1, <1>2, <1>5, <1>13, <3>2, <3>3, QueueSeenStays
  <2> QED BY <2>1, <2>2
<1>17. QueueCounts(b, A2, va2, B2, vb2, e)'
  <2>1. QueueSide(A2, va2, head', (QueueLinked(b) \cup QueueSpare)', HeadWon', QueueRead')
    BY <1>1, <1>12, <1>13
  <2>2. QueueSide(B2, vb2, tail', ({tail.ptr} \cup QueueAfter \cup QueueSpare)',
                  TailWon', QueueRead')
    BY <1>1, <1>12, <1>13
  <2>3. ASSUME NEW m \in alive' PROVE QueueSettled(m, A2, va2, B2, vb2, e)'
    <3>1. CASE m = n
      <4>1. node'[n].internal # 0 \/ node'[n].counters # 0
        BY <1>10, <2>3, <3>1
      <4>2. InPlace(A2, n)' = InPlace(A2, n) /\ InPlace(B2, n)' = InPlace(B2, n)
        BY <3>1
      <4> QED BY <1>9, <3>1, <4>1, <4>2 DEF QueueSettled
    <3>2. CASE m # n
      <4>1. m \in alive /\ m \in QueueNodes /\ QueueSettled(m, A, va, B, vb, e)
        BY <1>2, <1>10, QueueFacts DEF QueueCounts
      <4>2. /\ node'[m] = node[m] /\ QueueUsed(m)' = QueueUsed(m)
            /\ va2[m] = va[m] /\ vb2[m] = vb[m]
            /\ (m \in A2 <=> m \in A) /\ (m \in B2 <=> m \in B)
        BY <1>1, <1>8, <3>2, <4>1
      <4> QED BY <4>1, <4>2, QueueSettledStays
    <3> QED BY <3>1, <3>2
  <2>4. /\ e \in [QueueNodes -> Nat] /\ emptyAt' \subseteq alive'
        /\ \A m \in QueueNodes : m \in emptyAt' <=> e[m] # 0
    BY <1>1, <1>2, <1>3, <1>10 DEF QueueCounts
  <2> QED BY <2>1, <2>2, <2>3, <2>4 DEF QueueCounts
<1>18. QueueApart(b)'
  <2>1. QueueLinked(b) \subseteq QueueNodes
    BY QueueFacts
  <2>2. \A v \in Threads : me'[v].val = me[v].val \/ me'[v].val = Null
    BY <1>4, <1>5
  <2>3. \A m \in QueueNodes : node'[m].data = node[m].data
    BY <1>1
  <2> QED BY <1>1, <1>2, <1>13, <2>1, <2>2, <2>3, QueueApartStays
<1>19. (empties + Cardinality(QueueLooking) <= pops)'
  <2>1. t \in QueueLooking' => t \in QueueLooking
    BY <1>4, <1>5 DEF QueueLooking
  <2> QED BY <1>1, <1>2, <1>5, <2>1, QueueEmptiesStay DEF QueueTypes
<1>20. QueueFifo(b, b)
  <2>1. Members(b) \subseteq QueueNodes
    BY QueueFacts
  <2>2. \A m \in Members(b) : node'[m].data = node[m].data
    BY <1>1, <2>1
  <2> QED BY <1>1, <2>1, <2>2, QueueFifoStays
<1>21. QueueInv(b, A2, va2, B2, vb2, e)'
  BY <1>11, <1>13, <1>14, <1>15, <1>16, <1>17, <1>18, <1>19 DEF QueueInv
<1> QED BY <1>20, <1>21 DEF QueueKeeps

(* The node after GiveBack.                                                 *)
LEMMA QueueGiven ==
  ASSUME node \in [QueueNodes -> QueueFields], NEW n \in QueueNodes, NEW u \in Int, NEW i \in Int,
         node[n].counters - i \in 0..2,
         node' = [node EXCEPT ![n].counters = @ - i, ![n].internal = @ + u],
         alive' = IF Queue!Unused(node'[n]) THEN alive \ {n} ELSE alive,
         UNCHANGED << head, tail, out, lost, pops, empties, emptyAt >>
  PROVE  QueueGivesTo(n, u, i)
<1>1. PICK f : f = node[n]
  OBVIOUS
<1>2. f \in QueueFields
  BY <1>1
<1> DEFINE r == [f EXCEPT !.counters = @ - i, !.internal = @ + u]
<1>3. node' = [node EXCEPT ![n] = r]
  BY <1>1
<1>4. f.internal + u \in Int /\ f.counters - i \in 0..2
  BY <1>1, <1>2 DEF QueueFields
<1>5. /\ r \in QueueFields /\ r.next = f.next /\ r.data = f.data
      /\ r.internal = f.internal + u /\ r.counters = f.counters - i
  BY <1>2, <1>4 DEF QueueFields
<1> HIDE DEF r
<1>6. /\ node' \in [QueueNodes -> QueueFields] /\ node'[n] = r
      /\ \A m \in QueueNodes \ {n} : node'[m] = node[m]
  BY <1>3, <1>5
<1>7. alive' = IF node'[n].internal = 0 /\ node'[n].counters = 0 THEN alive \ {n} ELSE alive
  BY DEF Queue!Unused
<1> QED BY <1>1, <1>5, <1>6, <1>7 DEF QueueGivesTo

(* The thread after GiveBack.                                               *)
LEMMA QueueWentOn ==
  ASSUME me \in [Threads -> QueueLocals], NEW t \in Threads, QueueLocal(t),
         me[t].pc \in {"free", "release"}, NEW a, a \in {"countTail", "countHead"},
         a = "countHead" <=> me[t].pc = "release" /\ me[t].to = Queue!None, NEW r,
         (me[t].mine = Null /\ a = "countTail") <=> r, r \in BOOLEAN,
         me' = [me EXCEPT ![t] = IF r THEN Queue!Idle ELSE [@ EXCEPT !.pc = a]]
  PROVE  \E p, o, q, s, w, x : QueueGoesOn(t, p, o, q, s, w, x)
<1>1. CASE r
  <2>1. me' = [me EXCEPT ![t] = Queue!Idle] /\ me[t].mine = Null
    BY <1>1
  <2>2. QueueBecomes(t, "idle", Queue!None, Null, Queue!None, Null, Null)
    <3>1. PICK r0 : r0 = Queue!Idle
      OBVIOUS
    <3>2. /\ r0 \in QueueLocals /\ r0.pc = "idle" /\ r0.old = Queue!None /\ r0.cur = Null
          /\ r0.to = Queue!None /\ r0.mine = Null /\ r0.val = Null
      BY <3>1, QueueIdleIs
    <3>3. QueueBecomes(t, r0.pc, r0.old, r0.cur, r0.to, r0.mine, r0.val)
      BY <2>1, <3>1, <3>2, QueueMoves
    <3> QED BY <3>2, <3>3
  <2>3. QueueGoesOn(t, "idle", Queue!None, Null, Queue!None, Null, Null)
    BY <2>1, <2>2 DEF QueueGoesOn
  <2> QED BY <2>3
<1>2. CASE ~r
  <2>1. me' = [me EXCEPT ![t].pc = a] /\ a \in QueuePlaces
    BY <1>2 DEF QueuePlaces
  <2>2. PICK o, q, s, w, x :
          /\ o = me[t].old /\ q = me[t].cur /\ s = me[t].to /\ w = me[t].mine /\ x = me[t].val
          /\ QueueBecomes(t, a, o, q, s, w, x)
    BY <2>1, QueueMovesPc
  <2>3. a = "countTail" => w # Null /\ x # Null
    BY <1>2, <2>2 DEF QueueLocal
  <2>4. a = "countHead" => s = Queue!None /\ w = Null /\ t \in QueueLooking
    BY <2>2 DEF QueueLocal, QueueLooking
  <2>5. QueueGoesOn(t, a, o, q, s, w, x)
    BY <2>2, <2>3, <2>4 DEF QueueGoesOn
  <2> QED BY <2>5
<1> QED BY <1>1, <1>2

(* What a thread that gives a node back has taken before, and has then.     *)
LEMMA QueueGivesWon ==
  ASSUME NEW t \in Threads, NEW p, NEW o, NEW q, NEW s, NEW w, NEW x,
         QueueGoesOn(t, p, o, q, s, w, x)
  PROVE  /\ HeadWon'[t] = {} /\ TailWon'[t] = {}
         /\ \A v \in Threads \ {t} : /\ HeadWon'[v] = HeadWon[v] /\ TailWon'[v] = TailWon[v]
                                     /\ QueueRead'[v] = QueueRead[v]
<1>1. QueueOthersStay(t) /\ QueueIsNow(t, p, o, q, s, w) /\ p \in {"idle", "countTail", "countHead"}
  BY QueueOthers DEF QueueGoesOn
<1> QED BY <1>1 DEF QueueOthersStay, QueueIsNow

(* A thread pays the external counter of its node back.                     *)
LEMMA QueueFree ==
  ASSUME NEW b, NEW A, NEW va, NEW B, NEW vb, NEW e, QueueInv(b, A, va, B, vb, e),
         NEW t \in Threads, Queue!FreeExternalCounter(t)
  PROVE  QueueKeeps(b)
<1>1. PICK n, u, m0, i : n = me[t].cur /\ u = me[t].old.count - 2 /\ m0 = me[t].mine /\ i = 1
  OBVIOUS
<1>2. /\ me[t].pc = "free"
      /\ node' = [node EXCEPT ![n].counters = @ - i, ![n].internal = @ + u]
      /\ alive' = IF Queue!Unused(node'[n]) THEN alive \ {n} ELSE alive
      /\ me' = [me EXCEPT ![t] = IF m0 = Null THEN Queue!Idle ELSE [@ EXCEPT !.pc = "countTail"]]
      /\ UNCHANGED << head, tail, out, lost, pops, empties, emptyAt >>
  BY <1>1 DEF Queue!FreeExternalCounter, Queue!At, Queue!GiveBack, Queue!CountIncrease, Queue!history
<1>3. /\ QueueTypes /\ (\A v \in Threads : QueueLocal(v))
      /\ QueueCounts(b, A, va, B, vb, e)
  BY DEF QueueInv
<1>4. n \in alive /\ n \in QueueNodes
  BY <1>1, <1>2, QueueUsing DEF Queue!Touching
<1>5. /\ va[n] \in Nat /\ vb[n] \in Nat
      /\ node[n].counters \in 0..2 /\ node[n].counters = InPlace(A, n) + InPlace(B, n)
  BY <1>3, <1>4, QueueNumbers DEF QueueCounts, QueueSettled
<1>6. u \in Int /\ QueueRead[t] - 1 = u + 1
  <2>1. me[t].old.count \in 0..MaxCount
    BY <1>3 DEF QueueTypes, QueueLocals, Queue!Counted
  <2>2. QueueRead[t] = me[t].old.count
    BY DEF QueueRead
  <2> QED BY <1>1, <2>1, <2>2
<1>7. PICK p, o, q, s, w, x : QueueGoesOn(t, p, o, q, s, w, x)
  <2>1. PICK r : r = (m0 = Null) /\ r \in BOOLEAN
    OBVIOUS
  <2>2. me' = [me EXCEPT ![t] = IF r THEN Queue!Idle ELSE [@ EXCEPT !.pc = "countTail"]]
    BY <1>2, <2>1
  <2>3. me \in [Threads -> QueueLocals] /\ QueueLocal(t)
    BY <1>3 DEF QueueTypes
  <2>4. (me[t].mine = Null /\ "countTail" = "countTail") <=> r
    BY <1>1, <2>1
  <2>5. "countTail" = "countHead" <=> me[t].pc = "release" /\ me[t].to = Queue!None
    BY <1>2
  <2>6. me[t].pc \in {"free", "release"} /\ "countTail" \in {"countTail", "countHead"}
    BY <1>2
  <2> QED BY <2>1, <2>2, <2>3, <2>4, <2>5, <2>6, QueueWentOn
<1>8. /\ HeadWon'[t] = {} /\ TailWon'[t] = {}
      /\ \A v \in Threads \ {t} : /\ HeadWon'[v] = HeadWon[v] /\ TailWon'[v] = TailWon[v]
                                  /\ QueueRead'[v] = QueueRead[v]
  BY <1>7, QueueGivesWon
<1> DEFINE P == QueueLinked(b) \cup QueueSpare
           R == {tail.ptr} \cup QueueAfter \cup QueueSpare
<1>9. QueueSide(A, va, head, P, HeadWon, QueueRead) /\ QueueSide(B, vb, tail, R, TailWon, QueueRead)
  BY <1>3 DEF QueueCounts
<1> HIDE DEF P, R
<1>10. ASSUME me[t].to = Queue!None PROVE QueueKeeps(b)
  <2>1. HeadWon[t] = {n} /\ TailWon[t] = {}
    BY <1>1, <1>2, <1>10 DEF HeadWon, TailWon
  <2>2. PICK A2, va2 : A2 = A \ {n} /\ va2 = [va EXCEPT ![n] = 0]
    OBVIOUS
  <2>3. QueueSide(A2, va2, head, P, HeadWon', QueueRead')
    <3>1. /\ QueueSide(A, va, head, P, HeadWon, QueueRead) /\ HeadWon[t] = {n} /\ HeadWon'[t] = {}
          /\ \A v \in Threads \ {t} : HeadWon'[v] = HeadWon[v] /\ QueueRead'[v] = QueueRead[v]
      BY <1>8, <1>9, <2>1
    <3>2. QueueSide(A \ {n}, [va EXCEPT ![n] = 0], head, P, HeadWon', QueueRead')
      <4>1. n \in QueueNodes
        BY <1>4
      <4>2. PICK l, place, won, read :
              l = head /\ place = P /\ won = HeadWon /\ read = QueueRead
        OBVIOUS
      <4>3. PICK won2, read2 : won2 = HeadWon' /\ read2 = QueueRead'
        OBVIOUS
      <4>4. /\ QueueSide(A, va, l, place, won, read) /\ won[t] = {n} /\ won2[t] = {}
            /\ \A v \in Threads \ {t} : won2[v] = won[v] /\ read2[v] = read[v]
        BY <3>1, <4>2, <4>3
      <4>5. QueueSide(A \ {n}, [va EXCEPT ![n] = 0], l, place, won2, read2)
        BY <4>1, <4>4, SideGives
      <4> QED BY <4>2, <4>3, <4>5
    <3> QED BY <2>2, <3>2
  <2>4. SameWon(TailWon, TailWon', QueueRead, QueueRead')
    BY <1>8, <2>1 DEF SameWon
  <2>5. QueueSide(B, vb, tail, R, TailWon', QueueRead')
    BY <1>9, <2>4, SideStays
  <2>6. va \in [QueueNodes -> Nat] /\ va[n] = u + 1 /\ n \in A
    <3>1. va \in [QueueNodes -> Nat] /\ va[n] = QueueRead[t] - 1
      BY <1>9, <2>1 DEF QueueSide
    <3>2. n \in A
      BY <1>9, <2>1 DEF QueueSide
    <3> QED BY <1>6, <3>1, <3>2
  <2>7. \A m \in QueueNodes \ {n} : /\ va2[m] = va[m] /\ vb[m] = vb[m]
                                    /\ (m \in A2 <=> m \in A) /\ (m \in B <=> m \in B)
    BY <2>2, <2>6
  <2>8. va2[n] = 0 /\ u + va2[n] + vb[n] = va[n] + vb[n] - 1
    <3>1. va2[n] = 0
      BY <1>4, <2>2, <2>6
    <3> QED BY <1>5, <1>6, <2>6, <3>1
  <2>9. InPlace(A, n) = 1 /\ InPlace(A2, n) = 0 /\ InPlace(B, n) \in {0, 1}
    BY <2>2, <2>6 DEF InPlace
  <2>10. node[n].counters - i \in 0..2 /\ i \in Int /\ node[n].counters - i = InPlace(A2, n) + InPlace(B, n)
    BY <1>1, <1>5, <2>9
  <2>11. QueueGivesTo(n, u, i)
    <3>1. node \in [QueueNodes -> QueueFields]
      BY <1>3 DEF QueueTypes
    <3>2. node[n].counters - i \in 0..2 /\ i \in Int /\ u \in Int
      BY <1>6, <2>10
    <3>3. /\ node' = [node EXCEPT ![n].counters = @ - i, ![n].internal = @ + u]
          /\ alive' = IF Queue!Unused(node'[n]) THEN alive \ {n} ELSE alive
          /\ UNCHANGED << head, tail, out, lost, pops, empties, emptyAt >>
      BY <1>2
    <3> QED BY <1>4, <3>1, <3>2, <3>3, QueueGiven
  <2>12. QueueGave(b, A, va, B, vb, t, n, u, i, A2, va2, B, vb)
    BY <1>1, <1>2, <1>6, <2>3, <2>5, <2>7, <2>8, <2>10 DEF P, R, QueueGave
  <2> QED BY <1>7, <2>11, <2>12, QueueGives
<1>11. ASSUME me[t].to # Queue!None PROVE QueueKeeps(b)
  <2>1. TailWon[t] = {n} /\ HeadWon[t] = {}
    BY <1>1, <1>2, <1>11 DEF HeadWon, TailWon
  <2>2. PICK B2, vb2 : B2 = B \ {n} /\ vb2 = [vb EXCEPT ![n] = 0]
    OBVIOUS
  <2>3. QueueSide(B2, vb2, tail, R, TailWon', QueueRead')
    <3>1. /\ QueueSide(B, vb, tail, R, TailWon, QueueRead) /\ TailWon[t] = {n} /\ TailWon'[t] = {}
          /\ \A v \in Threads \ {t} : TailWon'[v] = TailWon[v] /\ QueueRead'[v] = QueueRead[v]
      BY <1>8, <1>9, <2>1
    <3>2. QueueSide(B \ {n}, [vb EXCEPT ![n] = 0], tail, R, TailWon', QueueRead')
      BY <1>4, <3>1, SideGives
    <3> QED BY <2>2, <3>2
  <2>4. SameWon(HeadWon, HeadWon', QueueRead, QueueRead')
    BY <1>8, <2>1 DEF SameWon
  <2>5. QueueSide(A, va, head, P, HeadWon', QueueRead')
    BY <1>9, <2>4, SideStays
  <2>6. vb \in [QueueNodes -> Nat] /\ vb[n] = u + 1 /\ n \in B
    <3>1. vb \in [QueueNodes -> Nat] /\ vb[n] = QueueRead[t] - 1
      BY <1>9, <2>1 DEF QueueSide
    <3>2. n \in B
      BY <1>9, <2>1 DEF QueueSide
    <3> QED BY <1>6, <3>1, <3>2
  <2>7. \A m \in QueueNodes \ {n} : /\ va[m] = va[m] /\ vb2[m] = vb[m]
                                    /\ (m \in A <=> m \in A) /\ (m \in B2 <=> m \in B)
    BY <2>2, <2>6
  <2>8. vb2[n] = 0 /\ u + va[n] + vb2[n] = va[n] + vb[n] - 1
    <3>1. vb2[n] = 0
      BY <1>4, <2>2, <2>6
    <3> QED BY <1>5, <1>6, <2>6, <3>1
  <2>9. InPlace(B, n) = 1 /\ InPlace(B2, n) = 0 /\ InPlace(A, n) \in {0, 1}
    BY <2>2, <2>6 DEF InPlace
  <2>10. node[n].counters - i \in 0..2 /\ i \in Int /\ node[n].counters - i = InPlace(A, n) + InPlace(B2, n)
    BY <1>1, <1>5, <2>9
  <2>11. QueueGivesTo(n, u, i)
    <3>1. node \in [QueueNodes -> QueueFields]
      BY <1>3 DEF QueueTypes
    <3>2. node[n].counters - i \in 0..2 /\ i \in Int /\ u \in Int
      BY <1>6, <2>10
    <3>3. /\ node' = [node EXCEPT ![n].counters = @ - i, ![n].internal = @ + u]
          /\ alive' = IF Queue!Unused(node'[n]) THEN alive \ {n} ELSE alive
          /\ UNCHANGED << head, tail, out, lost, pops, empties, emptyAt >>
      BY <1>2
    <3> QED BY <1>4, <3>1, <3>2, <3>3, QueueGiven
  <2>12. QueueGave(b, A, va, B, vb, t, n, u, i, A, va, B2, vb2)
    BY <1>1, <1>2, <1>6, <2>3, <2>5, <2>7, <2>8, <2>10 DEF P, R, QueueGave
  <2> QED BY <1>7, <2>11, <2>12, QueueGives
<1> QED BY <1>10, <1>11

(* A thread gives its reference back.                                       *)
LEMMA QueueRelease ==
  ASSUME NEW b, NEW A, NEW va, NEW B, NEW vb, NEW e, QueueInv(b, A, va, B, vb, e),
         NEW t \in Threads, Queue!ReleaseRef(t)
  PROVE  QueueKeeps(b)
<1>1. PICK n, a, r, u, i :
        /\ n = me[t].cur /\ a = IF me[t].to = Queue!None THEN "countHead" ELSE "countTail"
        /\ u = -1 /\ i = 0
        /\ r = (me[t].to # Queue!None /\ me[t].mine = Null) /\ r \in BOOLEAN
  OBVIOUS
<1>2. /\ me[t].pc = "release"
      /\ node' = [node EXCEPT ![n].counters = @ - i, ![n].internal = @ + u]
      /\ alive' = IF Queue!Unused(node'[n]) THEN alive \ {n} ELSE alive
      /\ me' = [me EXCEPT ![t] = IF r THEN Queue!Idle ELSE [@ EXCEPT !.pc = a]]
      /\ UNCHANGED << head, tail, out, lost, pops, empties, emptyAt >>
  BY <1>1 DEF Queue!ReleaseRef, Queue!At, Queue!GiveBack, Queue!IsPop, Queue!history
<1>3. /\ QueueTypes /\ (\A v \in Threads : QueueLocal(v))
      /\ QueueCounts(b, A, va, B, vb, e)
  BY DEF QueueInv
<1>4. n \in alive /\ n \in QueueNodes
  BY <1>1, <1>2, QueueUsing DEF Queue!Touching
<1>5. /\ va[n] \in Nat /\ vb[n] \in Nat
      /\ node[n].counters \in 0..2 /\ node[n].counters = InPlace(A, n) + InPlace(B, n)
  BY <1>3, <1>4, QueueNumbers DEF QueueCounts, QueueSettled
<1>6. PICK p, o, q, s, w, x : QueueGoesOn(t, p, o, q, s, w, x)
  <2>1. me \in [Threads -> QueueLocals] /\ QueueLocal(t)
    BY <1>3 DEF QueueTypes
  <2>2. me[t].pc \in {"free", "release"} /\ a \in {"countTail", "countHead"}
    BY <1>1, <1>2
  <2>3. a = "countHead" <=> me[t].pc = "release" /\ me[t].to = Queue!None
    BY <1>1, <1>2
  <2>4. (me[t].mine = Null /\ a = "countTail") <=> r
    BY <1>1
  <2> QED BY <1>1, <1>2, <2>1, <2>2, <2>3, <2>4, QueueWentOn
<1>7. /\ HeadWon'[t] = {} /\ TailWon'[t] = {}
      /\ \A v \in Threads \ {t} : /\ HeadWon'[v] = HeadWon[v] /\ TailWon'[v] = TailWon[v]
                                  /\ QueueRead'[v] = QueueRead[v]
  BY <1>6, QueueGivesWon
<1>8. SameWon(HeadWon, HeadWon', QueueRead, QueueRead') /\ SameWon(TailWon, TailWon', QueueRead, QueueRead')
  <2>1. HeadWon[t] = {} /\ TailWon[t] = {}
    BY <1>2 DEF HeadWon, TailWon
  <2> QED BY <1>7, <2>1 DEF SameWon
<1>9. QueueSide(A, va, head, QueueLinked(b) \cup QueueSpare, HeadWon', QueueRead')
  BY <1>3, <1>8, SideStays DEF QueueCounts
<1>10. QueueSide(B, vb, tail, {tail.ptr} \cup QueueAfter \cup QueueSpare, TailWon', QueueRead')
  BY <1>3, <1>8, SideStays DEF QueueCounts
<1>11. u + va[n] + vb[n] = va[n] + vb[n] - 1 /\ u \in Int /\ i \in Int
  BY <1>1, <1>5
<1>12. node[n].counters - i \in 0..2 /\ node[n].counters - i = InPlace(A, n) + InPlace(B, n)
  BY <1>1, <1>5
<1>13. QueueGivesTo(n, u, i)
  <2>1. node \in [QueueNodes -> QueueFields]
    BY <1>3 DEF QueueTypes
  <2>2. /\ node' = [node EXCEPT ![n].counters = @ - i, ![n].internal = @ + u]
        /\ alive' = IF Queue!Unused(node'[n]) THEN alive \ {n} ELSE alive
        /\ UNCHANGED << head, tail, out, lost, pops, empties, emptyAt >>
    BY <1>2
  <2> QED BY <1>4, <1>11, <1>12, <2>1, <2>2, QueueGiven
<1>14. n = me[t].cur /\ me[t].pc \in {"free", "release"}
  BY <1>1, <1>2
<1>15. \A m \in QueueNodes \ {n} : /\ va[m] = va[m] /\ vb[m] = vb[m]
                                   /\ (m \in A <=> m \in A) /\ (m \in B <=> m \in B)
  OBVIOUS
<1>16. QueueGave(b, A, va, B, vb, t, n, u, i, A, va, B, vb)
  BY <1>9, <1>10, <1>11, <1>12, <1>14, <1>15 DEF QueueGave
<1> QED BY <1>6, <1>13, <1>16, QueueGives

(* What the invariant says of the queue.                                    *)
LEMMA QueueMeans ==
  ASSUME NEW b, NEW A, NEW va, NEW B, NEW vb, NEW e, QueueInv(b, A, va, B, vb, e)
  PROVE  Queue!TypeOK /\ Queue!NoUseAfterDelete /\ Queue!LeaksOnlyEmptyPops
<1>1. /\ QueueTypes /\ (\A t \in Threads : QueueLocal(t) /\ QueueSeen(t, b))
      /\ QueueList(b) /\ QueueAlive(b) /\ QueueCounts(b, A, va, B, vb, e)
      /\ empties + Cardinality(QueueLooking) <= pops
  BY DEF QueueInv
<1>2. Queue!Linked = QueueLinked(b)
  BY <1>1, QueuePath
<1>3. Queue!TypeOK
  <2>1. empties \in 0..(MaxPops - 1)
    <3>1. empties \in Nat /\ pops \in 0..(MaxPops - 1) /\ MaxPops \in Nat
      BY <1>1 DEF QueueTypes
    <3>2. QueueLooking \in SUBSET Threads
      BY DEF QueueLooking
    <3>3. Cardinality(QueueLooking) \in Nat
      BY <3>2, FS_Subset, FS_CardinalityType
    <3> QED BY <1>1, <3>1, <3>3
  <2> QED BY <1>1, <2>1 DEF QueueTypes, QueueFields, QueueLocals, QueuePlaces, QueueNodes,
            Queue!TypeOK
<1>4. Queue!NoUseAfterDelete
  <2>1. Queue!Linked \cup {tail.ptr} \subseteq alive
    BY <1>1, <1>2 DEF QueueAlive, QueueLinked
  <2>2. ASSUME NEW t \in Threads PROVE me[t].pc \in Queue!Touching => me[t].cur \in alive
    BY QueueUsing
  <2>3. ASSUME NEW t \in Threads, me[t].mine # Null PROVE me[t].mine \in alive
    <3>1. me[t].mine \in QueueSpare
      BY <2>3 DEF QueueSpare, QueueMine
    <3> QED BY <1>1, <3>1 DEF QueueAlive
  <2> QED BY <2>1, <2>2, <2>3 DEF Queue!NoUseAfterDelete
<1>5. Queue!LeaksOnlyEmptyPops
  <2> SUFFICES ASSUME \A t \in Threads : me[t].pc = "idle"
               PROVE  alive = QueueLinked(b) \cup emptyAt
    BY <1>2 DEF Queue!LeaksOnlyEmptyPops, Queue!At
  <2>1. QueueSpare = {}
    BY <1>1 DEF QueueSpare, QueueMine, QueueLocal
  <2>2. \A t \in Threads : HeadWon[t] = {} /\ TailWon[t] = {} /\ QueueUses(t) = {}
    BY DEF HeadWon, TailWon, QueueUses, Queue!Touching
  <2>3. ASSUME NEW n \in alive, n \notin QueueLinked(b) PROVE n \in emptyAt
    <3>1. n \in QueueNodes /\ QueueUsed(n) = 0
      BY <1>1, <2>2, QueueUsers DEF QueueTypes
    <3>2. /\ QueueSide(A, va, head, QueueLinked(b) \cup QueueSpare, HeadWon, QueueRead)
          /\ QueueSide(B, vb, tail, {tail.ptr} \cup QueueAfter \cup QueueSpare, TailWon, QueueRead)
          /\ QueueSettled(n, A, va, B, vb, e) /\ (n \in emptyAt <=> e[n] # 0)
      BY <1>1, <3>1 DEF QueueCounts
    <3>3. n \notin A /\ n \notin B
      <4>1. UNION { HeadWon[t] : t \in Threads } = {} /\ UNION { TailWon[t] : t \in Threads } = {}
        BY <2>2
      <4>2. A = QueueLinked(b) /\ B = {tail.ptr} \cup QueueAfter
        BY <2>1, <3>2, <4>1 DEF QueueSide
      <4> QED BY <2>3, <4>2 DEF QueueLinked
    <3>4. va[n] = 0 /\ vb[n] = 0
      BY <3>1, <3>2, <3>3 DEF QueueSide
    <3>5. node[n].counters = 0 /\ node[n].internal # 0
      BY <3>2, <3>3 DEF QueueSettled, InPlace
    <3>6. node[n].internal = e[n]
      <4>1. node[n].internal \in Int /\ e[n] \in Nat
        BY <3>1, QueueNumbers
      <4>2. node[n].internal + 0 + 0 = 0 + e[n]
        BY <3>1, <3>2, <3>4 DEF QueueSettled
      <4> QED BY <4>1, <4>2
    <3> QED BY <3>2, <3>5, <3>6
  <2>4. emptyAt \subseteq alive /\ QueueLinked(b) \subseteq alive
    BY <1>1 DEF QueueCounts, QueueAlive
  <2> QED BY <2>3, <2>4
<1> QED BY <1>3, <1>4, <1>5

(* Nothing of it changes when no variable does.                             *)
LEMMA QueueStutters ==
  ASSUME NEW b, NEW A, NEW va, NEW B, NEW vb, NEW e, QueueInv(b, A, va, B, vb, e), UNCHANGED vars
  PROVE  QueueInv(b, A, va, B, vb, e)'
<1>1. /\ head' = head /\ alive' = alive /\ pops' = pops /\ out' = out /\ empties' = empties
      /\ tail' = tail /\ node' = node /\ me' = me /\ lost' = lost /\ emptyAt' = emptyAt
  BY DEF vars, forQueue
<1>2. QueueTypes' /\ QueueAfter' = QueueAfter /\ QueueNext' = QueueNext
  BY <1>1 DEF QueueInv, QueueTypes, QueueAfter, QueueNext
<1>3. /\ QueueLinked(b)' = QueueLinked(b) /\ QueueLooking' = QueueLooking
      /\ HeadWon' = HeadWon /\ TailWon' = TailWon /\ QueueRead' = QueueRead
  BY <1>1, <1>2 DEF QueueLinked, QueueLooking, HeadWon, TailWon, QueueRead
<1>4. ASSUME NEW t \in Threads
      PROVE  QueueMine(t)' = QueueMine(t) /\ QueueUses(t)' = QueueUses(t)
  BY <1>1 DEF QueueMine, QueueUses
<1>5. QueueSpare' = QueueSpare /\ \A n : QueueUsed(n)' = QueueUsed(n)
  BY <1>4 DEF QueueSpare, QueueUsed
<1>6. ASSUME NEW t \in Threads PROVE QueueLocal(t)' /\ QueueSeen(t, b)'
  BY <1>1, <1>3, <1>4 DEF QueueInv, QueueLocal, QueueSeen
<1>7. QueueList(b)'
  BY <1>1, <1>2, <1>5 DEF QueueInv, QueueList
<1>8. QueueAlive(b)'
  BY <1>1, <1>2, <1>3, <1>4, <1>5 DEF QueueInv, QueueAlive
<1>9. QueueCounts(b, A, va, B, vb, e)'
  BY <1>1, <1>2, <1>3, <1>5 DEF QueueInv, QueueCounts, QueueSettled
<1>10. QueueApart(b)'
  BY <1>1, <1>3 DEF QueueInv, QueueApart
<1> QED BY <1>1, <1>2, <1>3, <1>6, <1>7, <1>8, <1>9, <1>10 DEF QueueInv

(* The queue has one empty node, and no thread has anything.                *)
LEMMA QueueInit ==
  ASSUME Queue!Init
  PROVE  (\E b, A, va, B, vb, e : QueueInv(b, A, va, B, vb, e)) /\ Queue!Fifo!Init
<1>1. PICK n \in QueueNodes :
        /\ head = Queue!CountedNodePtr(1, n) /\ tail = head
        /\ node = [m \in QueueNodes |-> Queue!NewNode] /\ alive = {n}
        /\ me = [t \in Threads |-> Queue!Idle]
        /\ pops = 0 /\ out = << >> /\ lost = {} /\ empties = 0 /\ emptyAt = {}
  BY DEF Queue!Init, QueueNodes
<1>2. /\ head \in Queue!Counted /\ head.count = 1 /\ head.ptr = n
      /\ tail \in Queue!Counted /\ tail.count = 1 /\ tail.ptr = n
  BY <1>1 DEF Queue!Counted, Queue!CountedNodePtr, QueueNodes
<1>3. /\ \A m \in QueueNodes : /\ node[m] = Queue!NewNode /\ node[m].next = Queue!None
                               /\ node[m].internal = 0 /\ node[m].counters = 2 /\ node[m].data = Null
      /\ node \in [QueueNodes -> QueueFields]
  <2>1. /\ Queue!NewNode \in QueueFields /\ Queue!NewNode.next = Queue!None
        /\ Queue!NewNode.data = Null /\ Queue!NewNode.internal = 0 /\ Queue!NewNode.counters = 2
    BY QueueNewIs DEF Queue!NewNode
  <2> QED BY <1>1, <2>1
<1>4. \A t \in Threads : /\ me[t] = Queue!Idle /\ me[t].pc = "idle" /\ me[t].to = Queue!None
                         /\ me[t].mine = Null /\ me[t].val = Null
  BY <1>1, QueueIdleIs
<1>5. QueueTypes
  <2>1. me \in [Threads -> QueueLocals]
    BY <1>1, QueueIdleIs
  <2>2. pops \in 0..(MaxPops - 1) /\ empties \in Nat
    BY <1>1
  <2> QED BY <1>1, <1>2, <1>3, <2>1, <2>2 DEF QueueTypes
<1>6. /\ Members(<< >>) = {} /\ QueueAfter = {} /\ QueueSpare = {} /\ QueueLinked(<< >>) = {n}
      /\ \A t \in Threads : /\ QueueMine(t) = {} /\ QueueUses(t) = {}
                            /\ HeadWon[t] = {} /\ TailWon[t] = {}
  <2>1. Members(<< >>) = {}
    BY ListEmpty
  <2>2. QueueAfter = {}
    BY <1>2, <1>3, QueueIdleIs DEF QueueAfter
  <2>3. \A t \in Threads : /\ QueueMine(t) = {} /\ QueueUses(t) = {}
                           /\ HeadWon[t] = {} /\ TailWon[t] = {}
    BY <1>4 DEF QueueMine, QueueUses, HeadWon, TailWon, Queue!Touching
  <2>4. QueueSpare = {}
    BY <2>3 DEF QueueSpare
  <2> QED BY <1>2, <2>1, <2>2, <2>3, <2>4 DEF QueueLinked
<1>7. \A t \in Threads : QueueLocal(t) /\ QueueSeen(t, << >>)
  BY <1>4, <1>6 DEF QueueLocal, QueueSeen, Queue!Touching
<1>8. QueueList(<< >>)
  <2>1. ListFrom(QueueNodes, n, n, QueueNext, << >>)
    BY ListEmpty
  <2> QED BY <1>2, <1>6, <2>1 DEF QueueList, QueueNodes
<1>9. QueueAlive(<< >>)
  BY <1>1, <1>2, <1>3, <1>6 DEF QueueAlive
<1> DEFINE z == [m \in QueueNodes |-> 0]
<1>10. QueueCounts(<< >>, {n}, z, {n}, z, z)
  <2>1. /\ UNION { HeadWon[t] : t \in Threads } = {} /\ UNION { TailWon[t] : t \in Threads } = {}
        /\ z \in [QueueNodes -> Nat] /\ \A m \in QueueNodes : z[m] = 0
    BY <1>6
  <2> HIDE DEF z
  <2>2. QueueSide({n}, z, head, {n}, HeadWon, QueueRead) /\ QueueSide({n}, z, tail, {n}, TailWon, QueueRead)
    BY <1>2, <1>6, <2>1 DEF QueueSide
  <2>3. QueueSettled(n, {n}, z, {n}, z, z)
    BY <1>3, <1>6, <2>1, QueueUsers DEF QueueSettled, InPlace
  <2>4. QueueLinked(<< >>) \cup QueueSpare = {n} /\ {tail.ptr} \cup QueueAfter \cup QueueSpare = {n}
    BY <1>2, <1>6
  <2>5. /\ QueueSide({n}, z, head, QueueLinked(<< >>) \cup QueueSpare, HeadWon, QueueRead)
        /\ QueueSide({n}, z, tail, {tail.ptr} \cup QueueAfter \cup QueueSpare, TailWon, QueueRead)
    BY <2>2, <2>4
  <2>6. \A m \in alive : QueueSettled(m, {n}, z, {n}, z, z)
    BY <1>1, <2>3
  <2>7. emptyAt \subseteq alive /\ \A m \in QueueNodes : m \in emptyAt <=> z[m] # 0
    BY <1>1, <2>1
  <2> QED BY <2>1, <2>5, <2>6, <2>7 DEF QueueCounts
<1>11. QueueApart(<< >>)
  BY <1>3, <1>4, <1>6 DEF QueueApart
<1>12. empties + Cardinality(QueueLooking) <= pops
  <2>1. QueueLooking = {}
    BY <1>4 DEF QueueLooking
  <2> QED BY <1>1, <2>1, FS_EmptySet
<1>13. QueueInv(<< >>, {n}, z, {n}, z, z)
  BY <1>5, <1>7, <1>8, <1>9, <1>10, <1>11, <1>12 DEF QueueInv
<1>14. Queue!Queue = << >>
  <2>1. Queue!Queue = Along(QueueData, << >>)
    BY <1>5, <1>8, <1>9, QueuePath
  <2> QED BY <2>1, AlongEmpty
<1> QED BY <1>1, <1>13, <1>14 DEF Queue!Fifo!Init

(* Every step of LockFreeQueue.                                             *)
LEMMA QueueStep ==
  ASSUME NEW b, NEW A, NEW va, NEW B, NEW vb, NEW e, QueueInv(b, A, va, B, vb, e), Queue!Next
  PROVE  QueueKeeps(b)
<1>1. PICK t \in Threads :
        \/ \E n \in QueueNodes : Queue!HelpLink(t, n) \/ \E x \in Values : Queue!Push(t, x, n)
        \/ Queue!CountTail(t) \/ Queue!SetData(t) \/ Queue!DataTaken(t) \/ Queue!Link(t)
        \/ Queue!HelpLinked(t) \/ Queue!SetTail(t) \/ Queue!SetTailFail(t)
        \/ Queue!Pop(t) \/ Queue!CountHead(t) \/ Queue!PopEmpty(t) \/ Queue!Look(t)
        \/ Queue!SetHead(t) \/ Queue!SetHeadFail(t) \/ Queue!Take(t)
        \/ Queue!FreeExternalCounter(t) \/ Queue!ReleaseRef(t)
  BY DEF Queue!Next, QueueNodes
<1>2. CASE \E n \in QueueNodes : Queue!HelpLink(t, n) \/ \E x \in Values : Queue!Push(t, x, n)
  BY <1>2, QueueHelpLink, QueuePush
<1>3. CASE Queue!CountTail(t)
  BY <1>3, QueueCountTail, QueueCountTailRetry
<1>4. CASE Queue!SetData(t) \/ Queue!DataTaken(t)
  BY <1>4, QueueSetData, QueueDataTaken
<1>5. CASE Queue!Link(t)
  BY <1>5, QueueLink, QueueLinkLate
<1>6. CASE Queue!HelpLinked(t)
  BY <1>6, QueueHelpLinked
<1>7. CASE Queue!SetTail(t) \/ Queue!SetTailFail(t)
  BY <1>7, QueueSetTail, QueueSetTailFail
<1>8. CASE Queue!Pop(t)
  BY <1>8, QueuePop
<1>9. CASE Queue!CountHead(t)
  BY <1>9, QueueCountHead, QueueCountHeadRetry
<1>10. CASE Queue!PopEmpty(t) \/ Queue!Look(t)
  BY <1>10, QueuePopEmpty, QueueLook
<1>11. CASE Queue!SetHead(t) \/ Queue!SetHeadFail(t)
  BY <1>11, QueueSetHead, QueueSetHeadFail
<1>12. CASE Queue!Take(t)
  BY <1>12, QueueTake
<1>13. CASE Queue!FreeExternalCounter(t)
  BY <1>13, QueueFree
<1>14. CASE Queue!ReleaseRef(t)
  BY <1>14, QueueRelease
<1> QED BY <1>1, <1>2, <1>3, <1>4, <1>5, <1>6, <1>7, <1>8, <1>9, <1>10, <1>11, <1>12, <1>13, <1>14

(* It is one of FifoQueue, or none.                                         *)
LEMMA QueueImplements ==
  ASSUME NEW b, NEW d, QueueTypes, QueueList(b), QueueAlive(b),
         QueueTypes', QueueList(d)', QueueAlive(d)', QueueFifo(b, d)
  PROVE  [Queue!Fifo!Next]_(Queue!Fifo!queueVars)
<1>1. Queue!Queue = Along(QueueData, b) /\ Queue!Queue' = Along(QueueData', d)
  <2>1. Queue!Queue = Along(QueueData, b)
    BY QueuePath
  <2>2. Queue!Queue' = Along(QueueData', d)
    BY QueuePaths
  <2> QED BY <2>1, <2>2
<1>2. PICK s, s2 : s = Queue!Queue /\ s2 = Queue!Queue'
  OBVIOUS
<1>3. FifoStep(s, out, lost, empties, s2, out', lost', empties')
  BY <1>1, <1>2 DEF QueueFifo
<1>4. CASE s2 = s /\ out' = out /\ lost' = lost /\ empties' = empties
  BY <1>2, <1>4 DEF Queue!Fifo!queueVars
<1>5. \A x : x \notin Members(s) \cup Members(out) \cup lost => Queue!Fifo!New(x)
  BY <1>2 DEF Queue!Fifo!New, Queue!Fifo!Elements, Members
<1>6. CASE \E x \in Values : /\ x \notin Members(s) \cup Members(out) \cup lost
                             /\ s2 = Append(s, x) /\ out' = out /\ lost' = lost /\ empties' = empties
  <2>1. PICK x \in Values : /\ x \notin Members(s) \cup Members(out) \cup lost
                            /\ s2 = Append(s, x) /\ out' = out /\ lost' = lost /\ empties' = empties
    BY <1>6
  <2>2. Queue!Fifo!Push(x)
    BY <1>2, <1>5, <2>1 DEF Queue!Fifo!Push
  <2> QED BY <2>2 DEF Queue!Fifo!Next
<1>7. CASE \E x \in Values : /\ x \notin Members(s) \cup Members(out) \cup lost /\ out # << >>
                             /\ s2 = s /\ out' = out /\ lost' = lost \cup {x} /\ empties' = empties
  <2>1. PICK x \in Values : /\ x \notin Members(s) \cup Members(out) \cup lost /\ out # << >>
                            /\ s2 = s /\ out' = out /\ lost' = lost \cup {x} /\ empties' = empties
    BY <1>7
  <2>2. Queue!Fifo!Miss(x)
    BY <1>2, <1>5, <2>1 DEF Queue!Fifo!Miss
  <2> QED BY <2>2 DEF Queue!Fifo!Next
<1>8. CASE s # << >> /\ s2 = Tail(s) /\ out' = Append(out, Head(s)) /\ lost' = lost /\ empties' = empties
  BY <1>2, <1>8 DEF Queue!Fifo!Next, Queue!Fifo!Pop
<1>9. CASE s = << >> /\ empties' = empties + 1 /\ s2 = s /\ out' = out /\ lost' = lost
  BY <1>2, <1>9 DEF Queue!Fifo!Next, Queue!Fifo!PopEmpty
<1> QED BY <1>3, <1>4, <1>6, <1>7, <1>8, <1>9 DEF FifoStep

-----------------------------------------------------------------------------
(* All of them. *)

(* The inductive invariant: of the container that part names.               *)
LockFreeInv ==
  /\ part \in {"RefCount", "Hazard", "ThreadCount", "Sharedptr", "Queue"}
  /\ part = "RefCount" => \E c : RefInv(c)
  /\ part = "Hazard" => \E c : HazardInv(c)
  /\ part = "ThreadCount" => \E c : CountInv(c)
  /\ part = "Sharedptr" => \E c : SharedInv(c)
  /\ part = "Queue" => \E b, A, va, B, vb, e : QueueInv(b, A, va, B, vb, e)

(* Nothing of it changes when no variable does: RefCountStack.              *)
LEMMA RefStutters ==
  ASSUME NEW c, RefInv(c), UNCHANGED vars
  PROVE  RefInv(c)'
<1>1. /\ head' = head /\ alive' = alive /\ pops' = pops /\ out' = out /\ empties' = empties
      /\ next' = next /\ data' = data /\ pc' = pc /\ old' = old /\ internal' = internal /\ ptr' = ptr
  BY DEF vars, linked, stepping, forRefCount
<1>2. RefTypes' /\ (\A t \in Threads : RefThread(t))'
  BY <1>1 DEF RefInv, RefTypes, RefThread
<1>3. \A t \in Threads : /\ RefTouches(t)' = RefTouches(t) /\ RefOwns(t)' = RefOwns(t)
                         /\ RefHolds(t)' = RefHolds(t)
  BY <1>1 DEF RefTouches, RefOwns, RefHolds
<1>4. Below' = Below
  BY <1>1 DEF Below
<1>5. RefNodes(c)'
  BY <1>1, <1>3, <1>4 DEF RefInv, RefNodes
<1>6. \A n : RefUsed(n)' = RefUsed(n)
  BY <1>1 DEF RefUsed, RefCount!Users
<1>7. RefCounts(c)'
  <2>1. RefLink(head)' /\ \A n \in Members(c) : RefLink(next[n])'
    BY <1>1, <1>6 DEF RefInv, RefCounts, RefLink, RefUsed, RefCount!Users
  <2>2. \A t \in Threads : RefOwes(t)'
    BY <1>1 DEF RefInv, RefCounts, RefOwes, RefUsed, RefCount!Users
  <2>3. \A n \in alive : RefLeft(n)' = RefLeft(n)
    BY <1>1, <1>6 DEF RefLeft
  <2> QED BY <1>1, <1>3, <2>1, <2>2, <2>3 DEF RefInv, RefCounts
<1>8. RefHeld(c)' = RefHeld(c) /\ RefLooking' = RefLooking
  BY <1>1, <1>3 DEF RefHeld, RefLooking
<1>9. DataApart(RefHeld(c))'
  BY <1>1, <1>8 DEF RefInv, DataApart
<1> QED BY <1>1, <1>2, <1>5, <1>7, <1>8, <1>9 DEF RefInv

(* The same of HazardStack.                                                 *)
LEMMA HazardStutters ==
  ASSUME NEW c, HazardInv(c), UNCHANGED vars
  PROVE  HazardInv(c)'
<1>1. /\ head' = head /\ alive' = alive /\ pops' = pops /\ out' = out /\ empties' = empties
      /\ next' = next /\ data' = data /\ id' = id /\ pointer' = pointer
      /\ nodes_to_reclaim' = nodes_to_reclaim /\ self' = self /\ exits' = exits
  BY DEF vars, linked, forHazard
<1>2. HazardTypes' /\ HazardThreads' /\ HazardSlots'
  BY <1>1 DEF HazardInv, HazardTypes, HazardThreads, HazardThread, HazardSlots, HazardSlot
<1>3. \A t \in Threads : Hazard!Owned(t)' = Hazard!Owned(t) /\ HazardHolds(t)' = HazardHolds(t)
  BY <1>1 DEF Hazard!Owned, HazardHolds
<1>4. HazardNodes(c)'
  BY <1>1, <1>3 DEF HazardInv, HazardNodes
<1>5. HazardGuard'
  BY <1>1 DEF HazardInv, HazardGuard
<1>6. HazardHeld(c)' = HazardHeld(c) /\ HazardLooking' = HazardLooking
  BY <1>1, <1>3 DEF HazardHeld, HazardLooking
<1>7. DataApart(HazardHeld(c))'
  BY <1>1, <1>6 DEF HazardInv, DataApart
<1> QED BY <1>1, <1>2, <1>4, <1>5, <1>6, <1>7 DEF HazardInv

(* The same of ThreadCountStack.                                            *)
LEMMA CountStutters ==
  ASSUME NEW c, CountInv(c), UNCHANGED vars
  PROVE  CountInv(c)'
<1>1. /\ head' = head /\ alive' = alive /\ pops' = pops /\ out' = out /\ empties' = empties
      /\ next' = next /\ data' = data /\ pc' = pc /\ old' = old /\ to_be_deleted' = to_be_deleted
      /\ threads_in_pop' = threads_in_pop /\ claimed' = claimed /\ process' = process
  BY DEF vars, linked, stepping, forThreadCount
<1>2. CountTypes' /\ (\A t \in Threads : CountThread(t))'
  BY <1>1 DEF CountInv, CountTypes, CountThread
<1>3. \A t \in Threads : /\ ThreadCount!Owned(t)' = ThreadCount!Owned(t)
                         /\ CountHolds(t)' = CountHolds(t) /\ CountDooms(t)' = CountDooms(t)
  BY <1>1 DEF ThreadCount!Owned, CountHolds, CountDooms
<1>4. CountNodes(c)'
  BY <1>1, <1>3 DEF CountInv, CountNodes
<1>5. CountGuard'
  BY <1>1, <1>3 DEF CountInv, CountGuard
<1>6. /\ CountHeld(c)' = CountHeld(c) /\ CountLooking' = CountLooking
      /\ ThreadCount!Popping' = ThreadCount!Popping
  BY <1>1, <1>3 DEF CountHeld, CountLooking, ThreadCount!Popping
<1>7. DataApart(CountHeld(c))'
  BY <1>1, <1>6 DEF CountInv, DataApart
<1> QED BY <1>1, <1>2, <1>4, <1>5, <1>6, <1>7 DEF CountInv

(* The same of SharedptrStack.                                              *)
LEMMA SharedStutters ==
  ASSUME NEW c, SharedInv(c), UNCHANGED vars
  PROVE  SharedInv(c)'
<1>1. /\ head' = head /\ pops' = pops /\ out' = out /\ empties' = empties
      /\ next' = next /\ data' = data /\ pc' = pc /\ old' = old /\ new' = new /\ below' = below
  BY DEF vars, linked, stepping, forSharedptr
<1>2. SharedTypes' /\ (\A t \in Threads : SharedThread(t))'
  BY <1>1 DEF SharedInv, SharedTypes, SharedThread
<1>3. SharedNodes(c)'
  BY <1>1 DEF SharedInv, SharedNodes
<1>4. SharedHeld(c)' = SharedHeld(c) /\ SharedLooking' = SharedLooking
  BY <1>1 DEF SharedHeld, SharedLooking
<1>5. DataApart(SharedHeld(c))'
  BY <1>1, <1>4 DEF SharedInv, DataApart
<1> QED BY <1>1, <1>2, <1>3, <1>4, <1>5 DEF SharedInv

(* The first state is one of the container's.                               *)
LEMMA LockFreeInit ==
  ASSUME Init
  PROVE  /\ LockFreeInv
         /\ part = "Queue" => Queue!Fifo!Init
         /\ CASE part = "RefCount"    -> RefCount!Lifo!Init
              [] part = "Hazard"      -> Hazard!Lifo!Init
              [] part = "ThreadCount" -> ThreadCount!Lifo!Init
              [] part = "Sharedptr"   -> Sharedptr!Lifo!Init
              [] OTHER                -> TRUE
<1>1. CASE part = "RefCount" /\ RefCount!Init
  BY <1>1, RefInit DEF LockFreeInv
<1>2. CASE part = "Hazard" /\ Hazard!Init
  BY <1>2, HazardInit DEF LockFreeInv
<1>3. CASE part = "ThreadCount" /\ ThreadCount!Init
  BY <1>3, CountInit DEF LockFreeInv
<1>4. CASE part = "Sharedptr" /\ Sharedptr!Init
  BY <1>4, SharedInit DEF LockFreeInv
<1>5. CASE part = "Queue" /\ Queue!Init
  BY <1>5, QueueInit DEF LockFreeInv
<1> QED BY <1>1, <1>2, <1>3, <1>4, <1>5 DEF Init

(* What a step does to the list, and promises, is what its stack's lemmas   *)
(* say; the other stacks do not take steps.                                 *)
LockFreeMove ==
  CASE part = "RefCount"    -> [RefCount!Lifo!Next]_(RefCount!Lifo!stackVars)
    [] part = "Hazard"      -> [Hazard!Lifo!Next]_(Hazard!Lifo!stackVars)
    [] part = "ThreadCount" -> [ThreadCount!Lifo!Next]_(ThreadCount!Lifo!stackVars)
    [] part = "Sharedptr"   -> [Sharedptr!Lifo!Next]_(Sharedptr!Lifo!stackVars)
    [] OTHER                -> TRUE

QueueMove == part = "Queue" => [Queue!Fifo!Next]_(Queue!Fifo!queueVars)

(* A step of a container keeps its invariant and is one of LifoStack, or of *)
(* FifoQueue.                                                               *)
LEMMA LockFreeNext ==
  ASSUME LockFreeInv, Next
  PROVE  LockFreeInv' /\ LockFreeMove /\ QueueMove
<1>1. part' = part
  BY DEF Next
<1>2. CASE part = "RefCount" /\ RefCount!Next
  <2>1. PICK c : RefInv(c)
    BY <1>2 DEF LockFreeInv
  <2>2. PICK d : RefInv(d)' /\ RefLifo(c, d)
    BY <1>2, <2>1, RefStep
  <2>3. [RefCount!Lifo!Next]_(RefCount!Lifo!stackVars)
    BY <2>1, <2>2, RefImplements
  <2> QED BY <1>1, <1>2, <2>2, <2>3 DEF LockFreeInv, LockFreeMove, QueueMove
<1>3. CASE part = "Hazard" /\ Hazard!Next
  <2>1. PICK c : HazardInv(c)
    BY <1>3 DEF LockFreeInv
  <2>2. PICK d : HazardInv(d)' /\ HazardLifo(c, d)
    BY <1>3, <2>1, HazardStep
  <2>3. [Hazard!Lifo!Next]_(Hazard!Lifo!stackVars)
    BY <2>1, <2>2, HazardImplements
  <2> QED BY <1>1, <1>3, <2>2, <2>3 DEF LockFreeInv, LockFreeMove, QueueMove
<1>4. CASE part = "ThreadCount" /\ ThreadCount!Next
  <2>1. PICK c : CountInv(c)
    BY <1>4 DEF LockFreeInv
  <2>2. PICK d : CountInv(d)' /\ CountLifo(c, d)
    BY <1>4, <2>1, CountStep
  <2>3. [ThreadCount!Lifo!Next]_(ThreadCount!Lifo!stackVars)
    BY <2>1, <2>2, CountImplements
  <2> QED BY <1>1, <1>4, <2>2, <2>3 DEF LockFreeInv, LockFreeMove, QueueMove
<1>5. CASE part = "Sharedptr" /\ Sharedptr!Next
  <2>1. PICK c : SharedInv(c)
    BY <1>5 DEF LockFreeInv
  <2>2. PICK d : SharedInv(d)' /\ SharedLifo(c, d)
    BY <1>5, <2>1, SharedStep
  <2>3. [Sharedptr!Lifo!Next]_(Sharedptr!Lifo!stackVars)
    BY <2>1, <2>2, SharedImplements
  <2> QED BY <1>1, <1>5, <2>2, <2>3 DEF LockFreeInv, LockFreeMove, QueueMove
<1>6. CASE part = "Queue" /\ Queue!Next
  <2>1. PICK b, A, va, B, vb, e : QueueInv(b, A, va, B, vb, e)
    BY <1>6 DEF LockFreeInv
  <2>2. QueueKeeps(b)
    BY <1>6, <2>1, QueueStep
  <2>3. PICK d, A2, va2, B2, vb2, e2 : QueueInv(d, A2, va2, B2, vb2, e2)' /\ QueueFifo(b, d)
    BY <2>2 DEF QueueKeeps
  <2>4. [Queue!Fifo!Next]_(Queue!Fifo!queueVars)
    <3>1. QueueTypes /\ QueueList(b) /\ QueueAlive(b)
      BY <2>1 DEF QueueInv
    <3>2. QueueTypes' /\ QueueList(d)' /\ QueueAlive(d)'
      BY <2>3 DEF QueueInv
    <3> QED BY <2>3, <3>1, <3>2, QueueImplements
  <2>5. part' = "Queue" /\ \E f, C, vc, D, vd, g : QueueInv(f, C, vc, D, vd, g)'
    BY <1>1, <1>6, <2>3
  <2> QED BY <1>6, <2>4, <2>5 DEF LockFreeInv, LockFreeMove, QueueMove
<1> QED BY <1>2, <1>3, <1>4, <1>5, <1>6 DEF Next

(* The invariant keeps.                                                     *)
LEMMA LockFreeStep ==
  ASSUME LockFreeInv, [Next]_vars
  PROVE  LockFreeInv'
<1>1. CASE Next
  BY <1>1, LockFreeNext
<1>2. CASE UNCHANGED vars
  <2>1. part' = part
    BY <1>2 DEF vars
  <2>2. part = "RefCount" => \E c : RefInv(c)'
    BY <1>2, RefStutters DEF LockFreeInv
  <2>3. part = "Hazard" => \E c : HazardInv(c)'
    BY <1>2, HazardStutters DEF LockFreeInv
  <2>4. part = "ThreadCount" => \E c : CountInv(c)'
    BY <1>2, CountStutters DEF LockFreeInv
  <2>5. part = "Sharedptr" => \E c : SharedInv(c)'
    BY <1>2, SharedStutters DEF LockFreeInv
  <2>6. part = "Queue" => \E b, A, va, B, vb, e : QueueInv(b, A, va, B, vb, e)'
    BY <1>2, QueueStutters DEF LockFreeInv
  <2> QED BY <2>1, <2>2, <2>3, <2>4, <2>5, <2>6 DEF LockFreeInv
<1> QED BY <1>1, <1>2

(* In every reachable state of a lock-free container there is a list of     *)
(* nodes from head, and the owners, counts and announcements of the nodes   *)
(* fit it.                                                                  *)
THEOREM LockFreeInvariant == Spec => []LockFreeInv
<1>1. Init => LockFreeInv
  BY LockFreeInit
<1>2. LockFreeInv /\ [Next]_vars => LockFreeInv'
  BY LockFreeStep
<1> QED BY <1>1, <1>2, PTL DEF Spec

(* What the invariant says of each of the containers.                       *)
LEMMA LockFreeMeans ==
  ASSUME LockFreeInv
  PROVE  /\ part = "RefCount" => /\ RefCount!TypeOK /\ RefCount!NoUseAfterDelete
                                 /\ RefCount!NoLeak /\ RefCount!CountsAddUp
         /\ part = "Hazard" => /\ Hazard!TypeOK /\ Hazard!NoUseAfterDelete
                               /\ Hazard!OneOwner /\ Hazard!SlotsHandedOver
         /\ part = "ThreadCount" => /\ ThreadCount!TypeOK /\ ThreadCount!NoUseAfterDelete
                                    /\ ThreadCount!OneOwner /\ ThreadCount!CountsThreads
         /\ part = "Sharedptr" => Sharedptr!TypeOK
         /\ part = "Queue" => /\ Queue!TypeOK /\ Queue!NoUseAfterDelete
                              /\ Queue!LeaksOnlyEmptyPops
         /\ part \in {"RefCount", "Hazard", "ThreadCount", "Sharedptr", "Queue"}
BY RefMeans, HazardMeans, CountMeans, SharedMeans, QueueMeans DEF LockFreeInv

(* Slots of HazardStack: one owner each, announcing only its node in hand.  *)
THEOREM SlotsHandedOverHolds == Spec => []SlotsHandedOver
<1>1. LockFreeInv => SlotsHandedOver
  BY LockFreeMeans DEF SlotsHandedOver
<1> QED BY <1>1, LockFreeInvariant, PTL

(* The counts of RefCountStack are the users of each node, and              *)
(* threads_in_pop of ThreadCountStack the threads that may hold one.        *)
THEOREM CountsAddUpHolds == Spec => []CountsAddUp
<1>1. LockFreeInv => CountsAddUp
  BY LockFreeMeans DEF CountsAddUp
<1> QED BY <1>1, LockFreeInvariant, PTL

(* The four stacks are linearizable: each step is one of LifoStack, or      *)
(* changes nothing that a caller sees.                                      *)
THEOREM StacksImplement == Spec => ImplementsLifo
<1>1. Init => CASE part = "RefCount"    -> RefCount!Lifo!Init
                [] part = "Hazard"      -> Hazard!Lifo!Init
                [] part = "ThreadCount" -> ThreadCount!Lifo!Init
                [] part = "Sharedptr"   -> Sharedptr!Lifo!Init
                [] OTHER                -> TRUE
  BY LockFreeInit
<1>2. LockFreeInv /\ [Next]_vars => [LockFreeMove]_vars
  BY LockFreeNext
<1>3. Spec => [][LockFreeMove]_vars
  BY <1>2, LockFreeInvariant, PTL DEF Spec
<1> QED BY <1>1, <1>3, PTL DEF Spec, ImplementsLifo, LockFreeMove

(* LockFreeQueue is linearizable: each step is one of FifoQueue, or changes *)
(* nothing that a caller sees, although pushes help each other and pops     *)
(* leave nodes that a push still fills.                                     *)
THEOREM QueueImplementsFifo == Spec => ImplementsFifo
<1>1. Init => (part = "Queue" => Queue!Fifo!Init)
  BY LockFreeInit
<1>2. LockFreeInv /\ [Next]_vars => [QueueMove]_vars
  BY LockFreeNext
<1>3. Spec => [][QueueMove]_vars
  BY <1>2, LockFreeInvariant, PTL DEF Spec
<1> QED BY <1>1, <1>3, PTL DEF Spec, ImplementsFifo, QueueMove

(* No container deletes a node while it is linked, or while a call will     *)
(* still use it.                                                            *)
THEOREM NeverUsesDeleted == Spec => []NoUseAfterDelete
<1>1. LockFreeInv => NoUseAfterDelete
  BY LockFreeMeans DEF NoUseAfterDelete
<1> QED BY <1>1, LockFreeInvariant, PTL

(* Where nodes wait for their deletion, each is linked, on the shared list, *)
(* or with one thread; where they are counted, none are left when no call   *)
(* is in progress but the linked ones and, in the queue, those on which a   *)
(* pop has found it empty.                                                  *)
THEOREM OwnersHold == Spec => []EveryNodeHasOwner
<1>1. LockFreeInv => EveryNodeHasOwner
  BY LockFreeMeans DEF EveryNodeHasOwner
<1> QED BY <1>1, LockFreeInvariant, PTL

(* The containers keep their types: a thread has a node wherever it will    *)
(* use one, threads_in_pop is never negative, a node of the queue never has *)
(* fewer than none of its two external counters, and no pop takes effect    *)
(* twice as a pop of nothing.                                               *)
THEOREM LockFreeTypeCorrect == Spec => []TypeOK
<1>1. LockFreeInv => TypeOK
  BY LockFreeMeans DEF TypeOK
<1> QED BY <1>1, LockFreeInvariant, PTL

=============================================================================
