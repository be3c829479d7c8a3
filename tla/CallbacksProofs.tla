--------------------------- MODULE CallbacksProofs ---------------------------
(***************************************************************************)
(* Proofs about what one thread is called back by, for every bound of      *)
(* MCCallbacks, every set of keys, functions and guards, and whatever the  *)
(* callbacks do.  Each component has an inductive invariant of its own;    *)
(* Inv is all of them, each in the behaviours of its part.                 *)
(***************************************************************************)
EXTENDS MCCallbacks, DataProofs, SequenceTheorems

USE CallbacksAssumption DEF CallbacksAssumption

-----------------------------------------------------------------------------
(* Stacks of calls. *)

(* A call puts its frame in front of the others. *)
LEMMA Pushed ==
  ASSUME NEW S, NEW s \in Seq(S), NEW f \in S
  PROVE  LET p == << f >> \o s IN
         /\ p \in Seq(S) /\ Len(p) = Len(s) + 1 /\ p[1] = f
         /\ \A i \in 2..Len(p) : i - 1 \in 1..Len(s) /\ p[i] = s[i - 1]
OBVIOUS

(* A return takes it away. *)
LEMMA Popped ==
  ASSUME NEW S, NEW s \in Seq(S), s # << >>
  PROVE  /\ Tail(s) \in Seq(S) /\ Len(Tail(s)) = Len(s) - 1
         /\ \A i \in 1..Len(Tail(s)) : i + 1 \in 1..Len(s) /\ Tail(s)[i] = s[i + 1]
OBVIOUS

(* A loop that goes on changes the first frame only.                        *)
LEMMA Replaced ==
  ASSUME NEW S, NEW s \in Seq(S), s # << >>, NEW f \in S
  PROVE  LET r == [s EXCEPT ![1] = f] IN
         /\ r \in Seq(S) /\ Len(r) = Len(s) /\ r[1] = f
         /\ \A i \in 2..Len(s) : r[i] = s[i]
OBVIOUS

(* The end of a scope takes the last away.                                  *)
LEMMA Shortened ==
  ASSUME NEW S, NEW s \in Seq(S), s # << >>
  PROVE  LET r == SubSeq(s, 1, Len(s) - 1) IN
         /\ r \in Seq(S) /\ Len(r) = Len(s) - 1
         /\ \A i \in 1..Len(r) : i \in 1..Len(s) /\ r[i] = s[i]
<1>1. Len(s) \in Nat /\ Len(s) > 0
  OBVIOUS
<1>2. \A i \in 1..(Len(s) - 1) : i \in 1..Len(s) /\ s[i] \in S
  BY <1>1
<1> DEFINE r == SubSeq(s, 1, Len(s) - 1)
<1> SUFFICES /\ r \in Seq(S) /\ Len(r) = Len(s) - 1
             /\ \A i \in 1..Len(r) : i \in 1..Len(s) /\ r[i] = s[i]
  OBVIOUS
<1>3. /\ r \in Seq(S)
      /\ Len(r) = IF 1 <= Len(s) - 1 THEN (Len(s) - 1) - 1 + 1 ELSE 0
      /\ \A i \in 1..((Len(s) - 1) - 1 + 1) : r[i] = s[1 + i - 1]
  <2>1. 1 \in Int /\ Len(s) - 1 \in Int
    BY <1>1
  <2> QED BY <1>2, <2>1, SubSeqProperties
<1> HIDE DEF r
<1>4. Len(r) = Len(s) - 1
  <2>1. \A m \in Nat : m > 0 => (IF 1 <= m - 1 THEN (m - 1) - 1 + 1 ELSE 0) = m - 1
    OBVIOUS
  <2> QED BY <1>1, <1>3, <2>1
<1>5. ASSUME NEW i \in 1..Len(r) PROVE i \in 1..Len(s) /\ r[i] = s[i]
  <2>1. i \in 1..(Len(s) - 1) /\ (Len(s) - 1) - 1 + 1 = Len(s) - 1 /\ 1 + i - 1 = i
    BY <1>1, <1>4
  <2> QED BY <1>2, <1>3, <2>1
<1> QED BY <1>3, <1>4, <1>5

(* These are three different stacks.                                        *)
LEMMA Lengths ==
  ASSUME NEW S, NEW s \in Seq(S), s # << >>
  PROVE  /\ Len(s) \in Nat /\ 1 \in 1..Len(s) /\ s[1] \in S
         /\ Tail(s) # s
         /\ \A f : Tail(s) # [s EXCEPT ![1] = f]
<1>1. Len(s) \in Nat /\ Len(s) > 0 /\ s[1] \in S
  OBVIOUS
<1>2. Len(Tail(s)) = Len(s) - 1
  OBVIOUS
<1>3. ASSUME NEW f, Tail(s) = [s EXCEPT ![1] = f] PROVE FALSE
  <2>1. DOMAIN Tail(s) = DOMAIN s
    BY <1>3
  <2>2. DOMAIN Tail(s) = 1..(Len(s) - 1) /\ DOMAIN s = 1..Len(s)
    BY <1>2
  <2>3. Len(s) \in 1..Len(s) /\ ~(Len(s) \in 1..(Len(s) - 1))
    BY <1>1
  <2> QED BY <2>1, <2>2, <2>3
<1>4. ASSUME Tail(s) = s PROVE FALSE
  <2>1. Len(Tail(s)) = Len(s)
    BY <1>4
  <2> QED BY <1>1, <1>2, <2>1
<1>5. 1 \in 1..Len(s)
  BY <1>1
<1> QED BY <1>1, <1>3, <1>4, <1>5

-----------------------------------------------------------------------------
(* Events. *)

(* Whoever is connected behind the element a loop stands on is still to be  *)
(* called; the others have been.                                            *)
CalledSoFar == \A i \in 1..Len(frames) :
  \A k \in connections : k <= frames[i].at => k \in frames[i].called

EventsInv == Observers!TypeOK /\ CalledSoFar

EventsFrames(m) == [at : (-1)..(m - 1), called : SUBSET (0..(m - 1))]

(* The invariant holds at first.                                            *)
LEMMA EventsInvInit == Observers!Init => EventsInv
<1>1. Len(<< >>) = 0 /\ \A S : (<< >>) \in Seq(S)
  OBVIOUS
<1> SUFFICES ASSUME Observers!Init PROVE EventsInv
  OBVIOUS
<1>2. /\ observer_id = 0 /\ connections = {} /\ frames = << >>
      /\ notifies = 0 /\ lost = FALSE
  BY DEF Observers!Init
<1>3. CalledSoFar
  BY <1>2 DEF CalledSoFar
<1>4. Observers!TypeOK
  <2>1. observer_id \in 0..MaxKey /\ notifies \in 0..MaxNotifies
    BY <1>2
  <2>2. frames \in Seq([at : Observers!Start..(observer_id - 1),
                        called : SUBSET (0..(observer_id - 1))])
    BY <1>1, <1>2
  <2> QED BY <1>2, <2>1, <2>2 DEF Observers!TypeOK
<1> QED BY <1>3, <1>4 DEF EventsInv

(* Every step keeps it.                                                     *)
LEMMA EventsInvStep == EventsInv /\ [Observers!Next]_(Observers!vars) => EventsInv'
<1> SUFFICES ASSUME EventsInv, [Observers!Next]_(Observers!vars) PROVE EventsInv'
  OBVIOUS
<1> DEFINE F == EventsFrames(observer_id)
<1>t. /\ observer_id \in 0..MaxKey /\ connections \subseteq 0..(observer_id - 1)
      /\ frames \in Seq(F) /\ notifies \in 0..MaxNotifies /\ lost \in BOOLEAN
      /\ CalledSoFar
  BY DEF EventsInv, Observers!TypeOK, Observers!Start, EventsFrames
<1> DEFINE Goal ==
        /\ observer_id' \in 0..MaxKey /\ connections' \subseteq 0..(observer_id' - 1)
        /\ frames' \in Seq(EventsFrames(observer_id')) /\ notifies' \in 0..MaxNotifies
        /\ lost' \in BOOLEAN /\ CalledSoFar'
<1>g. SUFFICES Goal
  BY <1>g DEF EventsInv, Observers!TypeOK, Observers!Start, EventsFrames
<1>1. CASE Observers!Connect
  <2>1. /\ observer_id < MaxKey /\ observer_id' = observer_id + 1
        /\ connections' = connections \cup {observer_id}
        /\ UNCHANGED << frames, notifies, lost >>
    BY <1>1 DEF Observers!Connect, Observers!NewKey
  <2>2. frames' \in Seq(EventsFrames(observer_id'))
    <3>1. F \subseteq EventsFrames(observer_id')
      BY <1>t, <2>1 DEF EventsFrames
    <3> QED BY <1>t, <2>1, <3>1
  <2>3. CalledSoFar'
    <3>1. ASSUME NEW i \in 1..Len(frames) PROVE ~(observer_id <= frames[i].at)
      <4>1. frames[i] \in F
        BY <1>t
      <4> QED BY <1>t, <4>1 DEF EventsFrames
    <3> QED BY <1>t, <2>1, <3>1 DEF CalledSoFar
  <2> QED BY <1>t, <2>1, <2>2, <2>3
<1>2. ASSUME NEW k, Observers!Disconnect(k) PROVE Goal
  BY <1>t, <1>2 DEF Observers!Disconnect, CalledSoFar
<1>3. CASE Observers!Notify
  <2>1. /\ notifies < MaxNotifies /\ notifies' = notifies + 1
        /\ frames' = << Observers!Frame >> \o frames
        /\ UNCHANGED << observer_id, connections, lost >>
    BY <1>3 DEF Observers!Notify
  <2>2. Observers!Frame \in F /\ Observers!Frame.at = -1
    BY <1>t DEF Observers!Frame, Observers!Start, EventsFrames
  <2>3. /\ frames' \in Seq(F) /\ Len(frames') = Len(frames) + 1
        /\ frames'[1].at = -1
        /\ \A i \in 2..Len(frames') : i - 1 \in 1..Len(frames) /\ frames'[i] = frames[i - 1]
    BY <1>t, <2>1, <2>2, Pushed
  <2>4. CalledSoFar'
    <3>1. ASSUME NEW i \in 1..Len(frames'), NEW k \in connections', k <= frames'[i].at
          PROVE  k \in frames'[i].called
      <4>1. CASE i = 1
        BY <1>t, <2>1, <2>3, <3>1, <4>1
      <4>2. CASE i # 1
        <5>1. i \in 2..Len(frames')
          BY <1>t, <2>3, <4>2
        <5> QED BY <1>t, <2>1, <2>3, <3>1, <5>1 DEF CalledSoFar
      <4> QED BY <4>1, <4>2
    <3> QED BY <3>1 DEF CalledSoFar
  <2> QED BY <1>t, <2>1, <2>3, <2>4
<1>4. CASE Observers!Step
  <2>u. frames # << >> /\ UNCHANGED << observer_id, connections, notifies >>
    BY <1>4 DEF Observers!Step
  <2>1. CASE lost' = TRUE /\ UNCHANGED frames
    BY <1>t, <2>u, <2>1 DEF CalledSoFar
  <2>2. ASSUME NEW k \in Observers!After(frames[1]),
               \A j \in Observers!After(frames[1]) : k <= j,
               frames' = [frames EXCEPT ![1] = [at |-> k, called |-> @.called \cup {k}]],
               UNCHANGED lost
        PROVE  Goal
    <3>1. 1 \in 1..Len(frames) /\ frames[1] \in F
      BY <1>t, <2>u
    <3>2. k \in connections /\ k \in 0..(observer_id - 1)
      BY <1>t DEF Observers!After
    <3>3. /\ Len(frames') = Len(frames) /\ frames' \in Seq(F)
          /\ frames'[1].at = k /\ frames'[1].called = frames[1].called \cup {k}
          /\ \A i \in 2..Len(frames) : frames'[i] = frames[i]
      <4> DEFINE r == [at |-> k, called |-> frames[1].called \cup {k}]
      <4>1. r \in F
        BY <1>t, <3>1, <3>2 DEF EventsFrames
      <4>2. frames' = [frames EXCEPT ![1] = r]
        BY <2>2
      <4>3. /\ frames' \in Seq(F) /\ Len(frames') = Len(frames) /\ frames'[1] = r
            /\ \A i \in 2..Len(frames) : frames'[i] = frames[i]
        <5> HIDE DEF r, F
        <5> QED BY <1>t, <2>u, <4>1, <4>2, Replaced
      <4> QED BY <4>3
    <3>4. ASSUME NEW c \in connections, c <= k
          PROVE  c \in frames[1].called \cup {k}
      <4>1. CASE c <= frames[1].at
        BY <1>t, <3>1, <4>1 DEF CalledSoFar
      <4>2. CASE ~(c <= frames[1].at)
        <5>1. c \in Observers!After(frames[1])
          BY <1>t, <3>1, <4>2 DEF Observers!After, EventsFrames
        <5>2. k <= c
          BY <2>2, <5>1
        <5> QED BY <1>t, <3>2, <3>4, <5>2
      <4> QED BY <4>1, <4>2
    <3>5. CalledSoFar'
      BY <1>t, <2>u, <3>3, <3>4 DEF CalledSoFar
    <3> QED BY <1>t, <2>2, <2>u, <3>3, <3>5
  <2>3. CASE frames' = Tail(frames) /\ UNCHANGED lost
    <3>1. /\ frames' \in Seq(F) /\ Len(frames') = Len(frames) - 1
          /\ \A i \in 1..Len(frames') : i + 1 \in 1..Len(frames) /\ frames'[i] = frames[i + 1]
      BY <1>t, <2>u, <2>3, Popped
    <3>2. CalledSoFar'
      BY <1>t, <2>u, <3>1 DEF CalledSoFar
    <3> QED BY <1>t, <2>3, <2>u, <3>1, <3>2
  <2> QED BY <1>4, <2>1, <2>2, <2>3 DEF Observers!Step
<1>5. CASE Observers!Throw
  <2>1. /\ frames # << >> /\ frames' = Tail(frames)
        /\ UNCHANGED << observer_id, connections, notifies, lost >>
    BY <1>5 DEF Observers!Throw
  <2>2. /\ frames' \in Seq(F) /\ Len(frames') = Len(frames) - 1
        /\ \A i \in 1..Len(frames') : i + 1 \in 1..Len(frames) /\ frames'[i] = frames[i + 1]
    BY <1>t, <2>1, Popped
  <2>3. CalledSoFar'
    BY <1>t, <2>1, <2>2 DEF CalledSoFar
  <2> QED BY <1>t, <2>1, <2>2, <2>3
<1>6. CASE UNCHANGED Observers!vars
  BY <1>t, <1>6 DEF Observers!vars, CalledSoFar
<1> QED BY <1>1, <1>2, <1>3, <1>4, <1>5, <1>6 DEF Observers!Next

(* A loop that ends has nobody left behind the element it stands on.        *)
LEMMA EventsCalls ==
  ASSUME EventsInv, Observers!Step, frames' = Tail(frames)
  PROVE  connections \subseteq frames[1].called
<1> DEFINE F == EventsFrames(observer_id)
<1>1. frames \in Seq(F) /\ frames # << >> /\ connections \subseteq 0..(observer_id - 1)
      /\ observer_id \in Nat
  BY DEF EventsInv, Observers!TypeOK, Observers!Start, EventsFrames, Observers!Step
<1>2. /\ frames' # frames
      /\ \A f : frames' # [frames EXCEPT ![1] = f]
  <2> HIDE DEF F
  <2> QED BY <1>1, Lengths
<1>6. Observers!After(frames[1]) = {}
  BY <1>2 DEF Observers!Step
<1>7. frames[1] \in F /\ 1 \in 1..Len(frames)
  BY <1>1
<1> QED BY <1>1, <1>6, <1>7 DEF Observers!After, EventsFrames, EventsInv, CalledSoFar

(* A new key is greater than those that anybody was called under.           *)
LEMMA EventsInTurn ==
  ASSUME EventsInv, [Observers!Next]_(Observers!vars),
         NEW k \in connections' \ connections, NEW i \in 1..Len(frames)
  PROVE  k \notin frames[i].called
<1>1. frames[i].called \subseteq 0..(observer_id - 1)
  <2>1. frames \in Seq(EventsFrames(observer_id))
    BY DEF EventsInv, Observers!TypeOK, Observers!Start, EventsFrames
  <2>2. frames[i] \in EventsFrames(observer_id)
    BY <2>1
  <2> QED BY <2>2 DEF EventsFrames
<1>2. k = observer_id
  BY DEF Observers!Next, Observers!vars, Observers!Connect, Observers!NewKey,
         Observers!Disconnect, Observers!Notify, Observers!Step, Observers!Throw
<1> QED BY <1>1, <1>2 DEF EventsInv, Observers!TypeOK

-----------------------------------------------------------------------------
(* The message bus. *)

K == DOMAIN Type

(* The map keeps receivers by key, and those of a key as they came.         *)
BusMap == key \in Seq(K) /\ map \subseteq 1..Len(key)

(* Keys are numbers, which the map is sorted by.                            *)
LEMMA KeysAreNumbers ==
  ASSUME BusMap
  PROVE  Len(key) \in Nat /\ \A i \in 1..Len(key) : key[i] \in K /\ key[i] \in Nat
BY DEF BusMap, K

(* FirstOf finds the first of a set of receivers in the order of the map.   *)
LEMMA FirstIs ==
  ASSUME BusMap, NEW S, S \subseteq map
  PROVE  /\ S = {} => Bus!FirstOf(S) = 0
         /\ S # {} => /\ Bus!FirstOf(S) \in S
                      /\ \A j \in S : j = Bus!FirstOf(S) \/ Bus!Precedes(Bus!FirstOf(S), j)
<1>k. S \subseteq Nat /\ \A i \in S : key[i] \in Nat
  BY KeysAreNumbers DEF BusMap
<1>1. CASE S = {}
  BY <1>1 DEF Bus!FirstOf, Bus!End
<1>2. CASE S # {}
  <2>1. PICK least \in { key[i] : i \in S } : \A j \in { key[i] : i \in S } : least <= j
    <3>1. { key[i] : i \in S } \subseteq Nat /\ { key[i] : i \in S } # {}
      BY <1>k, <1>2
    <3> QED BY <3>1, LeastExists
  <2>2. PICK first \in { i \in S : key[i] = least } :
          \A j \in { i \in S : key[i] = least } : first <= j
    <3>1. /\ { i \in S : key[i] = least } \subseteq Nat
          /\ { i \in S : key[i] = least } # {}
      BY <1>k, <2>1
    <3> QED BY <3>1, LeastExists
  <2>3. \A j \in S \ {first} : Bus!Precedes(first, j)
    <3>1. ASSUME NEW j \in S \ {first} PROVE Bus!Precedes(first, j)
      <4>1. key[first] = least /\ first \in S /\ key[first] \in Nat /\ key[j] \in Nat
            /\ first \in Nat /\ j \in Nat
        BY <1>k, <2>2
      <4>2. least <= key[j]
        BY <2>1
      <4>3. key[j] = least => first < j
        BY <2>2, <4>1
      <4> QED BY <4>1, <4>2, <4>3 DEF Bus!Precedes
    <3> QED BY <3>1
  <2>4. Bus!FirstOf(S) = CHOOSE i \in S : \A j \in S \ {i} : Bus!Precedes(i, j)
    BY <1>2 DEF Bus!FirstOf
  <2> QED BY <1>2, <2>2, <2>3, <2>4
<1> QED BY <1>1, <1>2

(* What a loop inside the range of a key has done: the receivers of the key *)
(* up to its iterator were called, unless they came when it had gone on to  *)
(* another key's; and the end of the range is in front of all that was      *)
(* behind the key when the loop began.                                      *)
Going(f) ==
  /\ f.it \in f.called /\ key[f.it] >= f.req
  /\ f.end # 0 => key[f.end] > f.req
  /\ f.end \in map => Bus!Precedes(f.it, f.end)
  /\ \A i \in map : (key[i] = f.req /\ (i = f.it \/ Bus!Precedes(i, f.it))) =>
       i \in f.called \/ \E s \in f.called : key[s] # f.req /\ s < i
  /\ \A i \in map : (i <= f.born /\ key[i] > f.req) =>
       f.end # 0 /\ (i = f.end \/ Bus!Precedes(f.end, i))

Entering(f) ==
  /\ f.called = {} /\ f.born = Len(key)
  /\ f.it = Bus!LowerBound(f.req) /\ f.end = Bus!UpperBound(f.req)

BusFrames(m) == [req : K, it : 0..m, end : 0..m, inside : BOOLEAN,
                 called : SUBSET (1..m), born : 0..m]

(* Only the innermost call has not called anybody yet. *)
Loops ==
  /\ \A i \in 2..Len(frames) : frames[i].inside
  /\ \A i \in 1..Len(frames) : frames[i].inside => Going(frames[i])
  /\ frames # << >> /\ ~frames[1].inside => Entering(frames[1])

BusTypes ==
  /\ BusMap /\ Len(key) <= MaxReceivers
  /\ frames \in Seq(BusFrames(Len(key)))
  /\ sends \in 0..MaxSends /\ lost \in BOOLEAN

BusInv == BusTypes /\ Loops

(* The types the proof works with are the module's.                         *)
LEMMA BusTypesAre == BusTypes <=> Bus!TypeOK
BY DEF BusTypes, Bus!TypeOK, BusMap, BusFrames, K, Bus!Keys

(* The invariant holds at first.                                            *)
LEMMA BusInvInit == Bus!Init => BusInv
<1> SUFFICES ASSUME Bus!Init PROVE BusInv
  OBVIOUS
<1>1. Len(<< >>) = 0 /\ \A S : (<< >>) \in Seq(S)
  OBVIOUS
<1>2. map = {} /\ key = << >> /\ frames = << >> /\ sends = 0 /\ lost = FALSE
  BY DEF Bus!Init
<1>3. BusTypes
  <2>1. key \in Seq(K) /\ Len(key) = 0 /\ frames \in Seq(BusFrames(Len(key)))
    BY <1>1, <1>2
  <2>2. Len(key) <= MaxReceivers
    BY <2>1
  <2>3. sends \in 0..MaxSends /\ map \subseteq 1..Len(key)
    BY <1>2
  <2>4. lost \in BOOLEAN
    BY <1>2
  <2> QED BY <2>1, <2>2, <2>3, <2>4 DEF BusTypes, BusMap
<1>4. Loops
  BY <1>2 DEF Loops
<1> QED BY <1>3, <1>4 DEF BusInv

(* Where a loop goes that has not lost its iterators: never in front of     *)
(* where it was, and not past the end of its range.                         *)
OneStepOn(f, i) ==
  /\ f \in BusFrames(Len(key))
  /\ i = 0 => f.end = 0
  /\ i # 0 => i \in map /\ key[i] >= f.req
  /\ f.end # 0 => f.end \in map /\ key[f.end] > f.req
                  /\ (i = f.end \/ Bus!Precedes(i, f.end))
  /\ \A j \in map : (key[j] >= f.req /\ j # i /\ (i # 0 => ~Bus!Precedes(i, j)))
       => f.inside /\ (j = f.it \/ Bus!Precedes(j, f.it))
  /\ \A j \in map : (j <= f.born /\ key[j] > f.req) =>
       f.end # 0 /\ (j = f.end \/ Bus!Precedes(f.end, j))

(* A loop whose iterator is valid finds the next receiver of its range.     *)
LEMMA NextPosition ==
  ASSUME BusInv, frames # << >>, ~Bus!Dangling(frames[1])
  PROVE  OneStepOn(frames[1], Bus!Position(frames[1]))
<1> DEFINE f == frames[1]
           i == Bus!Position(f)
<1>g. SUFFICES OneStepOn(f, i)
  OBVIOUS
<1>t. /\ BusMap /\ frames \in Seq(BusFrames(Len(key))) /\ Len(key) \in Nat
      /\ \A j \in 1..Len(key) : key[j] \in Nat
  BY KeysAreNumbers DEF BusInv, BusTypes
<1>f. /\ 1 \in 1..Len(frames) /\ f \in BusFrames(Len(key)) /\ f.req \in Nat
      /\ f.it \in 0..Len(key) /\ f.end \in 0..Len(key) /\ f.born \in 0..Len(key)
      /\ f.inside \in BOOLEAN
  <2>1. 1 \in 1..Len(frames) /\ f \in BusFrames(Len(key))
    BY <1>t, Lengths
  <2> QED BY <2>1 DEF BusFrames, K
<1>m. \A j \in map : j \in Nat /\ j # 0 /\ j <= Len(key) /\ key[j] \in Nat
  BY <1>t DEF BusMap
<1>1. CASE f.inside
  <2> DEFINE S == { j \in map : Bus!Precedes(f.it, j) }
  <2>1. Going(f)
    BY <1>1, <1>f DEF BusInv, Loops
  <2>2. f.it \in map /\ (f.end # 0 => f.end \in map)
    <3>1. f.it \in f.called /\ f.called \subseteq 1..Len(key)
      BY <2>1, <1>f DEF Going, BusFrames
    <3>2. ~Bus!Erased(f.it) /\ ~Bus!Erased(f.end)
      BY <1>1 DEF Bus!Dangling
    <3> QED BY <3>1, <3>2, <1>t DEF Bus!Erased, Bus!End
  <2>3. i = Bus!FirstOf(S)
    BY <1>1 DEF Bus!Position, Bus!Increment
  <2>4. /\ S = {} => i = 0
        /\ S # {} => i \in S /\ \A j \in S : j = i \/ Bus!Precedes(i, j)
    <3> HIDE DEF i, f
    <3>1. S \subseteq map
      OBVIOUS
    <3> HIDE DEF S
    <3> QED BY <1>t, <2>3, <3>1, FirstIs
  <2>5. f.end # 0 => f.end \in S
    BY <2>1, <2>2 DEF Going
  <2>6. i # 0 => i \in map /\ key[i] >= f.req
    <3>1. i # 0 => i \in S
      BY <2>4
    <3>2. ASSUME i # 0 PROVE key[i] >= f.req
      <4>1. Bus!Precedes(f.it, i) /\ i \in map
        BY <3>1, <3>2
      <4> QED BY <4>1, <1>m, <1>f, <2>1, <2>2 DEF Going, Bus!Precedes
    <3> QED BY <3>1, <3>2
  <2>7. \A j \in map : (key[j] >= f.req /\ j # i /\ (i # 0 => ~Bus!Precedes(i, j)))
                  => j = f.it \/ Bus!Precedes(j, f.it)
    <3>1. ASSUME NEW j \in map, j # i, i # 0 => ~Bus!Precedes(i, j), j # f.it
          PROVE  Bus!Precedes(j, f.it)
      <4>1. j \notin S
        <5>1. CASE j \in S
          BY <2>4, <3>1, <5>1, <1>m
        <5> QED BY <5>1
      <4>2. ~Bus!Precedes(f.it, j)
        BY <4>1
      <4> QED BY <4>2, <3>1, <1>m, <2>2 DEF Bus!Precedes
    <3> QED BY <3>1
  <2>8. i = 0 => f.end = 0
    BY <2>4, <2>5, <1>m
  <2>9. f.end # 0 => f.end \in map /\ key[f.end] > f.req /\ (i = f.end \/ Bus!Precedes(i, f.end))
    BY <2>1, <2>2, <2>4, <2>5 DEF Going
  <2>10. \A j \in map : (j <= f.born /\ key[j] > f.req) =>
           f.end # 0 /\ (j = f.end \/ Bus!Precedes(f.end, j))
    BY <2>1 DEF Going
  <2> HIDE DEF i, f
  <2> QED BY <1>1, <1>f, <2>6, <2>7, <2>8, <2>9, <2>10 DEF OneStepOn
<1>2. CASE ~f.inside
  <2> DEFINE L == { j \in map : key[j] >= f.req }
             U == { j \in map : key[j] > f.req }
  <2>1. Entering(f)
    BY <1>2 DEF BusInv, Loops
  <2>2. i = Bus!FirstOf(L) /\ f.end = Bus!FirstOf(U)
    BY <1>2, <2>1 DEF Entering, Bus!Position, Bus!LowerBound, Bus!UpperBound
  <2>3. L \subseteq map /\ U \subseteq map
    OBVIOUS
  <2>4. /\ L = {} => i = 0
        /\ L # {} => i \in L /\ \A j \in L : j = i \/ Bus!Precedes(i, j)
    <3> HIDE DEF i, f, L, U
    <3> QED BY <1>t, <2>2, <2>3, FirstIs
  <2>5. /\ U = {} => f.end = 0
        /\ U # {} => f.end \in U /\ \A j \in U : j = f.end \/ Bus!Precedes(f.end, j)
    <3> HIDE DEF i, f, L, U
    <3> QED BY <1>t, <2>2, <2>3, FirstIs
  <2>6. U \subseteq L
    BY <1>m, <1>f
  <2> HIDE DEF i
  <2>7. /\ i = 0 => f.end = 0
        /\ i # 0 => i \in map /\ key[i] >= f.req
    BY <1>m, <2>4, <2>5, <2>6
  <2>8. f.end # 0 => f.end \in map /\ key[f.end] > f.req /\ (i = f.end \/ Bus!Precedes(i, f.end))
    BY <2>4, <2>5, <2>6
  <2>9. \A j \in map : (key[j] >= f.req /\ j # i /\ (i # 0 => ~Bus!Precedes(i, j))) => FALSE
    BY <2>4, <1>m
  <2>10. \A j \in map : key[j] > f.req => f.end # 0 /\ (j = f.end \/ Bus!Precedes(f.end, j))
    BY <2>5, <1>m
  <2> HIDE DEF f
  <2> QED BY <1>f, <2>7, <2>8, <2>9, <2>10 DEF OneStepOn
<1> QED BY <1>1, <1>2, <1>f

(* The frame of a loop that has gone on is a frame.                         *)
LEMMA FrameChanged ==
  ASSUME NEW A, NEW B, NEW C, NEW D,
         NEW f \in [req : A, it : B, end : B, inside : BOOLEAN, called : C, born : D],
         NEW i \in B, NEW c \in C
  PROVE  [f EXCEPT !.it = i, !.inside = TRUE, !.called = c]
           \in [req : A, it : B, end : B, inside : BOOLEAN, called : C, born : D]
OBVIOUS

(* Where the loop calls the next receiver, it has called those in front of  *)
(* it that bear its key.                                                    *)
LEMMA GoesOn ==
  ASSUME BusInv, NEW f \in BusFrames(Len(key)), NEW i, OneStepOn(f, i), i # f.end,
         f.inside => Going(f)
  PROVE  LET g == [f EXCEPT !.it = i, !.inside = TRUE, !.called = @ \cup {i}]
         IN  g \in BusFrames(Len(key)) /\ g.inside /\ Going(g)
<1> DEFINE g == [f EXCEPT !.it = i, !.inside = TRUE, !.called = @ \cup {i}]
<1>t. BusMap /\ Len(key) \in Nat
  BY KeysAreNumbers DEF BusInv, BusTypes
<1>m. \A j \in map : j \in 1..Len(key) /\ j \in Nat /\ j # 0 /\ key[j] \in Nat
  BY KeysAreNumbers, <1>t DEF BusMap
<1>f. f.req \in Nat /\ f.called \subseteq 1..Len(key)
  BY DEF BusFrames, K
<1>1. i # 0 /\ i \in map /\ key[i] >= f.req /\ i \in 1..Len(key)
  BY <1>m DEF OneStepOn
<1>2. /\ g.it = i /\ g.inside = TRUE /\ g.called = f.called \cup {i}
      /\ g.end = f.end /\ g.req = f.req /\ g.born = f.born
      /\ g \in BusFrames(Len(key))
  <2>1. f.called \cup {i} \in SUBSET (1..Len(key)) /\ i \in 0..Len(key)
    BY <1>f, <1>1
  <2>2. g \in BusFrames(Len(key))
    BY <2>1, FrameChanged DEF BusFrames
  <2> QED BY <2>2 DEF BusFrames
<1>3. f.end # 0 => f.end \in map /\ key[f.end] > f.req /\ Bus!Precedes(i, f.end)
  BY DEF OneStepOn
<1>4. ASSUME NEW j \in map, key[j] = f.req, j = i \/ Bus!Precedes(j, i)
      PROVE  j \in f.called \cup {i} \/ \E s \in f.called : key[s] # f.req /\ s < j
  <2>1. CASE j = i
    BY <2>1
  <2>2. CASE j # i
    <3>1. ~Bus!Precedes(i, j)
      BY <1>4, <2>2, <1>m, <1>1 DEF Bus!Precedes
    <3>2. f.inside /\ (j = f.it \/ Bus!Precedes(j, f.it))
      BY <1>4, <1>f, <2>2, <3>1, <1>m DEF OneStepOn
    <3> QED BY <3>2, <1>4 DEF Going
  <2> QED BY <2>1, <2>2
<1>5. \A j \in map : (j <= f.born /\ key[j] > f.req) => f.end # 0 /\ (j = f.end \/ Bus!Precedes(f.end, j))
  BY DEF OneStepOn
<1>6. f.end \in map => f.end # 0
  BY <1>m
<1> HIDE DEF g
<1>7. Going(g)
  BY <1>1, <1>2, <1>3, <1>4, <1>5, <1>6 DEF Going
<1> QED BY <1>2, <1>7 DEF g

(* A receiver that comes stands behind those of its key; one that goes      *)
(* leaves the others where they are.                                        *)
LEMMA MapChanges ==
  ASSUME BusInv, NEW k \in K, Bus!Attach(k) \/ Bus!Remove(k)
  PROVE  /\ BusMap' /\ Len(key)' \in Nat /\ Len(key)' <= MaxReceivers
         /\ Len(key) <= Len(key)'
         /\ \A i \in 1..Len(key) : key'[i] = key[i]
         /\ \A i \in map' : i \in map \/ (i > Len(key) /\ i \in Nat)
         /\ \A i \in map' : i \in 1..Len(key)' /\ key'[i] \in Nat
<1>t. BusMap /\ Len(key) \in Nat /\ Len(key) <= MaxReceivers /\ map \subseteq 1..Len(key)
  BY KeysAreNumbers DEF BusInv, BusTypes, BusMap
<1>1. CASE Bus!Attach(k)
  <2>1. key' = Append(key, k) /\ map' = map \cup {Len(key) + 1} /\ Len(key) < MaxReceivers
    BY <1>1 DEF Bus!Attach, Bus!Number
  <2>2. key' \in Seq(K) /\ Len(key') = Len(key) + 1
        /\ \A i \in 1..Len(key) : key'[i] = key[i]
    BY <1>t, <2>1 DEF BusMap
  <2>3. map' \subseteq 1..Len(key')
    <3>1. ASSUME NEW i \in map' PROVE i \in 1..Len(key')
      <4>1. i \in 1..Len(key) \/ i = Len(key) + 1
        BY <1>t, <2>1
      <4> QED BY <1>t, <2>2, <4>1
    <3> QED BY <3>1
  <2>4. \A i \in 1..Len(key') : key'[i] \in Nat
    BY <2>2 DEF K
  <2> QED BY <1>t, <2>1, <2>2, <2>3, <2>4 DEF BusMap
<1>2. CASE Bus!Remove(k)
  <2>1. key' = key /\ map' \subseteq map
    BY <1>2 DEF Bus!Remove
  <2>2. \A i \in 1..Len(key) : key[i] \in Nat
    BY <1>t, KeysAreNumbers
  <2> QED BY <1>t, <2>1, <2>2 DEF BusMap
<1> QED BY <1>1, <1>2

(* What other calls attach and remove leaves a loop where it is.            *)
LEMMA StillGoing ==
  ASSUME BusInv, NEW k \in K, Bus!Attach(k) \/ Bus!Remove(k),
         NEW f \in BusFrames(Len(key)), Going(f)
  PROVE  Going(f)'
<1>t. BusMap /\ Len(key) \in Nat /\ map \subseteq 1..Len(key)
  BY KeysAreNumbers DEF BusInv, BusTypes, BusMap
<1>k. \A i \in 1..Len(key) : key'[i] = key[i] /\ key[i] \in Nat
  BY MapChanges, <1>t, KeysAreNumbers
<1>m. \A i \in map' : i \in map \/ (i > Len(key) /\ i \in Nat)
  BY MapChanges
<1>n. \A i \in map' : key'[i] \in Nat
  BY MapChanges
<1>f. /\ f.req \in Nat /\ f.called \subseteq 1..Len(key) /\ f.born <= Len(key) /\ f.born \in Nat
      /\ f.end \in 0..Len(key) /\ f.it \in 1..Len(key)
  BY <1>t DEF BusFrames, K, Going
<1>1. key'[f.it] >= f.req /\ key'[f.it] = key[f.it]
  BY <1>k, <1>f DEF Going
<1>2. f.end # 0 => key'[f.end] > f.req /\ key'[f.end] = key[f.end]
  BY <1>k, <1>f, <1>t DEF Going
<1>3. f.end \in map' => Bus!Precedes(f.it, f.end)'
  <2>1. f.end \in map' => f.end \in map /\ f.end \in 1..Len(key)
    BY <1>m, <1>f, <1>t
  <2> QED BY <2>1, <1>k, <1>f DEF Going, Bus!Precedes
<1>4. ASSUME NEW i \in map', key'[i] = f.req, i = f.it \/ Bus!Precedes(i, f.it)'
      PROVE  i \in f.called \/ \E s \in f.called : key'[s] # f.req /\ s < i
  <2>1. CASE i \in map
    <3>1. key[i] = f.req /\ (i = f.it \/ Bus!Precedes(i, f.it))
      BY <2>1, <1>4, <1>k, <1>t, <1>f DEF Bus!Precedes
    <3>2. i \in f.called \/ \E s \in f.called : key[s] # f.req /\ s < i
      BY <2>1, <3>1 DEF Going
    <3> QED BY <3>2, <1>k, <1>f
  <2>2. CASE i > Len(key) /\ i \in Nat
    <3>1. i # f.it /\ ~(i < f.it)
      BY <2>2, <1>f, <1>t
    <3>2. key'[i] < key'[f.it]
      BY <3>1, <1>4 DEF Bus!Precedes
    <3>3. key'[f.it] # f.req /\ f.it < i
      BY <3>2, <1>4, <1>f, <1>n, <2>2, <1>t
    <3> QED BY <3>3 DEF Going
  <2> QED BY <2>1, <2>2, <1>m
<1>5. ASSUME NEW i \in map', i <= f.born, key'[i] > f.req
      PROVE  f.end # 0 /\ (i = f.end \/ Bus!Precedes(f.end, i)')
  <2>1. i \in map /\ i \in 1..Len(key)
    BY <1>m, <1>5, <1>f, <1>t
  <2>2. f.end # 0 /\ (i = f.end \/ Bus!Precedes(f.end, i))
    BY <2>1, <1>5, <1>k DEF Going
  <2> QED BY <2>1, <2>2, <1>k, <1>f, <1>t DEF Bus!Precedes
<1> QED BY <1>1, <1>2, <1>3, <1>4, <1>5 DEF Going

(* Every step keeps it.                                                     *)
LEMMA BusInvStep == BusInv /\ [Bus!Next]_(Bus!vars) => BusInv'
<1> SUFFICES ASSUME BusInv, [Bus!Next]_(Bus!vars) PROVE BusInv'
  OBVIOUS
<1> DEFINE F == BusFrames(Len(key))
<1>t. /\ BusMap /\ Len(key) \in Nat /\ Len(key) <= MaxReceivers /\ map \subseteq 1..Len(key)
      /\ frames \in Seq(F) /\ sends \in 0..MaxSends /\ lost \in BOOLEAN
  BY KeysAreNumbers DEF BusInv, BusTypes, BusMap
<1>l. Loops
  BY DEF BusInv
<1>1. ASSUME NEW k \in K, Bus!Attach(k) \/ Bus!Remove(k) PROVE BusInv'
  <2>1. /\ UNCHANGED << frames, sends, lost >>
        /\ frames # << >> => frames[1].inside
    BY <1>1 DEF Bus!Attach, Bus!Remove, Bus!MayAct
  <2>2. BusMap' /\ Len(key)' \in Nat /\ Len(key)' <= MaxReceivers /\ Len(key) <= Len(key)'
    BY <1>1, MapChanges
  <2>3. frames' \in Seq(BusFrames(Len(key)'))
    <3>1. F \subseteq BusFrames(Len(key)')
      BY <1>t, <2>2 DEF BusFrames
    <3> QED BY <1>t, <2>1, <3>1
  <2>4. BusTypes'
    BY <1>t, <2>1, <2>2, <2>3 DEF BusTypes
  <2>5. ASSUME NEW i \in 1..Len(frames) PROVE frames[i].inside /\ Going(frames[i])'
    <3>1. frames[i] \in F
      BY <1>t
    <3>2. frames[i].inside
      <4>1. frames # << >>
        BY <1>t
      <4> QED BY <1>l, <1>t, <2>1, <4>1 DEF Loops
    <3>3. Going(frames[i])
      BY <1>l, <3>2 DEF Loops
    <3>4. ASSUME NEW f \in F, Going(f) PROVE Going(f)'
      BY <1>1, <3>4, StillGoing
    <3>5. \A f \in F : Going(f) => (Going(f)')
      BY <3>4
    <3> QED BY <2>1, <3>1, <3>2, <3>3, <3>5 DEF Going, Bus!Precedes
  <2>6. Loops'
    BY <1>t, <2>1, <2>5 DEF Loops
  <2> QED BY <2>4, <2>6 DEF BusInv
<1>2. ASSUME NEW k \in K, Bus!SendReq(k) PROVE BusInv'
  <2> DEFINE f == [req |-> k, it |-> Bus!LowerBound(k), end |-> Bus!UpperBound(k),
                   inside |-> FALSE, called |-> {}, born |-> Len(key)]
  <2>1. /\ frames # << >> => frames[1].inside
        /\ sends < MaxSends /\ sends' = sends + 1
        /\ frames' = << f >> \o frames /\ UNCHANGED << map, key, lost >>
    BY <1>2 DEF Bus!SendReq, Bus!MayAct
  <2>2. Bus!LowerBound(k) \in 0..Len(key) /\ Bus!UpperBound(k) \in 0..Len(key)
    <3>1. ASSUME NEW S, S \subseteq map PROVE Bus!FirstOf(S) \in 0..Len(key)
      <4>1. Bus!FirstOf(S) = 0 \/ Bus!FirstOf(S) \in S
        BY <1>t, <3>1, FirstIs
      <4>2. 0 \in 0..Len(key) /\ 1..Len(key) \subseteq 0..Len(key)
        BY <1>t
      <4> QED BY <1>t, <3>1, <4>1, <4>2
    <3> QED BY <3>1 DEF Bus!LowerBound, Bus!UpperBound
  <2>3. f \in F
    BY <1>t, <2>2 DEF BusFrames
  <2>4. /\ f.called = {} /\ f.born = Len(key) /\ ~f.inside
        /\ f.it = Bus!LowerBound(f.req) /\ f.end = Bus!UpperBound(f.req)
    OBVIOUS
  <2> HIDE DEF f
  <2>5. /\ frames' \in Seq(F) /\ Len(frames') = Len(frames) + 1 /\ frames'[1] = f
        /\ \A i \in 2..Len(frames') : i - 1 \in 1..Len(frames) /\ frames'[i] = frames[i - 1]
    BY <1>t, <2>1, <2>3, Pushed
  <2>6. Entering(f)
    BY <2>4 DEF Entering
  <2>7. \A i \in 1..Len(frames) : frames[i].inside /\ Going(frames[i])
    BY <1>l, <1>t, <2>1 DEF Loops
  <2>8. \A i \in 2..Len(frames') : frames'[i].inside /\ Going(frames'[i])
    BY <2>5, <2>7
  <2>9. Loops'
    <3>2. ASSUME NEW i \in 1..Len(frames'), frames'[i].inside PROVE Going(frames[i])'
      <4>1. i # 1
        BY <2>4, <2>5, <3>2
      <4>2. i \in 2..Len(frames')
        BY <1>t, <2>5, <4>1
      <4>3. Going(frames'[i])
        BY <2>8, <4>2
      <4> QED BY <4>3, <2>1 DEF Going, Bus!Precedes
    <3>3. Entering(frames[1])'
      BY <2>1, <2>5, <2>6 DEF Entering, Bus!LowerBound, Bus!UpperBound, Bus!FirstOf, Bus!Precedes
    <3> QED BY <2>8, <3>2, <3>3 DEF Loops
  <2> QED BY <1>t, <2>1, <2>5, <2>9 DEF BusInv, BusTypes, BusMap
<1>p. ASSUME frames # << >>, Bus!Leave, UNCHANGED << map, key, sends, lost >> PROVE BusInv'
  <2>1. /\ frames' \in Seq(F) /\ Len(frames') = Len(frames) - 1
        /\ \A i \in 1..Len(frames') : i + 1 \in 1..Len(frames) /\ frames'[i] = frames[i + 1]
    BY <1>t, <1>p, Popped DEF Bus!Leave
  <2>2. ASSUME NEW i \in 1..Len(frames') PROVE frames'[i].inside /\ Going(frames'[i])
    <3>1. i + 1 \in 2..Len(frames) /\ i + 1 \in 1..Len(frames)
      BY <2>1
    <3> QED BY <1>l, <2>1, <3>1 DEF Loops
  <2>3. ASSUME NEW i \in 1..Len(frames') PROVE frames'[i].inside /\ Going(frames[i])'
    BY <1>p, <2>2 DEF Going, Bus!Precedes
  <2>4. Len(frames') \in Nat /\ (frames' # << >> => 1 \in 1..Len(frames'))
    BY <2>1
  <2>5. Loops'
    BY <2>3, <2>4 DEF Loops
  <2> QED BY <1>t, <1>p, <2>1, <2>5 DEF BusInv, BusTypes, BusMap
<1>3. CASE Bus!Lose
  <2>1. lost' = TRUE /\ UNCHANGED << map, key, frames, sends >>
    BY <1>3 DEF Bus!Lose
  <2>2. Loops'
    BY <1>l, <2>1 DEF Loops, Going, Entering, Bus!Precedes, Bus!LowerBound, Bus!UpperBound, Bus!FirstOf
  <2> QED BY <1>t, <2>1, <2>2 DEF BusInv, BusTypes, BusMap
<1>4. CASE Bus!Step
  <2> DEFINE f == frames[1]
             i == Bus!Position(f)
             g == [f EXCEPT !.it = i, !.inside = TRUE, !.called = @ \cup {i}]
  <2>1. /\ frames # << >> /\ ~Bus!Dangling(f) /\ UNCHANGED << map, key, sends, lost >>
        /\ Bus!Leave \/ (i # f.end /\ frames' = [frames EXCEPT ![1] = g])
    BY <1>4 DEF Bus!Step
  <2>2. CASE i # f.end /\ frames' = [frames EXCEPT ![1] = g]
    <3>1. f \in F /\ 1 \in 1..Len(frames) /\ (f.inside => Going(f)) /\ OneStepOn(f, i)
      BY <1>t, <1>l, <2>1, Lengths, NextPosition DEF Loops
    <3>2. g \in F /\ g.inside /\ Going(g)
      <4> HIDE DEF i, f
      <4> QED BY <2>2, <3>1, GoesOn
    <3>3. /\ frames' \in Seq(F) /\ Len(frames') = Len(frames) /\ frames'[1] = g
          /\ \A j \in 2..Len(frames) : frames'[j] = frames[j]
      <4> HIDE DEF g, i, f
      <4> QED BY <1>t, <2>1, <2>2, <3>2, Replaced
    <3> HIDE DEF g, f, i
    <3>4. ASSUME NEW j \in 1..Len(frames') PROVE frames'[j].inside /\ Going(frames'[j])
      <4>1. CASE j = 1
        BY <3>2, <3>3, <4>1
      <4>2. CASE j # 1
        <5>1. j \in 2..Len(frames) /\ j \in 1..Len(frames)
          BY <1>t, <3>3, <4>2
        <5> QED BY <1>l, <3>3, <5>1 DEF Loops
      <4> QED BY <4>1, <4>2
    <3>5. ASSUME NEW j \in 1..Len(frames') PROVE frames'[j].inside /\ Going(frames[j])'
      BY <2>1, <3>4 DEF Going, Bus!Precedes
    <3>6. Loops'
      <4>1. 1 \in 1..Len(frames') /\ \A j \in 2..Len(frames') : j \in 1..Len(frames')
        BY <1>t, <3>1, <3>3
      <4> QED BY <3>5, <4>1 DEF Loops
    <3> QED BY <1>t, <2>1, <3>3, <3>6 DEF BusInv, BusTypes, BusMap
  <2> QED BY <1>p, <2>1, <2>2
<1>5. CASE Bus!Throw
  BY <1>5, <1>p DEF Bus!Throw
<1>6. CASE UNCHANGED Bus!vars
  BY <1>6, <1>t, <1>l
     DEF Bus!vars, BusInv, BusTypes, BusMap, Loops, Going, Entering, Bus!Precedes,
         Bus!LowerBound, Bus!UpperBound, Bus!FirstOf
<1> QED BY <1>1, <1>2, <1>3, <1>4, <1>5, <1>6 DEF Bus!Next, Bus!Keys, K

(* A SendReq that reaches the end of its range has called, or passed by,    *)
(* everybody who is attached to its key.                                    *)
LEMMA BusCalls == BusInv => Bus!CallsAttached
<1> SUFFICES ASSUME BusInv, Bus!Step, Bus!Leave,
                    Bus!Position(frames[1]) = frames[1].end,
                    NEW i \in map, key[i] = frames[1].req, i \notin frames[1].called
             PROVE  \E s \in frames[1].called : key[s] # frames[1].req /\ s < i
  BY DEF Bus!CallsAttached, Bus!Of
<1> DEFINE f == frames[1]
           e == Bus!Position(f)
<1>1. frames # << >> /\ ~Bus!Dangling(f)
  BY DEF Bus!Step
<1>2. OneStepOn(f, e)
  BY <1>1, NextPosition
<1>3. f.inside => Going(f)
  <2>1. 1 \in 1..Len(frames)
    BY <1>1, Lengths DEF BusInv, BusTypes
  <2> QED BY <2>1 DEF BusInv, Loops
<1>m. \A j \in map : j \in 1..Len(key) /\ j # 0 /\ key[j] \in Nat
  BY KeysAreNumbers DEF BusInv, BusTypes, BusMap
<1>r. f.req \in Nat
  BY <1>2 DEF OneStepOn, BusFrames, K
<1> HIDE DEF f, e
<1>e. e = f.end /\ key[i] = f.req
  BY DEF e, f
<1>4. e # 0 => key[e] > f.req /\ e \in map
  BY <1>2, <1>e DEF OneStepOn
<1>5. i # e /\ (e # 0 => ~Bus!Precedes(e, i))
  BY <1>4, <1>m, <1>r, <1>e DEF Bus!Precedes
<1>6. f.inside /\ (i = f.it \/ Bus!Precedes(i, f.it))
  BY <1>2, <1>5, <1>m, <1>r, <1>e DEF OneStepOn
<1>7. i \in f.called \/ \E s \in f.called : key[s] # f.req /\ s < i
  BY <1>3, <1>6, <1>e DEF Going
<1> QED BY <1>7 DEF f

(* Whom a loop calls under another key was attached since, or is its end.   *)
LEMMA BusStrangers == BusInv => Bus!StrangersInside
<1> SUFFICES ASSUME BusInv, Bus!Step, frames # << >>
             PROVE  LET i == Bus!Position(frames[1]) IN
                      \/ i = frames[1].end
                      \/ key[i] = frames[1].req
                      \/ key[i] > frames[1].req /\ i > frames[1].born
  BY DEF Bus!StrangersInside
<1> DEFINE f == frames[1]
           i == Bus!Position(f)
<1>1. ~Bus!Dangling(f)
  BY DEF Bus!Step
<1>2. OneStepOn(f, i)
  BY <1>1, NextPosition
<1>m. \A j \in map : j \in 1..Len(key) /\ j \in Nat /\ j # 0 /\ key[j] \in Nat
  BY KeysAreNumbers DEF BusInv, BusTypes, BusMap
<1>r. f.req \in Nat /\ f.born \in 0..Len(key) /\ Len(key) \in Nat
  BY <1>2, KeysAreNumbers DEF OneStepOn, BusFrames, K, BusInv, BusTypes
<1> SUFFICES i = f.end \/ key[i] = f.req \/ (key[i] > f.req /\ i > f.born)
  OBVIOUS
<1> HIDE DEF f, i
<1>3. ASSUME i # f.end, key[i] # f.req, i <= f.born PROVE FALSE
  <2>1. i \in map /\ key[i] > f.req
    BY <1>2, <1>3, <1>m, <1>r DEF OneStepOn
  <2>2. f.end # 0 /\ Bus!Precedes(f.end, i)
    BY <1>2, <1>3, <2>1 DEF OneStepOn
  <2>3. f.end \in map /\ Bus!Precedes(i, f.end)
    BY <1>2, <1>3, <2>2 DEF OneStepOn
  <2> QED BY <2>1, <2>2, <2>3, <1>m DEF Bus!Precedes
<1>4. i # f.end => i \in map /\ key[i] >= f.req
  BY <1>2 DEF OneStepOn
<1> QED BY <1>3, <1>4, <1>m, <1>r

-----------------------------------------------------------------------------
(* Commands. *)

(* No variable is declared twice; and what the closure refers to, but for   *)
(* what was declared in a scope within the command's, was declared before   *)
(* the command and is still there.                                          *)
DeclaredOnce == \A i, j \in 1..Len(scope) : scope[i] = scope[j] => i = j

OutlivesCommand == \A x \in fun.refs \ fun.inner :
  \E i, j \in 1..Len(scope) : i < j /\ scope[i] = x /\ scope[j] = Cmd

CommandInv == Wrapped!TypeOK /\ DeclaredOnce /\ OutlivesCommand

(* The invariant holds at first.                                            *)
LEMMA CommandInvInit == Wrapped!Init => CommandInv
<1> SUFFICES ASSUME Wrapped!Init PROVE CommandInv
  OBVIOUS
<1>1. Len(<< >>) = 0 /\ \A S : (<< >>) \in Seq(S)
  OBVIOUS
<1>2. /\ scope = << >> /\ ended = {} /\ statement = FALSE /\ stray = FALSE
      /\ fun = [set |-> FALSE, refs |-> {}, temps |-> FALSE, inner |-> {}]
  BY DEF Wrapped!Init, Wrapped!Unset
<1>3. DeclaredOnce /\ OutlivesCommand /\ Wrapped!Alive = {}
  BY <1>1, <1>2 DEF DeclaredOnce, OutlivesCommand, Wrapped!Alive
<1>4. /\ fun \in [set : BOOLEAN, refs : SUBSET Variables, temps : BOOLEAN,
                  inner : SUBSET fun.refs]
      /\ fun = Wrapped!Unset
  BY <1>2 DEF Wrapped!Unset
<1>5. statement \in BOOLEAN /\ stray \in BOOLEAN
  BY <1>2
<1> QED BY <1>1, <1>2, <1>3, <1>4, <1>5 DEF CommandInv, Wrapped!TypeOK

(* Every step keeps it.                                                     *)
LEMMA CommandInvStep == CommandInv /\ [Wrapped!Next]_(Wrapped!vars) => CommandInv'
<1> SUFFICES ASSUME CommandInv, [Wrapped!Next]_(Wrapped!vars) PROVE CommandInv'
  OBVIOUS
<1> DEFINE Funs == [set : BOOLEAN, refs : SUBSET Variables, temps : BOOLEAN,
                    inner : SUBSET fun.refs]
           A == { scope[i] : i \in 1..Len(scope) }
<1>t. /\ scope \in Seq(Variables \cup {Cmd}) /\ Len(scope) \in Nat
      /\ ended \subseteq Variables \ A /\ fun \in Funs
      /\ Cmd \notin A => fun = Wrapped!Unset
      /\ statement \in BOOLEAN /\ stray \in BOOLEAN
      /\ DeclaredOnce /\ OutlivesCommand
  BY DEF CommandInv, Wrapped!TypeOK, Wrapped!Alive
<1>u. /\ Wrapped!Unset \in [set : BOOLEAN, refs : SUBSET Variables, temps : BOOLEAN,
                            inner : SUBSET {}]
      /\ Wrapped!Unset.refs = {}
  BY DEF Wrapped!Unset
<1>1. ASSUME NEW x \in Variables \cup {Cmd}, Wrapped!Declare(x) PROVE CommandInv'
  <2>1. x \notin A \cup ended /\ scope' = Append(scope, x)
        /\ UNCHANGED << fun, statement, ended, stray >>
    BY <1>1 DEF Wrapped!Declare, Wrapped!Alive
  <2>2. /\ scope' \in Seq(Variables \cup {Cmd}) /\ Len(scope') = Len(scope) + 1
        /\ scope'[Len(scope) + 1] = x
        /\ \A i \in 1..Len(scope) : scope'[i] = scope[i]
    BY <1>t, <2>1
  <2>3. \A i \in 1..Len(scope') : i \in 1..Len(scope) \/ i = Len(scope) + 1
    BY <1>t, <2>2
  <2>4. /\ 1..Len(scope) \subseteq 1..Len(scope')
        /\ Len(scope) + 1 \in 1..Len(scope') /\ Len(scope) + 1 \notin 1..Len(scope)
    BY <1>t, <2>2
  <2>5. Wrapped!Alive' = A \cup {x}
    BY <2>2, <2>3, <2>4 DEF Wrapped!Alive
  <2>6. DeclaredOnce'
    BY <1>t, <2>1, <2>2, <2>3 DEF DeclaredOnce
  <2>7. OutlivesCommand'
    BY <1>t, <2>1, <2>2, <2>4 DEF OutlivesCommand
  <2>8. ended' \subseteq Variables \ Wrapped!Alive'
    BY <1>t, <2>1, <2>5
  <2>9. Cmd \notin Wrapped!Alive' => fun' = Wrapped!Unset'
    BY <1>t, <2>1, <2>5 DEF Wrapped!Unset
  <2> QED BY <1>t, <2>1, <2>2, <2>6, <2>7, <2>8, <2>9 DEF CommandInv, Wrapped!TypeOK
<1>2. CASE Wrapped!EndScope
  <2> DEFINE x == scope[Len(scope)]
  <2>1. /\ scope # << >> /\ scope' = SubSeq(scope, 1, Len(scope) - 1)
        /\ ended' = IF x = Cmd THEN ended ELSE ended \cup {x}
        /\ fun' = IF x = Cmd THEN Wrapped!Unset ELSE fun
        /\ UNCHANGED << statement, stray >>
    BY <1>2 DEF Wrapped!EndScope, Wrapped!AfterEnd
  <2>2. Len(scope) \in 1..Len(scope) /\ x \in Variables \cup {Cmd}
    BY <1>t, <2>1
  <2>3. /\ scope' \in Seq(Variables \cup {Cmd}) /\ Len(scope') = Len(scope) - 1
        /\ \A i \in 1..Len(scope') : i \in 1..Len(scope) /\ scope'[i] = scope[i]
    BY <1>t, <2>1, Shortened
  <2>4. \A i \in 1..Len(scope) : i \in 1..Len(scope') \/ i = Len(scope)
    BY <1>t, <2>3
  <2>5. Wrapped!Alive' = A \ {x}
    <3>1. \A i \in 1..Len(scope') : scope[i] # x
      BY <1>t, <2>2, <2>3 DEF DeclaredOnce
    <3> QED BY <2>3, <2>4, <3>1 DEF Wrapped!Alive
  <2>6. DeclaredOnce'
    BY <1>t, <2>3 DEF DeclaredOnce
  <2>7. OutlivesCommand'
    <3>1. ASSUME x # Cmd, NEW y \in fun.refs \ fun.inner
          PROVE  \E i, j \in 1..Len(scope') : i < j /\ scope'[i] = y /\ scope'[j] = Cmd
      <4>1. PICK i, j \in 1..Len(scope) : i < j /\ scope[i] = y /\ scope[j] = Cmd
        BY <1>t DEF OutlivesCommand
      <4>2. j # Len(scope) /\ i # Len(scope)
        BY <1>t, <3>1, <4>1
      <4>3. i \in 1..Len(scope') /\ j \in 1..Len(scope')
        BY <2>4, <4>2
      <4> QED BY <2>3, <4>1, <4>3
    <3> QED BY <1>u, <2>1, <3>1 DEF OutlivesCommand
  <2>8. ended' \subseteq Variables \ Wrapped!Alive'
    BY <1>t, <2>1, <2>2, <2>5
  <2>9. /\ fun' \in [set : BOOLEAN, refs : SUBSET Variables, temps : BOOLEAN,
                     inner : SUBSET fun'.refs]
        /\ Cmd \notin Wrapped!Alive' => fun' = Wrapped!Unset'
    <3>1. CASE x = Cmd
      BY <1>u, <2>1, <3>1 DEF Wrapped!Unset
    <3>2. CASE x # Cmd
      BY <1>t, <2>1, <2>5, <3>2 DEF Wrapped!Unset
    <3> QED BY <3>1, <3>2
  <2> QED BY <1>t, <2>1, <2>3, <2>6, <2>7, <2>8, <2>9 DEF CommandInv, Wrapped!TypeOK
<1>3. ASSUME NEW refs \in SUBSET Variables, NEW temps \in BOOLEAN, Wrapped!Wrap(refs, temps)
      PROVE  CommandInv'
  <2> DEFINE In == refs \cap Wrapped!Inner
  <2>1. /\ Cmd \in A /\ refs \subseteq A \ {Cmd}
        /\ fun' = [set |-> TRUE, refs |-> refs, temps |-> temps, inner |-> In]
        /\ statement' = TRUE /\ UNCHANGED << scope, ended, stray >>
    BY <1>3 DEF Wrapped!Wrap, Wrapped!Alive
  <2>2. In \in SUBSET refs
    OBVIOUS
  <2>3. fun'.refs = refs /\ fun'.inner = In
    BY <2>1
  <2>4. fun' \in [set : BOOLEAN, refs : SUBSET Variables, temps : BOOLEAN, inner : SUBSET fun'.refs]
    BY <2>1, <2>2, <2>3
  <2>5. ASSUME NEW y \in refs \ In
        PROVE  \E i, j \in 1..Len(scope) : i < j /\ scope[i] = y /\ scope[j] = Cmd
    <3>1. PICK i \in 1..Len(scope) : scope[i] = y
      BY <2>1
    <3>2. PICK j \in 1..Len(scope) : scope[j] = Cmd
      BY <2>1
    <3>3. ~(j < i)
      BY <2>5, <3>1, <3>2 DEF Wrapped!Inner, Wrapped!Alive
    <3>4. i # j
      BY <2>1, <3>1, <3>2
    <3> QED BY <3>1, <3>2, <3>3, <3>4
  <2>6. OutlivesCommand'
    BY <2>1, <2>3, <2>5 DEF OutlivesCommand
  <2>7. DeclaredOnce' /\ Wrapped!Alive' = A
    BY <1>t, <2>1 DEF DeclaredOnce, Wrapped!Alive
  <2>8. statement' \in BOOLEAN
    BY <2>1
  <2> QED BY <1>t, <2>1, <2>4, <2>6, <2>7, <2>8 DEF CommandInv, Wrapped!TypeOK
<1>4. ASSUME UNCHANGED << scope, fun, ended >>, statement' \in BOOLEAN, stray' \in BOOLEAN
      PROVE  CommandInv'
  BY <1>4 DEF CommandInv, Wrapped!TypeOK, Wrapped!Alive, Wrapped!Unset, DeclaredOnce, OutlivesCommand
<1>5. CASE Wrapped!EndStatement
  BY <1>t, <1>4, <1>5 DEF Wrapped!EndStatement
<1>6. CASE Wrapped!Excecute
  <2>1. stray' = (stray \/ Wrapped!Dangling)
    BY <1>6 DEF Wrapped!Excecute
  <2>2. stray' \in BOOLEAN
    BY <2>1
  <2> QED BY <1>t, <1>4, <1>6, <2>2 DEF Wrapped!Excecute
<1>7. CASE UNCHANGED Wrapped!vars
  BY <1>t, <1>4, <1>7 DEF Wrapped!vars
<1> QED BY <1>1, <1>2, <1>3, <1>5, <1>6, <1>7 DEF Wrapped!Next

(* Only an Excecute goes astray, and only on what OutlivesCommand leaves.   *)
LEMMA CommandStrays ==
  ASSUME CommandInv, [Wrapped!Next]_(Wrapped!vars), stray' # stray
  PROVE  fun.temps \/ fun.inner # {}
<1>1. Wrapped!Excecute
  BY DEF Wrapped!Next, Wrapped!vars, Wrapped!Declare, Wrapped!EndScope, Wrapped!Wrap,
         Wrapped!EndStatement
<1>2. Wrapped!Dangling
  <2>1. stray' = (stray \/ Wrapped!Dangling)
    BY <1>1 DEF Wrapped!Excecute
  <2>2. stray \in BOOLEAN
    BY DEF CommandInv, Wrapped!TypeOK
  <2> QED BY <2>1, <2>2
<1>3. CASE fun.temps
  BY <1>3
<1>4. ASSUME ~(fun.refs \subseteq Wrapped!Alive) PROVE fun.inner # {}
  BY <1>4 DEF CommandInv, OutlivesCommand, Wrapped!Alive
<1> QED BY <1>2, <1>3, <1>4 DEF Wrapped!Dangling

-----------------------------------------------------------------------------
(* Scope guards. *)

Takes(g, f) == Scopes!Armed(g) /\ guard[g].fun = f

(* What becomes of a function: it is not given yet, was dismissed, was run, *)
(* or is due in one guard.                                                  *)
Waits(f) == runs[f] = 0 /\ \A g \in Guards : ~Takes(g, f)

Fate(f) ==
  /\ \A g, h \in Guards : Takes(g, f) /\ Takes(h, f) => g = h
  /\ f \notin given \/ f \in dismissed => Waits(f)
  /\ f \in given \ dismissed =>
       \/ runs[f] = 0 /\ \E g \in Guards : Takes(g, f)
       \/ runs[f] = 1 /\ \A g \in Guards : ~Takes(g, f)

GuardsInv == Scopes!TypeOK /\ \A f \in Functions : Fate(f)

AGuard == [here : BOOLEAN, fun : Functions \cup {Empty}, dismiss : BOOLEAN]

(* The invariant holds at first.                                            *)
LEMMA GuardsInvInit == Scopes!Init => GuardsInv
<1> SUFFICES ASSUME Scopes!Init PROVE GuardsInv
  OBVIOUS
<1>1. /\ guard = [g \in Guards |-> Scopes!Gone] /\ given = {} /\ dismissed = {}
      /\ runs = [f \in Functions |-> 0]
  BY DEF Scopes!Init
<1>2. Scopes!Gone \in AGuard /\ Scopes!Gone.here = FALSE
  BY DEF Scopes!Gone, AGuard
<1>3. Scopes!TypeOK
  BY <1>1, <1>2 DEF Scopes!TypeOK, AGuard
<1>4. ASSUME NEW f \in Functions PROVE Fate(f)
  BY <1>1, <1>2 DEF Fate, Waits, Takes, Scopes!Armed
<1> QED BY <1>3, <1>4 DEF GuardsInv

(* Every step keeps it.                                                     *)
LEMMA GuardsInvStep == GuardsInv /\ [Scopes!Next]_(Scopes!vars) => GuardsInv'
<1> SUFFICES ASSUME GuardsInv, [Scopes!Next]_(Scopes!vars) PROVE GuardsInv'
  OBVIOUS
<1>t. /\ guard \in [Guards -> AGuard]
      /\ \A g \in Guards : ~guard[g].here => guard[g] = Scopes!Gone
      /\ given \subseteq Functions /\ dismissed \subseteq given
      /\ runs \in [Functions -> Nat]
      /\ \A f \in Functions : Fate(f)
      /\ Scopes!Gone \in AGuard /\ Scopes!Gone.here = FALSE
      /\ Empty \notin Functions
  BY DEF GuardsInv, Scopes!TypeOK, AGuard, Scopes!Gone
<1> DEFINE Goal ==
      /\ guard' \in [Guards -> AGuard]
      /\ \A g \in Guards : ~guard'[g].here => guard'[g] = Scopes!Gone
      /\ given' \subseteq Functions /\ dismissed' \subseteq given'
      /\ runs' \in [Functions -> Nat]
      /\ \A f \in Functions : Fate(f)'
<1>g. SUFFICES Goal
  BY <1>g DEF GuardsInv, Scopes!TypeOK, AGuard, Scopes!Gone
<1>1. ASSUME NEW g \in Guards, NEW f \in Functions, Scopes!Construct(g, f) PROVE Goal
  <2> DEFINE r == [here |-> TRUE, fun |-> f, dismiss |-> FALSE]
  <2>1. /\ ~guard[g].here /\ f \notin given /\ guard' = [guard EXCEPT ![g] = r]
        /\ given' = given \cup {f} /\ UNCHANGED << dismissed, runs >>
    BY <1>1 DEF Scopes!Construct
  <2>2. r \in AGuard /\ r.here = TRUE /\ r.fun = f /\ r.dismiss = FALSE
    BY DEF AGuard
  <2> HIDE DEF r
  <2>3. /\ guard' \in [Guards -> AGuard] /\ guard'[g] = r
        /\ \A h \in Guards : h # g => guard'[h] = guard[h]
    BY <1>t, <2>1, <2>2
  <2>4. \A h \in Guards, c \in Functions :
          Takes(h, c)' <=> (h = g /\ c = f) \/ Takes(h, c)
    BY <1>t, <2>1, <2>2, <2>3 DEF Takes, Scopes!Armed
  <2>5. ASSUME NEW c \in Functions PROVE Fate(c)'
    BY <1>t, <2>1, <2>4 DEF Fate, Waits
  <2> QED BY <1>t, <2>1, <2>2, <2>3, <2>5
<1>2. ASSUME NEW g \in Guards, NEW h \in Guards, Scopes!Move(g, h) PROVE Goal
  <2>1. PICK rest \in {Empty, guard[h].fun} :
          guard' = [guard EXCEPT
            ![g] = [here |-> TRUE, fun |-> guard[h].fun, dismiss |-> guard[h].dismiss],
            ![h] = [Scopes!MovedFrom(h) EXCEPT !.fun = rest]]
    BY <1>2 DEF Scopes!Move, Scopes!Dismissal
  <2>2. ~guard[g].here /\ guard[h].here /\ g # h /\ UNCHANGED << given, dismissed, runs >>
    BY <1>2 DEF Scopes!Move
  <2> DEFINE r == [here |-> TRUE, fun |-> guard[h].fun, dismiss |-> guard[h].dismiss]
             s == [Scopes!MovedFrom(h) EXCEPT !.fun = rest]
  <2>3. guard[h] \in AGuard /\ guard[h].fun \in Functions \cup {Empty} /\ guard[h].dismiss \in BOOLEAN
    BY <1>t DEF AGuard
  <2>4. Scopes!MovedFrom(h) \in AGuard /\ Scopes!MovedFrom(h).here /\ Scopes!MovedFrom(h).dismiss
    BY <2>3 DEF AGuard, Scopes!MovedFrom
  <2>5. /\ r \in AGuard /\ r.here = TRUE /\ r.fun = guard[h].fun /\ r.dismiss = guard[h].dismiss
        /\ s \in AGuard /\ s.here = TRUE /\ s.dismiss = TRUE
    BY <2>1, <2>3, <2>4 DEF AGuard
  <2>6. guard' = [guard EXCEPT ![g] = r, ![h] = s]
    BY <2>1
  <2> HIDE DEF r, s
  <2>7. /\ guard' \in [Guards -> AGuard] /\ guard'[g] = r /\ guard'[h] = s
        /\ \A i \in Guards : i # g /\ i # h => guard'[i] = guard[i]
    BY <1>t, <2>2, <2>5, <2>6
  <2>8. \A i \in Guards, c \in Functions :
          Takes(i, c)' <=> (i = g /\ Takes(h, c)) \/ (i # h /\ Takes(i, c))
    BY <1>t, <2>2, <2>5, <2>7 DEF Takes, Scopes!Armed
  <2>9. \A c \in Functions : ~Takes(g, c)
    BY <2>2 DEF Takes, Scopes!Armed
  <2>10. ASSUME NEW c \in Functions PROVE Fate(c)'
    BY <1>t, <2>2, <2>8, <2>9 DEF Fate, Waits
  <2> QED BY <1>t, <2>2, <2>5, <2>7, <2>10
<1>3. ASSUME NEW g \in Guards, Scopes!Dismiss(g) PROVE Goal
  <2>1. /\ guard[g].here /\ guard' = [guard EXCEPT ![g].dismiss = TRUE]
        /\ dismissed' = IF Scopes!Armed(g) THEN dismissed \cup {guard[g].fun} ELSE dismissed
        /\ UNCHANGED << given, runs >>
    BY <1>3 DEF Scopes!Dismiss
  <2>2. /\ guard' \in [Guards -> AGuard] /\ guard'[g].here = TRUE /\ guard'[g].dismiss = TRUE
        /\ \A h \in Guards : h # g => guard'[h] = guard[h]
    BY <1>t, <2>1 DEF AGuard
  <2>3. \A h \in Guards, c \in Functions : Takes(h, c)' <=> h # g /\ Takes(h, c)
    BY <1>t, <2>2 DEF Takes, Scopes!Armed
  <2>4. \A c \in Functions : Takes(g, c) => c \in given \ dismissed
    BY <1>t DEF Fate, Waits
  <2>5. \A c \in Functions : c \in dismissed' <=> c \in dismissed \/ Takes(g, c)
    BY <1>t, <2>1 DEF Takes
  <2>6. dismissed' \subseteq given
    <3>1. guard[g].fun \in Functions \cup {Empty}
      BY <1>t DEF AGuard
    <3> QED BY <1>t, <2>1, <2>4, <3>1 DEF Takes, Scopes!Armed
  <2>7. ASSUME NEW c \in Functions PROVE Fate(c)'
    BY <1>t, <2>1, <2>3, <2>4, <2>5 DEF Fate, Waits
  <2> QED BY <1>t, <2>1, <2>2, <2>6, <2>7
<1>4. ASSUME NEW g \in Guards, Scopes!Destruct(g) PROVE Goal
  <2>1. /\ guard[g].here /\ guard' = [guard EXCEPT ![g] = Scopes!Gone]
        /\ runs' = IF Scopes!Armed(g) THEN [runs EXCEPT ![guard[g].fun] = @ + 1] ELSE runs
        /\ UNCHANGED << given, dismissed >>
    BY <1>4 DEF Scopes!Destruct, Scopes!After
  <2>2. /\ guard' \in [Guards -> AGuard] /\ guard'[g] = Scopes!Gone
        /\ \A h \in Guards : h # g => guard'[h] = guard[h]
    BY <1>t, <2>1
  <2>3. \A h \in Guards, c \in Functions : Takes(h, c)' <=> h # g /\ Takes(h, c)
    BY <1>t, <2>2 DEF Takes, Scopes!Armed
  <2>4. \A c \in Functions : Takes(g, c) => c \in given \ dismissed
    BY <1>t DEF Fate, Waits
  <2>5. /\ runs' \in [Functions -> Nat]
        /\ \A c \in Functions : runs'[c] = IF Takes(g, c) THEN runs[c] + 1 ELSE runs[c]
    <3>1. guard[g].fun \in Functions \cup {Empty}
      BY <1>t DEF AGuard
    <3>2. CASE Scopes!Armed(g)
      <4>1. guard[g].fun \in Functions
        BY <3>1, <3>2 DEF Scopes!Armed
      <4> QED BY <1>t, <2>1, <3>2, <4>1 DEF Takes
    <3>3. CASE ~Scopes!Armed(g)
      BY <1>t, <2>1, <3>3 DEF Takes
    <3> QED BY <3>2, <3>3
  <2>6. ASSUME NEW c \in Functions PROVE Fate(c)'
    <3>1. CASE Takes(g, c)
      <4>1. runs[c] = 0 /\ \A h \in Guards : Takes(h, c) => h = g
        BY <1>t, <2>4, <3>1 DEF Fate
      <4>2. runs'[c] = 1 /\ \A h \in Guards : ~Takes(h, c)'
        BY <2>3, <2>5, <3>1, <4>1
      <4> QED BY <2>1, <2>4, <3>1, <4>2 DEF Fate
    <3>2. CASE ~Takes(g, c)
      <4>1. \A h \in Guards : Takes(h, c)' <=> Takes(h, c)
        BY <2>3, <3>2
      <4> QED BY <1>t, <2>1, <2>5, <3>2, <4>1 DEF Fate, Waits
    <3> QED BY <3>1, <3>2
  <2> QED BY <1>t, <2>1, <2>2, <2>5, <2>6
<1>5. CASE UNCHANGED Scopes!vars
  BY <1>5, <1>t DEF Scopes!vars, Fate, Waits, Takes, Scopes!Armed
<1> QED BY <1>1, <1>2, <1>3, <1>4, <1>5 DEF Scopes!Next

(* What becomes of each function implies that it is run once.               *)
LEMMA GuardsRunOnce == GuardsInv => Scopes!RunsOnce
<1> SUFFICES ASSUME GuardsInv
             PROVE  \A f \in given :
                      runs[f] + Cardinality(Scopes!Holders(f))
                        + (IF f \in dismissed THEN 1 ELSE 0) = 1
  BY DEF Scopes!RunsOnce, Scopes!Cardinality, Cardinality, Scopes!IsFiniteSet, IsFiniteSet
<1> TAKE f \in given
<1>1. f \in Functions /\ Fate(f) /\ runs[f] \in Nat
  BY DEF GuardsInv, Scopes!TypeOK
<1>2. Scopes!Holders(f) = { g \in Guards : Takes(g, f) }
  BY DEF Scopes!Holders, Takes
<1>3. CASE \E g \in Guards : Takes(g, f)
  <2>1. PICK g \in Guards : Takes(g, f)
    BY <1>3
  <2>2. Scopes!Holders(f) = {g}
    BY <1>1, <1>2, <2>1 DEF Fate
  <2>3. Cardinality(Scopes!Holders(f)) = 1
    BY <2>2, FS_Singleton
  <2>4. runs[f] = 0 /\ f \notin dismissed
    BY <1>1, <2>1 DEF Fate, Waits
  <2> QED BY <2>3, <2>4
<1>4. CASE \A g \in Guards : ~Takes(g, f)
  <2>1. Cardinality(Scopes!Holders(f)) = 0
    <3>1. Scopes!Holders(f) = {}
      BY <1>2, <1>4
    <3> QED BY <3>1, FS_EmptySet
  <2>2. runs[f] = IF f \in dismissed THEN 0 ELSE 1
    BY <1>1, <1>4 DEF Fate, Waits
  <2> QED BY <2>1, <2>2
<1> QED BY <1>3, <1>4

-----------------------------------------------------------------------------
(* Aspects. *)

(* The calls that an Invoke is to make, and their turns: the Befores from   *)
(* the first aspect to the last, the function, and the Afters back.         *)
Due == { p \in Aspects!Places : p[2] <= n /\ (p[1] = "fun" \/ Aspects!Has(p[1], p[2])) }

Turn(p) == IF p[1] = "Before" THEN p[2] ELSE IF p[1] = "fun" THEN n + 1 ELSE 2 * n + 2 - p[2]

InOrder == \A j, k \in 1..Len(log) : j < k => Turn(log[j][1]) < Turn(log[k][1])

Taken == \E k \in 1..Len(log) : log[k][1] \in byvalue

(* What was called is what was due before the next call.                    *)
Progress ==
  /\ InOrder /\ Aspects!Calls \subseteq Due
  /\ at \in Due => /\ Aspects!Calls = { p \in Due : Turn(p) < Turn(at) }
                   /\ Len(log) < Turn(at)
  /\ at[1] = "returned" => Aspects!Calls = Due
  /\ whole <=> ~rvalue \/ ~Taken
  /\ Aspects!FirstTakerLeavesNothing

AspectTypes ==
  /\ n \in 1..MaxAspects /\ has \subseteq {"Before", "After"}
  /\ byvalue \subseteq Aspects!Places /\ rvalue \in BOOLEAN /\ whole \in BOOLEAN
  /\ at \in Due \cup { << "returned", 0 >>, << "threw", 0 >> }
  /\ log \in Seq(Aspects!Places \X BOOLEAN) /\ Len(log) <= 2 * n + 1

AspectInv == AspectTypes /\ Progress

(* The types the proof works with imply the module's.                       *)
LEMMA AspectTypesAre == AspectTypes => Aspects!TypeOK
BY DEF AspectTypes, Aspects!TypeOK, Aspects!Aspects, Due

(* What is due, as pairs. *)
LEMMA DuePairs ==
  ASSUME n \in 1..MaxAspects, NEW m, NEW i
  PROVE  << m, i >> \in Due <=>
           \/ m = "fun" /\ i = 0
           \/ m \in {"Before", "After"} /\ i \in 1..n /\ (i < n \/ m \in has)
<1>1. << m, i >>[1] = m /\ << m, i >>[2] = i
  OBVIOUS
<1>2. << m, i >> \in Aspects!Places <=>
        (m \in {"Before", "After"} /\ i \in 1..MaxAspects) \/ (m = "fun" /\ i = 0)
  BY DEF Aspects!Places, Aspects!Aspects, Aspects!Fun
<1>3. i \in 1..MaxAspects /\ i <= n <=> i \in 1..n
  OBVIOUS
<1>4. 0 <= n
  OBVIOUS
<1> QED BY <1>1, <1>2, <1>3, <1>4 DEF Due, Aspects!Has

(* A due call is a pair of a kind and an aspect.                            *)
LEMMA DueArePairs ==
  ASSUME n \in 1..MaxAspects, NEW p \in Due
  PROVE  p = << p[1], p[2] >>
BY DEF Due, Aspects!Places, Aspects!Fun

(* Turns are numbers from 1 on.                                             *)
LEMMA Turns ==
  ASSUME n \in 1..MaxAspects, NEW p \in Due
  PROVE  Turn(p) \in 1..(2 * n + 1)
<1>1. \/ p[1] = "fun" /\ p[2] = 0
      \/ p[1] \in {"Before", "After"} /\ p[2] \in 1..n
  BY DuePairs, DueArePairs
<1> QED BY <1>1 DEF Turn

(* The call that comes next is the next in turn.                            *)
NextIs(q, r) ==
  \/ /\ r \in Due /\ Turn(q) < Turn(r)
     /\ \A p \in Due : Turn(p) < Turn(r) => p = q \/ Turn(p) < Turn(q)
  \/ /\ r = << "returned", 0 >>
     /\ \A p \in Due : p = q \/ Turn(p) < Turn(q)

(* What Invoke goes on with is the due call whose turn is next.             *)
LEMMA BeforeNext ==
  ASSUME n \in 1..MaxAspects, NEW i, << "Before", i >> \in Due
  PROVE  NextIs(<< "Before", i >>, Aspects!Inner(i))
<1>1. i \in 1..n /\ n \in Nat /\ (i < n \/ "Before" \in has)
  BY DuePairs
<1>2. ASSUME NEW p \in Due
      PROVE  \/ p = << "fun", 0 >> /\ Turn(p) = n + 1
             \/ \E k \in 1..n : p = << "Before", k >> /\ Turn(p) = k /\ (k < n \/ "Before" \in has)
             \/ \E k \in 1..n : p = << "After", k >> /\ Turn(p) = 2 * n + 2 - k
  BY DuePairs, DueArePairs DEF Turn
<1>3. CASE i < n /\ (i + 1 < n \/ "Before" \in has)
  <2>1. Aspects!Inner(i) = << "Before", i + 1 >>
    BY <1>1, <1>3 DEF Aspects!Inner, Aspects!Enter
  <2>2. << "Before", i + 1 >> \in Due
    BY <1>1, <1>3, DuePairs
  <2>3. Turn(<< "Before", i >>) = i /\ Turn(<< "Before", i + 1 >>) = i + 1
    BY DEF Turn
  <2> QED BY <1>1, <1>2, <2>1, <2>2, <2>3 DEF NextIs
<1>4. CASE ~(i < n /\ (i + 1 < n \/ "Before" \in has))
  <2>1. Aspects!Inner(i) = << "fun", 0 >>
    BY <1>1, <1>4 DEF Aspects!Inner, Aspects!Enter, Aspects!Fun
  <2>2. << "fun", 0 >> \in Due
    BY DuePairs
  <2>3. Turn(<< "Before", i >>) = i /\ Turn(<< "fun", 0 >>) = n + 1
    BY DEF Turn
  <2>4. ASSUME NEW p \in Due, Turn(p) < n + 1 PROVE p = << "Before", i >> \/ Turn(p) < i
    BY <1>1, <1>2, <1>4, <2>4
  <2> QED BY <1>1, <2>1, <2>2, <2>3, <2>4 DEF NextIs
<1> QED BY <1>3, <1>4

(* So it does on the way back.                                              *)
LEMMA OuterNext ==
  ASSUME n \in 1..MaxAspects, NEW i \in 0..n, NEW q \in Due,
         \/ q = << "After", i + 1 >>
         \/ q = << "fun", 0 >> /\ i = n /\ "After" \in has
         \/ q = << "fun", 0 >> /\ i = n - 1 /\ "After" \notin has
  PROVE  NextIs(q, Aspects!Outer(i))
<1>1. n \in Nat /\ i \in Nat /\ (i < n \/ "After" \in has)
  BY DuePairs
<1>2. ASSUME NEW p \in Due
      PROVE  \/ p = << "fun", 0 >> /\ Turn(p) = n + 1
             \/ \E k \in 1..n : p = << "Before", k >> /\ Turn(p) = k
             \/ \E k \in 1..n : p = << "After", k >> /\ Turn(p) = 2 * n + 2 - k
                                /\ (k < n \/ "After" \in has)
  BY DuePairs, DueArePairs DEF Turn
<1>3. Turn(<< "fun", 0 >>) = n + 1 /\ \A k : Turn(<< "After", k >>) = 2 * n + 2 - k
  BY DEF Turn
<1>4. CASE i = 0
  <2>1. Aspects!Outer(i) = << "returned", 0 >>
    BY <1>4 DEF Aspects!Outer
  <2>2. ASSUME NEW p \in Due PROVE p = q \/ Turn(p) < Turn(q)
    BY <1>1, <1>2, <1>3, <1>4
  <2> QED BY <2>1, <2>2 DEF NextIs
<1>5. CASE i # 0
  <2>1. Aspects!Outer(i) = << "After", i >> /\ << "After", i >> \in Due
    BY <1>1, <1>5, DuePairs DEF Aspects!Outer
  <2>2. ASSUME NEW p \in Due, Turn(p) < 2 * n + 2 - i PROVE p = q \/ Turn(p) < Turn(q)
    BY <1>1, <1>2, <1>3, <1>5, <2>2
  <2>3. Turn(q) < 2 * n + 2 - i
    BY <1>1, <1>3
  <2> QED BY <1>3, <2>1, <2>2, <2>3 DEF NextIs
<1> QED BY <1>4, <1>5

(* So it does after the function.                                           *)
LEMMA FunNext ==
  ASSUME n \in 1..MaxAspects
  PROVE  NextIs(<< "fun", 0 >>, Aspects!AfterFun)
<1>1. << "fun", 0 >> \in Due /\ Turn(<< "fun", 0 >>) = n + 1 /\ n \in Nat /\ n > 0
  BY DuePairs DEF Turn
<1>2. CASE "After" \in has
  <2>1. Aspects!AfterFun = Aspects!Outer(n)
    BY <1>1, <1>2 DEF Aspects!AfterFun, Aspects!Outer
  <2>2. NextIs(<< "fun", 0 >>, Aspects!Outer(n))
    BY <1>1, <1>2, OuterNext
  <2> QED BY <2>1, <2>2
<1>3. CASE "After" \notin has
  <2>1. Aspects!AfterFun = Aspects!Outer(n - 1)
    BY <1>3 DEF Aspects!AfterFun
  <2>2. NextIs(<< "fun", 0 >>, Aspects!Outer(n - 1))
    BY <1>1, <1>3, OuterNext
  <2> QED BY <2>1, <2>2
<1> QED BY <1>2, <1>3

(* So it does after an After.                                               *)
LEMMA AfterNext ==
  ASSUME n \in 1..MaxAspects, NEW i, << "After", i >> \in Due
  PROVE  NextIs(<< "After", i >>, Aspects!Outer(i - 1))
<1>1. i \in 1..n /\ n \in Nat /\ i - 1 \in 0..n /\ i - 1 < n /\ (i - 1) + 1 = i
  BY DuePairs
<1>2. Turn(<< "After", i >>) = 2 * n + 1 - (i - 1)
  BY <1>1 DEF Turn
<1> QED BY <1>1, <1>2, OuterNext

(* The invariant holds at first.                                            *)
LEMMA AspectInvInit == Aspects!Init => AspectInv
<1> SUFFICES ASSUME Aspects!Init PROVE AspectInv
  OBVIOUS
<1>1. /\ n \in 1..MaxAspects /\ has \subseteq {"Before", "After"} /\ rvalue \in BOOLEAN
      /\ byvalue \subseteq Aspects!Places /\ at = Aspects!Enter(1)
      /\ whole = TRUE /\ log = << >> /\ has # {}
  BY DEF Aspects!Init, Aspects!Aspects
<1>2. Len(<< >>) = 0 /\ \A S : (<< >>) \in Seq(S)
  OBVIOUS
<1>3. at \in Due /\ \A p \in Due : ~(Turn(p) < Turn(at))
  <2>1. ASSUME NEW p \in Due
        PROVE  \/ Turn(p) = n + 1
               \/ \E k \in 1..n : Turn(p) = k /\ p = << "Before", k >> /\ (k < n \/ "Before" \in has)
               \/ \E k \in 1..n : Turn(p) = 2 * n + 2 - k
    BY <1>1, DuePairs, DueArePairs DEF Turn
  <2>2. CASE n = 1 /\ "Before" \notin has
    <3>1. at = << "fun", 0 >>
      BY <1>1, <2>2 DEF Aspects!Enter, Aspects!Fun
    <3>2. at \in Due /\ Turn(at) = n + 1
      BY <1>1, <3>1, DuePairs DEF Turn
    <3> QED BY <2>1, <2>2, <3>2
  <2>3. CASE ~(n = 1 /\ "Before" \notin has)
    <3>1. at = << "Before", 1 >>
      BY <1>1, <2>3 DEF Aspects!Enter
    <3>2. at \in Due /\ Turn(at) = 1
      BY <1>1, <2>3, <3>1, DuePairs DEF Turn
    <3>3. \A p \in Due : Turn(p) \in 1..(2 * n + 1)
      BY <1>1, Turns
    <3> QED BY <1>1, <3>2, <3>3
  <2> QED BY <2>2, <2>3
<1>4. at[1] # "returned" /\ Turn(at) > 0
  <2>1. at = << at[1], at[2] >>
    BY <1>1, <1>3, DueArePairs
  <2> QED BY <1>1, <1>3, <2>1, DuePairs, Turns
<1>5. Aspects!Calls = {} /\ ~Taken
  BY <1>1, <1>2 DEF Aspects!Calls, Taken
<1>6. AspectTypes
  <2>1. log \in Seq(Aspects!Places \X BOOLEAN) /\ Len(log) <= 2 * n + 1 /\ whole \in BOOLEAN
    BY <1>1, <1>2
  <2> QED BY <1>1, <1>3, <2>1 DEF AspectTypes
<1>7. Progress
  <2>1. InOrder /\ Aspects!FirstTakerLeavesNothing
    BY <1>1, <1>2 DEF InOrder, Aspects!FirstTakerLeavesNothing
  <2>2. at \in Due => /\ Aspects!Calls = { p \in Due : Turn(p) < Turn(at) }
                      /\ Len(log) < Turn(at)
    BY <1>1, <1>2, <1>3, <1>4, <1>5
  <2> QED BY <1>1, <1>4, <1>5, <2>1, <2>2 DEF Progress
<1> QED BY <1>6, <1>7 DEF AspectInv

(* A call is made in its turn, and finds the argument as Taken says.        *)
LEMMA AspectCall ==
  ASSUME AspectInv, at \in Due, NEW next, NextIs(at, next), Aspects!Call(next)
  PROVE  AspectInv'
<1>1. /\ log' = Append(log, << at, whole >>)
      /\ whole' = (whole /\ ~(rvalue /\ at \in byvalue))
      /\ at' = next \/ at' = << "threw", 0 >>
      /\ UNCHANGED << n, has, rvalue, byvalue >>
  BY DEF Aspects!Call, Aspects!Forwarded
<1>t. /\ n \in 1..MaxAspects /\ n \in Nat /\ has \subseteq {"Before", "After"}
      /\ byvalue \subseteq Aspects!Places /\ rvalue \in BOOLEAN /\ whole \in BOOLEAN
      /\ log \in Seq(Aspects!Places \X BOOLEAN) /\ Len(log) \in Nat
      /\ at \in Aspects!Places
  BY DEF AspectInv, AspectTypes, Due
<1>p. /\ InOrder /\ Aspects!Calls = { p \in Due : Turn(p) < Turn(at) }
      /\ Len(log) < Turn(at) /\ (whole <=> ~rvalue \/ ~Taken)
      /\ Aspects!FirstTakerLeavesNothing
  BY DEF AspectInv, Progress
<1>2. /\ log' \in Seq(Aspects!Places \X BOOLEAN) /\ Len(log') = Len(log) + 1
      /\ log'[Len(log) + 1] = << at, whole >>
      /\ \A k \in 1..Len(log) : log'[k] = log[k]
  <2>1. << at, whole >> \in Aspects!Places \X BOOLEAN
    BY <1>t
  <2> QED BY <1>1, <1>t, <2>1
<1>3. /\ \A k \in 1..Len(log') : k \in 1..Len(log) \/ k = Len(log) + 1
      /\ 1..Len(log) \subseteq 1..Len(log') /\ Len(log) + 1 \in 1..Len(log')
  BY <1>t, <1>2
<1>4. log'[Len(log) + 1][1] = at /\ log'[Len(log) + 1][2] = whole
  BY <1>2
<1>5. Due' = Due /\ (\A p : Turn(p)' = Turn(p)) /\ \A p \in Due : Turn(p) \in 1..(2 * n + 1)
  BY <1>1, <1>t, Turns DEF Due, Aspects!Has, Aspects!Places, Aspects!Aspects, Aspects!Fun, Turn
<1>6. Aspects!Calls' = Aspects!Calls \cup {at}
  <2>1. ASSUME NEW k \in 1..Len(log') PROVE log'[k][1] \in Aspects!Calls \cup {at}
    BY <1>2, <1>3, <1>4 DEF Aspects!Calls
  <2>2. at \in Aspects!Calls'
    BY <1>3, <1>4 DEF Aspects!Calls
  <2>3. ASSUME NEW k \in 1..Len(log) PROVE log[k][1] \in Aspects!Calls'
    <3>1. k \in 1..Len(log') /\ log'[k][1] = log[k][1]
      BY <1>2, <1>3
    <3> QED BY <3>1 DEF Aspects!Calls
  <2> QED BY <2>1, <2>2, <2>3 DEF Aspects!Calls
<1>7. Aspects!Calls \cup {at} \subseteq Due
  BY <1>p
<1>8. InOrder'
  <2>1. ASSUME NEW j \in 1..Len(log'), NEW k \in 1..Len(log'), j < k
        PROVE  Turn(log'[j][1]) < Turn(log'[k][1])
    <3>1. j \in 1..Len(log)
      BY <1>3, <1>t, <1>2, <2>1
    <3>2. log'[j][1] = log[j][1] /\ log[j][1] \in Aspects!Calls
      BY <1>2, <3>1 DEF Aspects!Calls
    <3>3. CASE k \in 1..Len(log)
      BY <1>p, <1>2, <2>1, <3>1, <3>3 DEF InOrder
    <3>4. CASE k = Len(log) + 1
      BY <1>p, <1>4, <3>2, <3>4
    <3> QED BY <1>3, <3>3, <3>4
  <2>2. ASSUME NEW j \in 1..Len(log'), NEW k \in 1..Len(log'), j < k
        PROVE  (Turn(log[j][1]))' < (Turn(log[k][1]))'
    BY <1>1, <2>1, <2>2 DEF Turn
  <2> QED BY <2>2 DEF InOrder
<1>9. Taken' <=> Taken \/ at \in byvalue
  BY <1>1, <1>2, <1>3, <1>4 DEF Taken
<1>10. whole' <=> ~rvalue' \/ ~Taken'
  BY <1>1, <1>p, <1>9, <1>t
<1>11. Aspects!FirstTakerLeavesNothing'
  <2>1. ASSUME NEW j \in 1..Len(log')
        PROVE  log'[j][2] <=> ~rvalue \/ \A k \in 1..(j - 1) : log'[k][1] \notin byvalue
    <3>1. CASE j \in 1..Len(log)
      <4>1. \A k \in 1..(j - 1) : k \in 1..Len(log) /\ log'[k] = log[k]
        BY <1>2, <1>t, <3>1
      <4>2. log'[j] = log[j]
        BY <1>2, <3>1
      <4> QED BY <1>p, <3>1, <4>1, <4>2 DEF Aspects!FirstTakerLeavesNothing
    <3>2. CASE j = Len(log) + 1
      <4>1. 1..(j - 1) = 1..Len(log)
        BY <1>t, <3>2
      <4>2. Taken <=> ~ \A k \in 1..(j - 1) : log'[k][1] \notin byvalue
        BY <1>2, <4>1 DEF Taken
      <4>3. log'[j][2] = whole
        BY <1>4, <3>2
      <4> QED BY <1>p, <4>2, <4>3
    <3> QED BY <1>3, <3>1, <3>2
  <2> QED BY <1>1, <2>1 DEF Aspects!FirstTakerLeavesNothing
<1>12. CASE at' = next /\ next \in Due
  <2>1. /\ Turn(at) < Turn(next)
        /\ \A p \in Due : Turn(p) < Turn(next) => p = at \/ Turn(p) < Turn(at)
    <3>1. next # << "returned", 0 >>
      BY <1>t, <1>12, DuePairs
    <3> QED BY <3>1 DEF NextIs
  <2>2. Aspects!Calls' = { p \in Due : Turn(p) < Turn(next) }
    <3>1. ASSUME NEW p \in Due, Turn(p) < Turn(at) PROVE Turn(p) < Turn(next)
      BY <1>5, <1>12, <2>1, <3>1, <1>t
    <3> QED BY <1>p, <1>6, <2>1, <3>1
  <2>3. Len(log') < Turn(next) /\ Len(log') <= 2 * n + 1
    BY <1>2, <1>5, <1>p, <1>12, <1>t, <2>1
  <2>4. at'[1] # "returned"
    <3>1. next = << next[1], next[2] >>
      BY <1>t, <1>12, DueArePairs
    <3> QED BY <1>t, <1>12, <3>1, DuePairs
  <2>5. AspectTypes'
    BY <1>1, <1>t, <1>2, <1>5, <1>10, <1>12, <2>3
       DEF AspectTypes, Aspects!Places, Aspects!Aspects, Aspects!Fun
  <2>6. (at \in Due => /\ Aspects!Calls = { p \in Due : Turn(p) < Turn(at) }
                       /\ Len(log) < Turn(at))'
    BY <1>5, <1>12, <1>1, <2>2, <2>3 DEF Turn
  <2> QED BY <1>5, <1>6, <1>7, <1>8, <1>10, <1>11, <2>4, <2>5, <2>6 DEF AspectInv, Progress
<1>13. CASE at' = << "threw", 0 >> \/ (at' = next /\ next = << "returned", 0 >>)
  <2>1. at' \notin Due /\ at' \in { << "returned", 0 >>, << "threw", 0 >> }
    BY <1>13, <1>t, DuePairs
  <2>2. Len(log') <= 2 * n + 1
    BY <1>2, <1>5, <1>p, <1>t
  <2>3. at'[1] = "returned" => Aspects!Calls' = Due
    <3>1. ASSUME at'[1] = "returned" PROVE \A p \in Due : p = at \/ Turn(p) < Turn(at)
      <4>1. next = << "returned", 0 >>
        BY <1>13, <3>1
      <4>2. next \notin Due
        BY <1>t, <4>1, DuePairs
      <4> QED BY <4>2 DEF NextIs
    <3> QED BY <1>6, <1>7, <1>p, <3>1
  <2>4. AspectTypes'
    BY <1>1, <1>t, <1>2, <1>5, <1>10, <2>1, <2>2
       DEF AspectTypes, Aspects!Places, Aspects!Aspects, Aspects!Fun
  <2> QED BY <1>5, <1>6, <1>7, <1>8, <1>10, <1>11, <2>1, <2>3, <2>4 DEF AspectInv, Progress
<1> QED BY <1>1, <1>12, <1>13 DEF NextIs

(* Every step keeps it.                                                     *)
LEMMA AspectInvStep == AspectInv /\ [Aspects!Next]_(Aspects!vars) => AspectInv'
<1> SUFFICES ASSUME AspectInv, [Aspects!Next]_(Aspects!vars) PROVE AspectInv'
  OBVIOUS
<1>t. n \in 1..MaxAspects /\ at \in Due \cup { << "returned", 0 >>, << "threw", 0 >> }
  BY DEF AspectInv, AspectTypes
<1>1. at[1] \in {"Before", "fun", "After"} => at \in Due /\ at = << at[1], at[2] >>
  BY <1>t, DueArePairs
<1>2. CASE Aspects!Before
  <2>1. at = << "Before", at[2] >> /\ at \in Due
    BY <1>1, <1>2 DEF Aspects!Before
  <2>2. NextIs(at, Aspects!Inner(at[2]))
    BY <1>t, <2>1, BeforeNext
  <2> QED BY <1>2, <2>1, <2>2, AspectCall DEF Aspects!Before
<1>3. CASE Aspects!CallFun
  <2>1. at = << "fun", at[2] >> /\ at \in Due
    BY <1>1, <1>3 DEF Aspects!CallFun, Aspects!Fun
  <2>2. at = << "fun", 0 >>
    BY <1>t, <2>1, DuePairs
  <2>3. NextIs(at, Aspects!AfterFun)
    BY <1>t, <2>2, FunNext
  <2> QED BY <1>3, <2>1, <2>3, AspectCall DEF Aspects!CallFun
<1>4. CASE Aspects!After
  <2>1. at = << "After", at[2] >> /\ at \in Due
    BY <1>1, <1>4 DEF Aspects!After
  <2>2. NextIs(at, Aspects!Outer(at[2] - 1))
    BY <1>t, <2>1, AfterNext
  <2> QED BY <1>4, <2>1, <2>2, AspectCall DEF Aspects!After
<1>5. CASE UNCHANGED Aspects!vars
  BY <1>5 DEF AspectInv, AspectTypes, Progress, Aspects!vars, InOrder, Aspects!Calls, Due,
     Aspects!Places, Aspects!Aspects, Aspects!Fun, Aspects!Has, Turn, Taken,
     Aspects!FirstTakerLeavesNothing
<1> QED BY <1>2, <1>3, <1>4, <1>5 DEF Aspects!Next

(* An Invoke that returns has made every call that was due, in turn.        *)
LEMMA AspectBracketed == AspectInv => Aspects!Bracketed
<1> SUFFICES ASSUME AspectInv, at[1] = "returned" PROVE Aspects!Bracketed
  BY DEF Aspects!Bracketed
<1>1. Aspects!Calls = Due /\ InOrder /\ n \in 1..MaxAspects
  BY DEF AspectInv, AspectTypes, Progress
<1>2. Due = { p \in Aspects!Places : p[2] <= n /\ (p[1] = "fun" \/ Aspects!Has(p[1], p[2])) }
  BY DEF Due
<1>3. ASSUME NEW j \in 1..Len(log), NEW k \in 1..Len(log), j < k
      PROVE  /\ log[j][1] # log[k][1]
             /\ log[j][1][1] = "Before" /\ log[k][1][1] = "Before" => log[j][1][2] < log[k][1][2]
             /\ log[j][1][1] = "After" => log[k][1][1] = "After" /\ log[j][1][2] > log[k][1][2]
  <2> DEFINE p == log[j][1]
             q == log[k][1]
  <2>1. p \in Due /\ q \in Due
    BY <1>1 DEF Aspects!Calls
  <2>2. Turn(p) < Turn(q) /\ Turn(p) \in Nat /\ Turn(q) \in Nat
    BY <1>1, <1>3, <2>1, Turns DEF InOrder
  <2> HIDE DEF p, q
  <2>3. /\ (p[1] = "fun" /\ p[2] = 0) \/ (p[1] \in {"Before", "After"} /\ p[2] \in 1..n)
        /\ (q[1] = "fun" /\ q[2] = 0) \/ (q[1] \in {"Before", "After"} /\ q[2] \in 1..n)
    BY <1>1, <2>1, DuePairs, DueArePairs
  <2>4. p # q
    BY <2>2
  <2>5. p[1] = "Before" /\ q[1] = "Before" => p[2] < q[2]
    BY <2>2 DEF Turn
  <2>6. p[1] = "After" => q[1] = "After" /\ p[2] > q[2]
    <3> SUFFICES ASSUME p[1] = "After" PROVE q[1] = "After" /\ p[2] > q[2]
      OBVIOUS
    <3>1. n \in Nat /\ p[2] \in 1..n /\ Turn(p) = 2 * n + 2 - p[2]
      BY <1>1, <2>3 DEF Turn
    <3>2. Turn(p) > n + 1
      BY <3>1
    <3>3. q[1] # "fun"
      <4> SUFFICES ASSUME q[1] = "fun" PROVE FALSE
        OBVIOUS
      <4>1. Turn(q) = n + 1
        BY DEF Turn
      <4> QED BY <2>2, <3>1, <3>2, <4>1
    <3>4. q[1] # "Before"
      <4> SUFFICES ASSUME q[1] = "Before" PROVE FALSE
        OBVIOUS
      <4>1. Turn(q) = q[2] /\ q[2] \in 1..n
        BY <2>3 DEF Turn
      <4> QED BY <2>2, <3>1, <3>2, <4>1
    <3>5. q[1] = "After" /\ q[2] \in 1..n /\ Turn(q) = 2 * n + 2 - q[2]
      BY <2>3, <3>3, <3>4 DEF Turn
    <3> HIDE DEF Turn
    <3> QED BY <2>2, <3>1, <3>5
  <2> QED BY <2>4, <2>5, <2>6 DEF p, q
<1> QED BY <1>1, <1>2, <1>3 DEF Aspects!Bracketed, Aspects!Fun

-----------------------------------------------------------------------------
(* All of them. *)

Inv ==
  /\ part = "Events" => EventsInv
  /\ part = "MessageBus" => BusInv
  /\ part = "Aspect" => AspectInv
  /\ CommandInv /\ GuardsInv

(* The invariant holds at first.                                            *)
LEMMA InvInit == Init => Inv
BY EventsInvInit, BusInvInit, CommandInvInit, AspectInvInit, GuardsInvInit DEF Init, Inv

(* A step of one component is a step of it, or stutters, to each of them.   *)
LEMMA StepOfParts ==
  ASSUME [Next]_vars
  PROVE  /\ part' = part
         /\ part = "Events" => [Observers!Next]_(Observers!vars)
         /\ part = "MessageBus" => [Bus!Next]_(Bus!vars)
         /\ part = "Aspect" => [Aspects!Next]_(Aspects!vars)
         /\ [Wrapped!Next]_(Wrapped!vars) /\ [Scopes!Next]_(Scopes!vars)
         /\ part # "Events" => UNCHANGED connections
<1> USE DEF forEvents, forBus, forLoops, forCommand, forAspect, forGuards,
            Observers!vars, Bus!vars, Aspects!vars, Wrapped!vars, Scopes!vars
<1>1. CASE InEvents(Observers!Next)
  BY <1>1 DEF InEvents
<1>2. CASE InBus(Bus!Next)
  BY <1>2 DEF InBus
<1>3. CASE part = "Command" /\ Wrapped!Next /\ UNCHANGED << part, forLoops, forAspect, forGuards >>
  BY <1>3
<1>4. CASE part = "Aspect" /\ Aspects!Next /\ UNCHANGED << part, forLoops, forCommand, forGuards >>
  BY <1>4
<1>5. CASE part = "ScopeGuard" /\ Scopes!Next /\ UNCHANGED << part, forLoops, forCommand, forAspect >>
  BY <1>5
<1>6. CASE UNCHANGED vars
  BY <1>6 DEF vars
<1> QED BY <1>1, <1>2, <1>3, <1>4, <1>5, <1>6 DEF Next

(* Every step keeps it.                                                     *)
LEMMA InvStep == Inv /\ [Next]_vars => Inv'
<1> SUFFICES ASSUME Inv, [Next]_vars PROVE Inv'
  OBVIOUS
<1>1. part = "Events" => EventsInv'
  BY StepOfParts, EventsInvStep DEF Inv
<1>2. part = "MessageBus" => BusInv'
  BY StepOfParts, BusInvStep DEF Inv
<1>3. part = "Aspect" => AspectInv'
  BY StepOfParts, AspectInvStep DEF Inv
<1>4. CommandInv' /\ GuardsInv'
  BY StepOfParts, CommandInvStep, GuardsInvStep DEF Inv
<1>5. part' = part
  BY StepOfParts
<1> QED BY <1>1, <1>2, <1>3, <1>4, <1>5 DEF Inv

(* So it holds in every behaviour.                                          *)
LEMMA InvHolds == Spec => []Inv
BY InvInit, InvStep, PTL DEF Spec

(* The type invariants of the components, and what they say of their state: *)
(* an observer's key is below the next one, a command's closure ends with   *)
(* it, a guard that is gone holds nothing.                                  *)
THEOREM CallbacksTypeCorrect == Spec => []TypeOK
<1>1. Inv => TypeOK
  BY BusTypesAre, AspectTypesAre
     DEF Inv, TypeOK, EventsInv, BusInv, CommandInv, AspectInv, GuardsInv
<1> QED BY <1>1, InvHolds, PTL

(* A function given to a guard is run once, dismissed, or due in one guard; *)
(* an Invoke that returns has made every call once, in the brackets'        *)
(* order; and an rvalue is whole until the first that takes it by value.    *)
THEOREM CallsOnceHolds == Spec => []CallsOnce
<1>1. Inv => CallsOnce
  <2>1. AspectInv => Aspects!Bracketed /\ Aspects!FirstTakerLeavesNothing
    BY AspectBracketed DEF AspectInv, Progress
  <2> QED BY <2>1, GuardsRunOnce DEF Inv, CallsOnce
<1> QED BY <1>1, InvHolds, PTL

(* Notify and SendReq, when they return, have called everybody who is       *)
(* connected or attached by then, whatever those did whom they called; keys *)
(* are not reused; and strangers come inside the range of a key only while  *)
(* the call goes on.                                                        *)
THEOREM CallsEverybodyHolds == Spec => CallsEverybody
<1>1. ASSUME Inv, [Next]_vars
      PROVE  /\ part = "Events" => Observers!CallsConnected
             /\ part = "MessageBus" => Bus!CallsAttached
             /\ part = "MessageBus" => Bus!StrangersInside
             /\ \A k \in connections' \ connections :
                  \A i \in 1..Len(frames) : k \notin frames[i].called
  <2>1. part = "Events" => Observers!CallsConnected
    BY <1>1, EventsCalls DEF Inv, Observers!CallsConnected
  <2>2. part = "MessageBus" => Bus!CallsAttached /\ Bus!StrangersInside
    BY <1>1, BusCalls, BusStrangers DEF Inv
  <2>3. ASSUME NEW k \in connections' \ connections, NEW i \in 1..Len(frames)
        PROVE  k \notin frames[i].called
    <3>1. part = "Events"
      BY <1>1, <2>3, StepOfParts
    <3>2. EventsInv /\ [Observers!Next]_(Observers!vars)
      BY <1>1, <3>1, StepOfParts DEF Inv
    <3> QED BY <2>3, <3>2, EventsInTurn
  <2> QED BY <2>1, <2>2, <2>3
<1>2. Inv /\ [Next]_vars =>
        /\ [part = "Events" => Observers!CallsConnected]_vars
        /\ [\A k \in connections' \ connections :
              \A i \in 1..Len(frames) : k \notin frames[i].called]_(Observers!vars)
        /\ [part = "MessageBus" => Bus!CallsAttached]_vars
        /\ [part = "MessageBus" => Bus!StrangersInside]_vars
  BY <1>1
<1> QED BY <1>2, InvHolds, PTL DEF Spec, CallsEverybody, Observers!CalledInTurn

(* An Excecute goes astray only if the command was wrapped with a temporary *)
(* or with what was declared after the command.                             *)
THEOREM StraysOnlyInsideHolds == Spec => StraysOnlyInside
<1>1. Inv /\ [Next]_vars =>
        [stray' # stray => fun.temps \/ fun.inner # {}]_(Wrapped!vars)
  BY StepOfParts, CommandStrays DEF Inv
<1> QED BY <1>1, InvHolds, PTL DEF Spec, StraysOnlyInside, Wrapped!StraysOnlyInside

=============================================================================
