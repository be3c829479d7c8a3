----------------------------- MODULE DataProofs -----------------------------
(* Facts about data that the proofs of several components need: least       *)
(* elements, quotients and remainders, recursion, linked lists.             *)
EXTENDS Integers, Sequences, FiniteSets, FiniteSetTheorems, SequenceTheorems,
        WellFoundedInduction, TLAPS

(* A set of natural numbers that is not empty has a least element.  It is   *)
(* what the proofs need to know of a CHOOSE of a first element, and stands  *)
(* for an induction over the natural numbers where one is needed.  The      *)
(* intervals 0..m of the members m are finite sets, on which inclusion is   *)
(* well-founded: the least interval ends at the least member.               *)
LEMMA LeastExists ==
  ASSUME NEW S, S \subseteq Nat, S # {}
  PROVE  \E m \in S : \A j \in S : m <= j
<1> DEFINE T == { 0..m : m \in S }
<1>1. T \subseteq FiniteSubsetsOf(Nat) /\ T # {}
  <2>1. ASSUME NEW m \in S PROVE 0..m \in FiniteSubsetsOf(Nat)
    <3>1. IsFiniteSet(0..m)
      BY FS_Interval
    <3>2. 0..m \in SUBSET Nat
      OBVIOUS
    <3> QED BY <3>1, <3>2 DEF FiniteSubsetsOf
  <2>2. T # {}
    OBVIOUS
  <2> QED BY <2>1, <2>2
<1>2. PICK X \in T : \A Y \in T : ~(<< Y, X >> \in StrictSubsetOrdering(Nat))
  <2> HIDE DEF T
  <2> QED BY <1>1, WFMin, FS_StrictSubsetOrderingWellFounded
<1>3. PICK m \in S : X = 0..m
  BY <1>2
<1>4. ASSUME NEW j \in S, j < m PROVE FALSE
  <2>1. 0..j \in T /\ 0..j \in SUBSET Nat /\ 0..m \in SUBSET Nat
    OBVIOUS
  <2>2. 0..j \subseteq 0..m /\ m \in 0..m /\ m \notin 0..j
    BY <1>4
  <2> QED BY <1>2, <1>3, <2>1, <2>2 DEF StrictSubsetOrdering
<1> QED BY <1>4

-----------------------------------------------------------------------------
(* Quotients and remainders. *)

(* What \div and % are to one another.                                      *)
LEMMA DivMod ==
  ASSUME NEW N \in Nat \ {0}, NEW a \in Int
  PROVE  a \div N \in Int /\ a % N \in 0..(N - 1) /\ a = N * (a \div N) + (a % N)
OBVIOUS

(* A number is divided in one way.                                          *)
LEMMA DivModUnique ==
  ASSUME NEW N \in Nat \ {0}, NEW q \in Int, NEW p \in Int,
         NEW r \in 0..(N - 1), NEW s \in 0..(N - 1), N * q + r = N * p + s
  PROVE  q = p /\ r = s
<1>1. N * (q - p) = s - r
  OBVIOUS
<1>2. ASSUME q > p PROVE FALSE
  <2>1. q - p >= 1
    BY <1>2
  <2>2. N * (q - p) >= N
    BY <2>1
  <2> QED BY <1>1, <2>2
<1>3. ASSUME q < p PROVE FALSE
  <2>1. p - q >= 1
    BY <1>3
  <2>2. N * (p - q) >= N
    BY <2>1
  <2>3. N * (p - q) = r - s
    BY <1>1
  <2> QED BY <2>2, <2>3
<1>4. q = p
  BY <1>2, <1>3
<1> QED BY <1>1, <1>4

(* Adding before and after taking the remainder is the same.                *)
LEMMA ModAdd ==
  ASSUME NEW N \in Nat \ {0}, NEW a \in Int, NEW k \in Int
  PROVE  ((a % N) + k) % N = (a + k) % N
<1> DEFINE b == a % N
           q == a \div N
           c == b + k
           p == c \div N
           r == c % N
           d == a + k
<1>1. q \in Int /\ b \in 0..(N - 1) /\ a = N * q + b
  BY DivMod
<1>2. c \in Int /\ d \in Int
  BY <1>1
<1>3. p \in Int /\ r \in 0..(N - 1) /\ c = N * p + r
  BY <1>2, DivMod
<1>4. d \div N \in Int /\ d % N \in 0..(N - 1) /\ d = N * (d \div N) + (d % N)
  BY <1>2, DivMod
<1>5. d = N * q + (N * p + r)
  <2>1. d = N * q + c
    <3> HIDE DEF b, q
    <3> QED BY <1>1
  <2> HIDE DEF c, d, p, r, q
  <2> QED BY <1>3, <2>1
<1> HIDE DEF b, q, c, p, r, d
<1>6. N * (q + p) + r = N * (d \div N) + (d % N) /\ q + p \in Int
  BY <1>1, <1>3, <1>4, <1>5
<1>7. r = d % N
  BY <1>3, <1>4, <1>6, DivModUnique
<1> QED BY <1>7 DEF r, c, b, d

(* Numbers that are less than N apart have different remainders.            *)
LEMMA ModApart ==
  ASSUME NEW N \in Nat \ {0}, NEW a \in Int, NEW b \in Int, a < b, b - a < N
  PROVE  a % N # b % N
<1>1. /\ a \div N \in Int /\ a % N \in 0..(N - 1) /\ a = N * (a \div N) + (a % N)
      /\ b \div N \in Int /\ b % N \in 0..(N - 1) /\ b = N * (b \div N) + (b % N)
  BY DivMod
<1> SUFFICES ASSUME a % N = b % N PROVE FALSE
  OBVIOUS
<1> DEFINE q == a \div N
           p == b \div N
<1>2. b - a = N * p - N * q
  BY <1>1
<1>3. q \in Int /\ p \in Int
  BY <1>1
<1> HIDE DEF q, p
<1>4. b - a = N * (p - q)
  BY <1>2, <1>3
<1>5. CASE p - q <= 0
  <2>1. N * (p - q) <= 0
    BY <1>3, <1>5
  <2> QED BY <1>4, <2>1
<1>6. CASE p - q >= 1
  <2>1. N * (p - q) >= N
    BY <1>3, <1>6
  <2> QED BY <1>4, <2>1
<1> QED BY <1>3, <1>5, <1>6


-----------------------------------------------------------------------------
(* Functions defined by recursion over a number, and linked lists.          *)

(* Repeating a step from a start can be told for any number of times: the   *)
(* function that a recursive definition chooses exists.                     *)
Repeats(D, st, h, N, p) ==
  p \in [0..N -> D] /\ p[0] = h /\ \A k \in 1..N : p[k] = st[p[k - 1]]

LEMMA Iterates ==
  ASSUME NEW D, NEW st \in [D -> D], NEW h \in D, NEW N \in Nat
  PROVE  \E p : Repeats(D, st, h, N, p)
<1> DEFINE Good(n) == \E p : Repeats(D, st, h, n, p)
           Bad == { n \in Nat : ~Good(n) }
<1> SUFFICES Bad = {}
  OBVIOUS
<1> SUFFICES ASSUME Bad # {} PROVE FALSE
  OBVIOUS
<1>1. PICK n \in Bad : \A j \in Bad : n <= j
  <2> HIDE DEF Bad
  <2>1. Bad \subseteq Nat
    BY DEF Bad
  <2> QED BY <2>1, LeastExists
<1>2. n # 0
  <2>1. Good(0)
    <3> DEFINE p == [k \in 0..0 |-> h]
    <3>1. p \in [0..0 -> D] /\ p[0] = h /\ \A k \in 1..0 : p[k] = st[p[k - 1]]
      OBVIOUS
    <3> QED BY <3>1 DEF Repeats
  <2> QED BY <2>1
<1>3. n - 1 \in Nat /\ n - 1 \notin Bad
  BY <1>1, <1>2
<1>4. PICK p \in [0..(n - 1) -> D] : p[0] = h /\ \A k \in 1..(n - 1) : p[k] = st[p[k - 1]]
  BY <1>3 DEF Repeats
<1> DEFINE q == [k \in 0..n |-> IF k = n THEN st[p[n - 1]] ELSE p[k]]
<1>5. q \in [0..n -> D] /\ q[0] = h
  BY <1>2, <1>3, <1>4
<1>6. ASSUME NEW k \in 1..n PROVE q[k] = st[q[k - 1]]
  <2>1. q[k - 1] = p[k - 1]
    BY <1>3
  <2>2. CASE k = n
    BY <1>3, <2>1, <2>2
  <2>3. CASE k # n
    BY <1>3, <1>4, <2>1, <2>3
  <2> QED BY <2>2, <2>3
<1>7. Good(n)
  <2> HIDE DEF q
  <2> QED BY <1>5, <1>6 DEF Repeats
<1> QED BY <1>1, <1>7

(* c is the list of the nodes that the links nx lead to from h, each once.  *)
ListFrom(N, Null, h, nx, c) ==
  /\ c \in Seq(N)
  /\ \A i, j \in 1..Len(c) : c[i] = c[j] => i = j
  /\ h = IF Len(c) = 0 THEN Null ELSE c[1]
  /\ \A i \in 1..Len(c) : nx[c[i]] = IF i = Len(c) THEN Null ELSE c[i + 1]

(* The members of a list.                                                   *)
Members(c) == { c[i] : i \in 1..Len(c) }

(* A list is not longer than the set of the nodes.                          *)
LEMMA ListFits ==
  ASSUME NEW N, IsFiniteSet(N), NEW c \in Seq(N),
         \A i, j \in 1..Len(c) : c[i] = c[j] => i = j
  PROVE  Len(c) <= Cardinality(N)
<1>1. Len(c) \in Nat /\ IsFiniteSet(1..Len(c)) /\ Cardinality(1..Len(c)) = Len(c)
  <2>1. Len(c) \in Nat
    OBVIOUS
  <2>2. /\ IsFiniteSet(1..Len(c))
        /\ Cardinality(1..Len(c)) = IF 1 > Len(c) THEN 0 ELSE Len(c) - 1 + 1
    BY <2>1, FS_Interval
  <2> QED BY <2>1, <2>2
<1>2. Cardinality(N) \in Nat
  BY FS_CardinalityType
<1> SUFFICES ASSUME Cardinality(N) < Cardinality(1..Len(c)) PROVE FALSE
  BY <1>1, <1>2
<1>3. c \in [1..Len(c) -> N]
  OBVIOUS
<1>4. \E x, y \in 1..Len(c) : x # y /\ c[x] = c[y]
  BY <1>1, <1>3, FS_PigeonHole
<1> QED BY <1>4

(* A list has as many members as it is long.                                *)
LEMMA ListSize ==
  ASSUME NEW N, IsFiniteSet(N), NEW c \in Seq(N),
         \A i, j \in 1..Len(c) : c[i] = c[j] => i = j
  PROVE  IsFiniteSet(Members(c)) /\ Cardinality(Members(c)) = Len(c)
<1>1. Len(c) \in Nat /\ IsFiniteSet(1..Len(c)) /\ Cardinality(1..Len(c)) = Len(c)
  <2>1. Len(c) \in Nat
    OBVIOUS
  <2>2. /\ IsFiniteSet(1..Len(c))
        /\ Cardinality(1..Len(c)) = IF 1 > Len(c) THEN 0 ELSE Len(c) - 1 + 1
    BY <2>1, FS_Interval
  <2> QED BY <2>1, <2>2
<1>2. c \in [1..Len(c) -> Members(c)]
  BY DEF Members
<1>3. c \in Bijection(1..Len(c), Members(c))
  BY <1>2 DEF Members, Bijection, Injection, Surjection, IsInjective
<1>4. ExistsBijection(1..Len(c), Members(c))
  BY <1>3 DEF ExistsBijection
<1> QED BY <1>1, <1>4, FS_Bijection

(* p follows the links nx from h for K steps.                               *)
Follows(Null, h, nx, K, p) ==
  /\ p[0] = h
  /\ \A k \in 1..K : p[k] = IF p[k - 1] = Null THEN Null ELSE nx[p[k - 1]]

(* p passes the members of c in order and stays at the null pointer.        *)
Passes(Null, c, K, p) ==
  \A k \in 0..K : p[k] = IF k < Len(c) THEN c[k + 1] ELSE Null

(* Who follows the links passes the members of their list.                  *)
LEMMA ListPath ==
  ASSUME NEW N, NEW Null, Null \notin N, NEW h, NEW nx, NEW c,
         ListFrom(N, Null, h, nx, c), NEW K \in Nat, NEW p,
         Follows(Null, h, nx, K, p)
  PROVE  Passes(Null, c, K, p)
<1> DEFINE Bad == { k \in 0..K : ~(p[k] = IF k < Len(c) THEN c[k + 1] ELSE Null) }
<1> SUFFICES ASSUME Bad # {} PROVE FALSE
  BY DEF Passes
<1>0. Len(c) \in Nat /\ \A i \in 1..Len(c) : c[i] \in N
  BY DEF ListFrom
<1>1. PICK k \in Bad : \A j \in Bad : k <= j
  <2> HIDE DEF Bad
  <2>1. Bad \subseteq Nat
    BY DEF Bad
  <2> QED BY <2>1, LeastExists
<1>2. k # 0
  BY <1>0, <1>1 DEF ListFrom, Follows
<1>3. k - 1 \in 0..K /\ k \in 1..K /\ k - 1 \notin Bad
  <2>1. k \in 0..K
    BY <1>1
  <2>2. k - 1 \in 0..K /\ k \in 1..K /\ ~(k <= k - 1)
    BY <1>2, <2>1
  <2> HIDE DEF Bad
  <2> QED BY <1>1, <2>2
<1>4. p[k - 1] = IF k - 1 < Len(c) THEN c[k] ELSE Null
  BY <1>3
<1>5. p[k] = IF p[k - 1] = Null THEN Null ELSE nx[p[k - 1]]
  BY <1>3 DEF Follows
<1>6. CASE k - 1 < Len(c)
  <2>1. k \in 1..Len(c) /\ p[k - 1] = c[k] /\ p[k - 1] # Null
    BY <1>0, <1>3, <1>4, <1>6
  <2>2. p[k] = IF k = Len(c) THEN Null ELSE c[k + 1]
    BY <1>5, <2>1 DEF ListFrom
  <2> QED BY <1>0, <1>1, <1>3, <2>1, <2>2
<1>7. CASE ~(k - 1 < Len(c))
  BY <1>0, <1>1, <1>3, <1>4, <1>5, <1>7
<1> QED BY <1>6, <1>7

(* The empty list.                                                          *)
LEMMA ListEmpty ==
  ASSUME NEW N, NEW Null, NEW nx
  PROVE  ListFrom(N, Null, Null, nx, << >>) /\ Members(<< >>) = {}
<1>1. ListFrom(N, Null, Null, nx, << >>)
  BY DEF ListFrom
<1>2. Len(<< >>) = 0
  OBVIOUS
<1>3. Members(<< >>) = {}
  BY <1>2 DEF Members
<1> QED BY <1>1, <1>3

(* A new first node.                                                        *)
LEMMA ListPush ==
  ASSUME NEW N, NEW Null, NEW h, NEW nx, NEW c, ListFrom(N, Null, h, nx, c),
         NEW n \in N, n \notin Members(c), nx[n] = h
  PROVE  /\ ListFrom(N, Null, n, nx, << n >> \o c)
         /\ Members(<< n >> \o c) = Members(c) \cup {n}
<1> DEFINE d == << n >> \o c
<1>1. /\ c \in Seq(N) /\ Len(c) \in Nat
      /\ d \in Seq(N) /\ Len(d) = Len(c) + 1 /\ d[1] = n
      /\ \A i \in 1..Len(c) : d[i + 1] = c[i]
  <2>1. c \in Seq(N) /\ << n >> \in Seq(N) /\ Len(<< n >>) = 1 /\ << n >>[1] = n
    BY DEF ListFrom
  <2> QED BY <2>1, ConcatProperties
<1>2. \A i \in 1..Len(d) : i = 1 \/ (i - 1 \in 1..Len(c) /\ d[i] = c[i - 1])
  <2> SUFFICES ASSUME NEW i \in 1..Len(d), i # 1
               PROVE  i - 1 \in 1..Len(c) /\ d[i] = c[i - 1]
    BY <1>1
  <2>1. i - 1 \in 1..Len(c) /\ (i - 1) + 1 = i
    BY <1>1
  <2> QED BY <1>1, <2>1
<1> HIDE DEF d
<1>3. \A i \in 1..Len(c) : c[i] # n
  BY DEF Members
<1>4. \A i, j \in 1..Len(d) : d[i] = d[j] => i = j
  <2> SUFFICES ASSUME NEW i \in 1..Len(d), NEW j \in 1..Len(d), d[i] = d[j] PROVE i = j
    OBVIOUS
  <2>1. CASE i = 1 \/ j = 1
    BY <1>1, <1>2, <1>3, <2>1
  <2>2. CASE i # 1 /\ j # 1
    <3>1. i - 1 \in 1..Len(c) /\ j - 1 \in 1..Len(c) /\ c[i - 1] = c[j - 1]
      BY <1>2, <2>2
    <3>2. i - 1 = j - 1
      BY <3>1 DEF ListFrom
    <3> QED BY <1>1, <3>2
  <2> QED BY <2>1, <2>2
<1>5. \A i \in 1..Len(d) : nx[d[i]] = IF i = Len(d) THEN Null ELSE d[i + 1]
  <2> SUFFICES ASSUME NEW i \in 1..Len(d)
               PROVE  nx[d[i]] = IF i = Len(d) THEN Null ELSE d[i + 1]
    OBVIOUS
  <2>1. CASE i = 1
    BY <1>1, <2>1 DEF ListFrom
  <2>2. CASE i # 1
    <3>1. i - 1 \in 1..Len(c) /\ d[i] = c[i - 1]
      BY <1>2, <2>2
    <3>2. nx[c[i - 1]] = IF i - 1 = Len(c) THEN Null ELSE c[(i - 1) + 1]
      BY <3>1 DEF ListFrom
    <3>3. CASE i - 1 = Len(c)
      BY <1>1, <3>1, <3>2, <3>3
    <3>4. CASE i - 1 # Len(c)
      <4>1. i \in 1..Len(c) /\ d[i + 1] = c[i]
        BY <1>1, <3>1, <3>4
      <4> QED BY <1>1, <3>1, <3>2, <3>4, <4>1
    <3> QED BY <3>3, <3>4
  <2> QED BY <2>1, <2>2
<1>6. Members(d) = Members(c) \cup {n}
  <2>1. Members(d) \subseteq Members(c) \cup {n}
    BY <1>1, <1>2 DEF Members
  <2>2. n \in Members(d)
    BY <1>1 DEF Members
  <2>3. ASSUME NEW i \in 1..Len(c) PROVE c[i] \in Members(d)
    <3>1. i + 1 \in 1..Len(d) /\ d[i + 1] = c[i]
      BY <1>1
    <3> QED BY <3>1 DEF Members
  <2> QED BY <2>1, <2>2, <2>3 DEF Members
<1>7. ListFrom(N, Null, n, nx, d)
  BY <1>1, <1>4, <1>5 DEF ListFrom
<1> QED BY <1>6, <1>7 DEF d

(* The first node leaves.                                                   *)
LEMMA ListPop ==
  ASSUME NEW N, NEW Null, NEW h, NEW nx, NEW c, ListFrom(N, Null, h, nx, c),
         h # Null
  PROVE  /\ c # << >> /\ h = Head(c) /\ h \in Members(c)
         /\ ListFrom(N, Null, nx[h], nx, Tail(c))
         /\ Members(Tail(c)) = Members(c) \ {h}
<1> DEFINE d == Tail(c)
<1>1. /\ c \in Seq(N) /\ Len(c) \in Nat \ {0} /\ c # << >> /\ h = c[1] /\ h = Head(c)
      /\ d \in Seq(N) /\ Len(d) = Len(c) - 1
      /\ \A i \in 1..Len(d) : d[i] = c[i + 1]
  <2>1. c \in Seq(N) /\ Len(c) \in Nat \ {0} /\ h = c[1]
    BY DEF ListFrom
  <2>2. Len(<< >>) = 0
    OBVIOUS
  <2>3. c # << >>
    BY <2>1, <2>2
  <2> QED BY <2>1, <2>3, HeadTailProperties
<1> HIDE DEF d
<1>2. \A i, j \in 1..Len(d) : d[i] = d[j] => i = j
  <2> SUFFICES ASSUME NEW i \in 1..Len(d), NEW j \in 1..Len(d), d[i] = d[j] PROVE i = j
    OBVIOUS
  <2>1. i + 1 \in 1..Len(c) /\ j + 1 \in 1..Len(c) /\ c[i + 1] = c[j + 1]
    BY <1>1
  <2>2. i + 1 = j + 1
    BY <2>1 DEF ListFrom
  <2> QED BY <2>2
<1>3. nx[h] = IF Len(d) = 0 THEN Null ELSE d[1]
  <2>1. 1 \in 1..Len(c) /\ nx[c[1]] = IF 1 = Len(c) THEN Null ELSE c[1 + 1]
    BY <1>1 DEF ListFrom
  <2> QED BY <1>1, <2>1
<1>4. \A i \in 1..Len(d) : nx[d[i]] = IF i = Len(d) THEN Null ELSE d[i + 1]
  <2> SUFFICES ASSUME NEW i \in 1..Len(d)
               PROVE  nx[d[i]] = IF i = Len(d) THEN Null ELSE d[i + 1]
    OBVIOUS
  <2>1. i + 1 \in 1..Len(c) /\ d[i] = c[i + 1]
    BY <1>1
  <2>2. nx[c[i + 1]] = IF i + 1 = Len(c) THEN Null ELSE c[(i + 1) + 1]
    BY <2>1 DEF ListFrom
  <2>3. CASE i = Len(d)
    BY <1>1, <2>1, <2>2, <2>3
  <2>4. CASE i # Len(d)
    <3>1. i + 1 \in 1..Len(d) /\ d[i + 1] = c[(i + 1) + 1]
      BY <1>1, <2>4
    <3> QED BY <1>1, <2>1, <2>2, <2>4, <3>1
  <2> QED BY <2>3, <2>4
<1>5. Members(d) = Members(c) \ {h}
  <2>1. ASSUME NEW i \in 1..Len(d) PROVE d[i] \in Members(c) \ {h}
    <3>1. i + 1 \in 1..Len(c) /\ d[i] = c[i + 1] /\ i + 1 # 1 /\ 1 \in 1..Len(c)
      BY <1>1
    <3>2. c[i + 1] # c[1]
      BY <3>1 DEF ListFrom
    <3> QED BY <1>1, <3>1, <3>2 DEF Members
  <2>2. ASSUME NEW i \in 1..Len(c), c[i] # h PROVE c[i] \in Members(d)
    <3>1. i - 1 \in 1..Len(d) /\ (i - 1) + 1 = i
      BY <1>1, <2>2
    <3>2. d[i - 1] = c[i]
      BY <1>1, <3>1
    <3> QED BY <3>1, <3>2 DEF Members
  <2> QED BY <2>1, <2>2 DEF Members
<1>6. h \in Members(c)
  BY <1>1 DEF Members
<1>7. ListFrom(N, Null, nx[h], nx, d)
  BY <1>1, <1>2, <1>3, <1>4 DEF ListFrom
<1> QED BY <1>1, <1>5, <1>6, <1>7 DEF d

(* The node that a list leads to becomes its last.                          *)
LEMMA ListAppend ==
  ASSUME NEW N, NEW z \in N, NEW h, NEW nx, NEW c, ListFrom(N, z, h, nx, c), z \notin Members(c)
  PROVE  /\ ListFrom(N, nx[z], h, nx, Append(c, z))
         /\ Members(Append(c, z)) = Members(c) \cup {z}
<1> DEFINE d == Append(c, z)
<1>1. /\ c \in Seq(N) /\ Len(c) \in Nat
      /\ d \in Seq(N) /\ Len(d) = Len(c) + 1 /\ d[Len(c) + 1] = z
      /\ \A i \in 1..Len(c) : d[i] = c[i]
  <2>1. c \in Seq(N)
    BY DEF ListFrom
  <2> QED BY <2>1, AppendProperties
<1> HIDE DEF d
<1>2. \A i \in 1..Len(d) : i \in 1..Len(c) \/ i = Len(c) + 1
  BY <1>1
<1>3. \A i \in 1..Len(c) : c[i] # z
  BY DEF Members
<1>4. \A i, j \in 1..Len(d) : d[i] = d[j] => i = j
  <2>1. \A i, j \in 1..Len(c) : c[i] = c[j] => i = j
    BY DEF ListFrom
  <2> QED BY <1>1, <1>2, <1>3, <2>1
<1>5. h = IF Len(d) = 0 THEN nx[z] ELSE d[1]
  <2>1. CASE Len(c) = 0
    BY <1>1, <2>1 DEF ListFrom
  <2>2. CASE Len(c) # 0
    <3>1. 1 \in 1..Len(c) /\ h = c[1]
      BY <1>1, <2>2 DEF ListFrom
    <3> QED BY <1>1, <3>1
  <2> QED BY <2>1, <2>2
<1>6. \A i \in 1..Len(d) : nx[d[i]] = IF i = Len(d) THEN nx[z] ELSE d[i + 1]
  <2> SUFFICES ASSUME NEW i \in 1..Len(d)
               PROVE  nx[d[i]] = IF i = Len(d) THEN nx[z] ELSE d[i + 1]
    OBVIOUS
  <2>1. CASE i = Len(c) + 1
    BY <1>1, <2>1
  <2>2. CASE i \in 1..Len(c)
    <3>1. nx[c[i]] = IF i = Len(c) THEN z ELSE c[i + 1]
      BY <2>2 DEF ListFrom
    <3>2. CASE i = Len(c)
      BY <1>1, <2>2, <3>1, <3>2
    <3>3. CASE i # Len(c)
      <4>1. i + 1 \in 1..Len(c)
        BY <1>1, <2>2, <3>3
      <4> QED BY <1>1, <2>2, <3>1, <3>3, <4>1
    <3> QED BY <3>2, <3>3
  <2> QED BY <1>2, <2>1, <2>2
<1>7. Members(d) = Members(c) \cup {z}
  <2>1. Members(d) \subseteq Members(c) \cup {z}
    BY <1>1, <1>2 DEF Members
  <2>2. z \in Members(d)
    <3>1. Len(c) + 1 \in 1..Len(d)
      BY <1>1
    <3> QED BY <1>1, <3>1 DEF Members
  <2>3. ASSUME NEW i \in 1..Len(c) PROVE c[i] \in Members(d)
    <3>1. i \in 1..Len(d) /\ d[i] = c[i]
      BY <1>1
    <3> QED BY <3>1 DEF Members
  <2> QED BY <2>1, <2>2, <2>3 DEF Members
<1>8. ListFrom(N, nx[z], h, nx, d)
  BY <1>1, <1>4, <1>5, <1>6 DEF ListFrom
<1> QED BY <1>7, <1>8 DEF d

(* What happens to the links of other nodes leaves a list alone.            *)
LEMMA ListStays ==
  ASSUME NEW N, NEW Null, NEW h, NEW nx, NEW c, ListFrom(N, Null, h, nx, c),
         NEW ny, \A m \in Members(c) : ny[m] = nx[m]
  PROVE  ListFrom(N, Null, h, ny, c)
<1>1. \A i \in 1..Len(c) : ny[c[i]] = nx[c[i]]
  BY DEF Members
<1> QED BY <1>1 DEF ListFrom

(* A list without members is empty, and starts with the null pointer.       *)
LEMMA ListIsEmpty ==
  ASSUME NEW N, NEW Null, Null \notin N, NEW h, NEW nx, NEW c, ListFrom(N, Null, h, nx, c)
  PROVE  /\ h = Null <=> c = << >>
         /\ Members(c) \subseteq N
         /\ h # Null => h \in Members(c)
<1>1. c \in Seq(N) /\ Len(c) \in Nat
  BY DEF ListFrom
<1>2. c = << >> <=> Len(c) = 0
  BY <1>1, EmptySeq
<1>3. Len(c) # 0 => h = c[1] /\ h \in N /\ 1 \in 1..Len(c)
  BY <1>1 DEF ListFrom
<1>4. Len(c) = 0 => h = Null
  BY DEF ListFrom
<1> QED BY <1>1, <1>2, <1>3, <1>4 DEF Members


-----------------------------------------------------------------------------
(* Counting the threads that are at some place. *)

(* One more.                                                                *)
LEMMA OneMore ==
  ASSUME NEW T, IsFiniteSet(T), NEW S \in SUBSET T, NEW x, x \notin S
  PROVE  Cardinality(S) \in Nat /\ Cardinality(S \cup {x}) = Cardinality(S) + 1
<1>1. IsFiniteSet(S)
  BY FS_Subset
<1> QED BY <1>1, FS_AddElement, FS_CardinalityType

(* One less.                                                                *)
LEMMA OneLess ==
  ASSUME NEW T, IsFiniteSet(T), NEW S \in SUBSET T, NEW x \in S
  PROVE  /\ Cardinality(S) \in Nat \ {0} /\ Cardinality(S \ {x}) \in Nat
         /\ Cardinality(S \ {x}) = Cardinality(S) - 1
<1>1. IsFiniteSet(S) /\ IsFiniteSet(S \ {x})
  BY FS_Subset, FS_RemoveElement
<1>2. Cardinality(S \ {x}) = Cardinality(S) - 1
  BY <1>1, FS_RemoveElement
<1>3. Cardinality(S) \in Nat /\ Cardinality(S \ {x}) \in Nat
  BY <1>1, FS_CardinalityType
<1> QED BY <1>2, <1>3


-----------------------------------------------------------------------------
(* The elements f holds along the list c. *)
Along(f, c) == [k \in 1..Len(c) |-> f[c[k]]]

(* With a new first node.                                                   *)
LEMMA AlongPush ==
  ASSUME NEW N, NEW c \in Seq(N), NEW n \in N, NEW f
  PROVE  Along(f, << n >> \o c) = << f[n] >> \o Along(f, c)
<1> DEFINE d == << n >> \o c
           D == { f[m] : m \in N }
           s == Along(f, c)
<1>1. /\ Len(c) \in Nat /\ d \in Seq(N) /\ Len(d) = Len(c) + 1 /\ d[1] = n
      /\ \A i \in 1..Len(d) : d[i] = IF i = 1 THEN n ELSE c[i - 1]
  <2>1. << n >> \in Seq(N) /\ Len(<< n >>) = 1 /\ << n >>[1] = n
    OBVIOUS
  <2> QED BY <2>1, ConcatProperties
<1>2. s \in Seq(D) /\ Len(s) = Len(c) /\ \A i \in 1..Len(c) : s[i] = f[c[i]]
  <2>1. \A i \in 1..Len(c) : f[c[i]] \in D
    OBVIOUS
  <2> HIDE DEF D
  <2> QED BY <1>1, <2>1, IsASeq DEF Along
<1>3. << f[n] >> \in Seq(D) /\ Len(<< f[n] >>) = 1 /\ << f[n] >>[1] = f[n]
  <2>1. f[n] \in D
    OBVIOUS
  <2> HIDE DEF D
  <2> QED BY <2>1
<1> HIDE DEF d, s, D
<1>4. /\ << f[n] >> \o s \in Seq(D) /\ Len(<< f[n] >> \o s) = Len(d)
      /\ \A i \in 1..Len(d) : (<< f[n] >> \o s)[i] = IF i = 1 THEN f[n] ELSE s[i - 1]
  BY <1>1, <1>2, <1>3, ConcatProperties
<1>5. \A i \in 1..Len(d) : (<< f[n] >> \o s)[i] = f[d[i]]
  <2> SUFFICES ASSUME NEW i \in 1..Len(d) PROVE (<< f[n] >> \o s)[i] = f[d[i]]
    OBVIOUS
  <2>1. CASE i = 1
    BY <1>1, <1>4, <2>1
  <2>2. CASE i # 1
    <3>1. i - 1 \in 1..Len(c)
      BY <1>1, <2>2
    <3> QED BY <1>1, <1>2, <1>4, <2>2, <3>1
  <2> QED BY <2>1, <2>2
<1>6. << f[n] >> \o s = [k \in 1..Len(d) |-> f[d[k]]]
  BY <1>4, <1>5
<1> QED BY <1>6 DEF Along, d, s

(* Without the first node.                                                  *)
LEMMA AlongPop ==
  ASSUME NEW N, NEW c \in Seq(N), c # << >>, NEW f
  PROVE  /\ Along(f, c) # << >> /\ Head(Along(f, c)) = f[Head(c)]
         /\ Tail(Along(f, c)) = Along(f, Tail(c))
<1> DEFINE d == Tail(c)
           D == { f[m] : m \in N }
           s == Along(f, c)
<1>1. /\ Len(c) \in Nat \ {0} /\ Head(c) = c[1]
      /\ d \in Seq(N) /\ Len(d) = Len(c) - 1 /\ \A i \in 1..Len(d) : d[i] = c[i + 1]
  BY EmptySeq, HeadTailProperties
<1>2. s \in Seq(D) /\ Len(s) = Len(c) /\ \A i \in 1..Len(c) : s[i] = f[c[i]]
  <2>1. Len(c) \in Nat /\ \A i \in 1..Len(c) : f[c[i]] \in D
    OBVIOUS
  <2> HIDE DEF D
  <2> QED BY <2>1, IsASeq DEF Along
<1> HIDE DEF d, s, D
<1>3. s # << >>
  BY <1>1, <1>2, EmptySeq
<1>4. /\ Head(s) = s[1] /\ Tail(s) \in Seq(D) /\ Len(Tail(s)) = Len(s) - 1
      /\ \A i \in 1..Len(Tail(s)) : Tail(s)[i] = s[i + 1]
  BY <1>2, <1>3, HeadTailProperties
<1>5. \A i \in 1..Len(d) : Tail(s)[i] = f[d[i]]
  <2> SUFFICES ASSUME NEW i \in 1..Len(d) PROVE Tail(s)[i] = f[d[i]]
    OBVIOUS
  <2>1. i + 1 \in 1..Len(c) /\ i \in 1..Len(Tail(s))
    BY <1>1, <1>2, <1>4
  <2> QED BY <1>1, <1>2, <1>4, <2>1
<1>6. Tail(s) = [k \in 1..Len(d) |-> f[d[k]]]
  <2>1. Tail(s) = [k \in 1..Len(Tail(s)) |-> Tail(s)[k]]
    <3> DEFINE q == Tail(s)
    <3>1. q \in Seq(D)
      BY <1>4
    <3> HIDE DEF q
    <3>2. q = [k \in 1..Len(q) |-> q[k]]
      BY <3>1
    <3> QED BY <3>2 DEF q
  <2>2. Len(Tail(s)) = Len(d)
    BY <1>1, <1>2, <1>4
  <2> QED BY <1>5, <2>1, <2>2
<1>7. Head(s) = f[Head(c)]
  BY <1>1, <1>2, <1>4
<1> QED BY <1>3, <1>6, <1>7 DEF Along, d, s

(* With a new last node.                                                    *)
LEMMA AlongAppend ==
  ASSUME NEW N, NEW c \in Seq(N), NEW n \in N, NEW f
  PROVE  Along(f, Append(c, n)) = Append(Along(f, c), f[n])
<1> DEFINE d == Append(c, n)
           D == { f[m] : m \in N }
           s == Along(f, c)
<1>1. /\ Len(c) \in Nat /\ Len(d) = Len(c) + 1 /\ d[Len(c) + 1] = n
      /\ \A i \in 1..Len(c) : d[i] = c[i]
  BY AppendProperties
<1>2. s \in Seq(D) /\ Len(s) = Len(c) /\ \A i \in 1..Len(c) : s[i] = f[c[i]]
  <2>1. \A i \in 1..Len(c) : f[c[i]] \in D
    OBVIOUS
  <2> HIDE DEF D
  <2> QED BY <1>1, <2>1, IsASeq DEF Along
<1>3. f[n] \in D
  OBVIOUS
<1> HIDE DEF d, s, D
<1>4. /\ Append(s, f[n]) \in Seq(D) /\ Len(Append(s, f[n])) = Len(d)
      /\ Append(s, f[n])[Len(c) + 1] = f[n]
      /\ \A i \in 1..Len(c) : Append(s, f[n])[i] = s[i]
  BY <1>1, <1>2, <1>3, AppendProperties
<1>5. \A i \in 1..Len(d) : Append(s, f[n])[i] = f[d[i]]
  <2> SUFFICES ASSUME NEW i \in 1..Len(d) PROVE Append(s, f[n])[i] = f[d[i]]
    OBVIOUS
  <2>1. i \in 1..Len(c) \/ i = Len(c) + 1
    BY <1>1
  <2> QED BY <1>1, <1>2, <1>4, <2>1
<1>6. Append(s, f[n]) = [k \in 1..Len(d) |-> f[d[k]]]
  <2> DEFINE q == Append(s, f[n])
  <2>1. q \in Seq(D) /\ Len(q) = Len(d)
    BY <1>4
  <2> HIDE DEF q
  <2>2. q = [k \in 1..Len(q) |-> q[k]]
    BY <2>1
  <2>3. \A i \in 1..Len(d) : q[i] = f[d[i]]
    BY <1>5 DEF q
  <2> QED BY <2>1, <2>2, <2>3 DEF q
<1> QED BY <1>6 DEF Along, d, s

(* What happens to f elsewhere does not matter.                             *)
LEMMA AlongSame ==
  ASSUME NEW c, NEW f, NEW g, \A m \in Members(c) : g[m] = f[m]
  PROVE  Along(g, c) = Along(f, c)
BY DEF Along, Members

(* What there is along a list is what its members hold.                     *)
LEMMA AlongMembers ==
  ASSUME NEW N, NEW c \in Seq(N), NEW f
  PROVE  Members(Along(f, c)) = { f[m] : m \in Members(c) }
<1> DEFINE D == { f[m] : m \in N }
           s == Along(f, c)
<1>1. s \in Seq(D) /\ Len(s) = Len(c) /\ \A i \in 1..Len(c) : s[i] = f[c[i]]
  <2>1. Len(c) \in Nat /\ \A i \in 1..Len(c) : f[c[i]] \in D
    OBVIOUS
  <2> HIDE DEF D
  <2> QED BY <2>1, IsASeq DEF Along
<1> HIDE DEF s, D
<1>2. Members(s) = { f[m] : m \in Members(c) }
  BY <1>1 DEF Members
<1> QED BY <1>2 DEF s

(* Nothing is along an empty list.                                          *)
LEMMA AlongEmpty ==
  ASSUME NEW f
  PROVE  Along(f, << >>) = << >>
BY DEF Along

=============================================================================
