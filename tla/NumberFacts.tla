----------------------------- MODULE NumberFacts -----------------------------
(***************************************************************************)
(* Facts about numbers that the proofs of several components need: a least *)
(* one, lengths laid end to end, offsets in a cycle, and sends that are an *)
(* interval apart.                                                         *)
(***************************************************************************)
EXTENDS Integers, FiniteSets, Functions, FiniteSetTheorems, WellFoundedInduction, TLAPS

\* A set of numbers has a least one: induction, as far as it can be cited.
LEMMA Least ==
  ASSUME NEW T \in SUBSET Nat, T # {}
  PROVE  \E x \in T : \A y \in T : x <= y
<1>1. IsWellFoundedOn(OpToRel(<, Nat), Nat)
  BY NatLessThanWellFounded
<1>2. PICK R : R = OpToRel(<, Nat)
  OBVIOUS
<1>3. R = {ss \in Nat \X Nat : ss[1] < ss[2]}
  BY <1>2 DEF OpToRel
<1>4. IsWellFoundedOn(R, Nat)
  BY <1>1, <1>2
<1>5. PICK x \in T : \A y \in T : ~ <<y, x>> \in R
  BY <1>4, WFMin
<1>6. ASSUME NEW a \in Nat, NEW b \in Nat, a < b
      PROVE  <<a, b>> \in R
  BY <1>3, <1>6
<1>7. ASSUME NEW y \in T PROVE x <= y
  <2>1. x \in Nat /\ y \in Nat /\ ~ <<y, x>> \in R
    BY <1>5
  <2>2. ~ y < x
    BY <1>6, <2>1
  <2> QED
    BY <2>1, <2>2
<1> QED
  BY <1>7

-----------------------------------------------------------------------------
(***************************************************************************)
(* Lengths laid end to end: e[i] is where the i-th of n ends.              *)
(***************************************************************************)
Laid(e, length, n) ==
  e = [i \in 0 .. n |-> IF i = 0 THEN 0 ELSE e[i - 1] + length[i]]

LEMMA LaidExists ==
  ASSUME NEW length, NEW n \in Nat
  PROVE  \E e : Laid(e, length, n)
<1> DEFINE T == {m \in Nat : ~ \E e : Laid(e, length, m)}
<1>1. SUFFICES ASSUME T # {} PROVE FALSE
  OBVIOUS
<1>2. PICK m \in T : \A y \in T : m <= y
  BY <1>1, Least
<1>3. m # 0
  <2>1. Laid([i \in 0 .. 0 |-> 0], length, 0)
    BY DEF Laid
  <2> QED
    BY <2>1
<1>4. m - 1 \in Nat /\ m - 1 \notin T
  BY <1>2, <1>3
<1>5. PICK f : Laid(f, length, m - 1)
  BY <1>4
<1> DEFINE e == [i \in 0 .. m |-> IF i = 0 THEN 0 ELSE f[i - 1] + length[i]]
<1>6. \A i \in 0 .. m - 1 : e[i] = f[i]
  BY <1>2, <1>4, <1>5 DEF Laid
<1>7. Laid(e, length, m)
  <2> HIDE DEF e
  <2>1. ASSUME NEW i \in 0 .. m, i # 0
        PROVE  e[i - 1] = f[i - 1]
    <3>1. i - 1 \in 0 .. m - 1
      BY <1>2, <1>3, <2>1
    <3> QED
      BY <1>6, <3>1
  <2>2. e = [i \in 0 .. m |-> IF i = 0 THEN 0 ELSE e[i - 1] + length[i]]
    BY <2>1 DEF e
  <2> QED
    BY <2>2 DEF Laid
<1> QED
  BY <1>7

\* The ends are numbers, and increase where no length is zero.
LEMMA LaidEnds ==
  ASSUME NEW length, NEW n \in Nat, NEW e, Laid(e, length, n),
         \A i \in 1 .. n : length[i] \in Nat
  PROVE  /\ e[0] = 0
         /\ \A i \in 1 .. n : e[i] = e[i - 1] + length[i]
         /\ \A i \in 0 .. n : e[i] \in Nat
<1>1. e[0] = 0 /\ \A i \in 1 .. n : e[i] = e[i - 1] + length[i]
  BY DEF Laid
<1> DEFINE T == {m \in 0 .. n : e[m] \notin Nat}
<1>2. T = {}
  <2>1. SUFFICES ASSUME T # {} PROVE FALSE
    OBVIOUS
  <2>2. PICK m \in T : \A y \in T : m <= y
    <3>1. T \subseteq Nat
      OBVIOUS
    <3> QED
      BY <2>1, <3>1, Least
  <2>3. m # 0
    BY <1>1
  <2>4. m \in 1 .. n /\ m - 1 \in 0 .. n /\ ~ m <= m - 1
    BY <2>3
  <2>5. m - 1 \notin T
    BY <2>2, <2>4
  <2>6. e[m - 1] \in Nat
    BY <2>4, <2>5
  <2> QED
    BY <1>1, <2>4, <2>6
<1> QED
  BY <1>1, <1>2

LEMMA LaidIncrease ==
  ASSUME NEW length, NEW n \in Nat, NEW e, Laid(e, length, n),
         \A i \in 1 .. n : length[i] \in Nat \ {0}
  PROVE  \A i, j \in 0 .. n : i < j => e[i] < e[j]
<1>1. /\ \A i \in 1 .. n : e[i] = e[i - 1] + length[i]
      /\ \A i \in 0 .. n : e[i] \in Nat
  BY LaidEnds
<1>2. \A i \in 1 .. n : e[i - 1] < e[i]
  <2>1. ASSUME NEW i \in 1 .. n PROVE e[i - 1] < e[i]
    <3>1. i - 1 \in 0 .. n
      OBVIOUS
    <3> QED
      BY <1>1, <3>1
  <2> QED
    BY <2>1
<1> DEFINE T == {j \in 0 .. n : \E i \in 0 .. n : i < j /\ ~ e[i] < e[j]}
<1>3. T = {}
  <2>1. SUFFICES ASSUME T # {} PROVE FALSE
    OBVIOUS
  <2>2. PICK m \in T : \A y \in T : m <= y
    <3>1. T \subseteq Nat
      OBVIOUS
    <3> QED
      BY <2>1, <3>1, Least
  <2>3. PICK i \in 0 .. n : i < m /\ ~ e[i] < e[m]
    BY <2>2
  <2>4. m \in 1 .. n /\ m - 1 \in 0 .. n /\ ~ m <= m - 1
    BY <2>2, <2>3
  <2>5. m - 1 \notin T
    BY <2>2, <2>4
  <2>6. i < m - 1 => e[i] < e[m - 1]
    BY <2>4, <2>5
  <2>7. i = m - 1 \/ i < m - 1
    BY <2>3, <2>4
  <2>8. e[i] <= e[m - 1] /\ e[m - 1] < e[m]
    BY <1>1, <1>2, <2>4, <2>6, <2>7
  <2> QED
    BY <1>1, <2>3, <2>4, <2>8
<1> QED
  BY <1>3

\* Of increasing ends, exactly one piece holds each offset before the last.
LEMMA LaidHolds ==
  ASSUME NEW n \in Nat, NEW e, \A i \in 0 .. n : e[i] \in Nat, e[0] = 0,
         \A i, j \in 0 .. n : i < j => e[i] < e[j],
         NEW o \in Nat, o < e[n]
  PROVE  \E k \in 1 .. n : {i \in 1 .. n : e[i - 1] <= o /\ o < e[i]} = {k}
<1> DEFINE T == {j \in 0 .. n : o < e[j]}
<1>1. PICK k \in T : \A j \in T : k <= j
  <2>1. T \subseteq Nat /\ n \in T
    OBVIOUS
  <2> QED
    BY <2>1, Least
<1>2. k \in 1 .. n /\ k - 1 \in 0 .. n /\ ~ k <= k - 1
  BY <1>1
<1>3. e[k - 1] <= o /\ o < e[k]
  <2>1. k - 1 \notin T
    BY <1>1, <1>2
  <2> QED
    BY <1>1, <1>2, <2>1
<1>4. ASSUME NEW j \in 1 .. n, e[j - 1] <= o, o < e[j] PROVE j = k
  <2>1. j \in 0 .. n /\ j - 1 \in 0 .. n
    OBVIOUS
  <2>2. ~ k < j
    <3>1. SUFFICES ASSUME k < j PROVE FALSE
      OBVIOUS
    <3>2. k = j - 1 \/ k < j - 1
      BY <1>2, <2>1, <3>1
    <3>3. e[k] <= e[j - 1]
      BY <1>2, <2>1, <3>2
    <3> QED
      BY <1>2, <1>3, <1>4, <2>1, <3>3
  <2>3. k <= j
    BY <1>1, <1>4, <2>1
  <2> QED
    BY <1>2, <2>1, <2>2, <2>3
<1> QED
  BY <1>2, <1>3, <1>4
-----------------------------------------------------------------------------
(***************************************************************************)
(* Offsets in a cycle.                                                     *)
(***************************************************************************)
LEMMA ModUnique ==
  ASSUME NEW c \in Nat \ {0}, NEW q \in Int, NEW r \in 0 .. c - 1
  PROVE  (c * q + r) % c = r
<1>1. r \in Int /\ 0 <= r /\ r < c
  OBVIOUS
<1> QED
  BY <1>1

\* An instant's offset in a cycle of length c that began at b.
Offset(t, b, c) == (t - b) % c

\* Every offset comes once in a stretch of a cycle's length.
LEMMA OffsetIn ==
  ASSUME NEW c \in Nat \ {0}, NEW b \in Int, NEW a \in Int, NEW o \in 0 .. c - 1
  PROVE  \E t \in Int : a <= t /\ t < a + c /\ Offset(t, b, c) = o
<1>t. ASSUME NEW t \in a .. a + c - 1, NEW p \in Int, t - b = c * p + o
      PROVE  \E u \in Int : a <= u /\ u < a + c /\ Offset(u, b, c) = o
  <2>1. (c * p + o) % c = o
    BY ModUnique
  <2>2. Offset(t, b, c) = o
    BY <1>t, <2>1 DEF Offset
  <2> QED
    BY <1>t, <2>2
<1>1. PICK q \in Int : q = (a - b) \div c
  OBVIOUS
<1>2. PICK r \in 0 .. c - 1 : a - b = c * q + r
  <2>1. (a - b) % c \in 0 .. c - 1 /\ a - b = c * ((a - b) \div c) + ((a - b) % c)
    OBVIOUS
  <2> QED
    BY <1>1, <2>1
<1>3. CASE r <= o
  <2>1. PICK t \in Int : t = a + (o - r)
    OBVIOUS
  <2>2. t \in a .. a + c - 1 /\ t - b = c * q + o
    BY <1>2, <1>3, <2>1
  <2> QED
    BY <1>t, <2>2
<1>4. CASE r > o
  <2>1. PICK t \in Int : t = a + (o - r) + c
    OBVIOUS
  <2>2. PICK p \in Int : p = q + 1
    OBVIOUS
  <2>3. c * p = c * q + c
    BY <2>2
  <2>4. t \in a .. a + c - 1 /\ t - b = c * p + o
    BY <1>2, <1>4, <2>1, <2>3
  <2> QED
    BY <1>t, <2>4
<1> QED
  BY <1>2, <1>3, <1>4
-----------------------------------------------------------------------------
(***************************************************************************)
(* A sender that sleeps between two messages: its sends are at least an    *)
(* interval apart, so few of them fit into a window of time.  What waits   *)
(* for an answer to one of them is counted by that.                        *)
(***************************************************************************)
\* Sends, with the number and the instant of each.
Sends == [seq : Nat, at : Nat]

Spaced(sends, interval) ==
  /\ sends \subseteq Sends
  /\ \A x, y \in sends : x # y => x.at + interval <= y.at \/ y.at + interval <= x.at

LEMMA QuotientFacts ==
  ASSUME NEW a \in Nat, NEW b \in Nat, NEW i \in Nat \ {0}
  PROVE  /\ a \div i \in Nat
         /\ a <= b => a \div i <= b \div i
         /\ a \div i = b \div i => a - b < i
<1>1. /\ a \div i \in Nat /\ i * (a \div i) <= a /\ a < i * (a \div i) + i
      /\ b \div i \in Nat /\ i * (b \div i) <= b /\ b < i * (b \div i) + i
  BY SMT
<1>2. a <= b => a \div i <= b \div i
  <2>1. SUFFICES ASSUME a <= b, a \div i >= b \div i + 1 PROVE FALSE
    BY <1>1
  <2>2. \A x, y \in Nat : x >= y => i * x >= i * y
    BY SMT
  <2>3. i * (a \div i) >= i * (b \div i + 1)
    BY <1>1, <2>1, <2>2
  <2>4. i * (b \div i + 1) = i * (b \div i) + i
    BY <1>1
  <2>5. i * (a \div i) \in Int /\ i * (b \div i) \in Int
    BY <1>1
  <2> QED
    BY <1>1, <2>1, <2>3, <2>4, <2>5
<1>3. a \div i = b \div i => a - b < i
  BY <1>1
<1> QED
  BY <1>1, <1>2, <1>3

\* How many instants, no two closer than an interval, a window of width W holds.
LEMMA SpacedCount ==
  ASSUME NEW S, NEW t \in [S -> Nat], NEW base \in Int, NEW W \in Nat, NEW i \in Nat \ {0},
         \A s \in S : t[s] \in base .. base + W,
         \A s, u \in S : s # u => t[s] + i <= t[u] \/ t[u] + i <= t[s]
  PROVE  Cardinality(S) <= W \div i + 1
<1> DEFINE h == [s \in S |-> (t[s] - base) \div i]
<1>1. \A s \in S : t[s] - base \in 0 .. W
  OBVIOUS
<1>2. W \div i \in Nat /\ \A s \in S : (t[s] - base) \div i \in 0 .. W \div i
  <2>1. ASSUME NEW s \in S PROVE (t[s] - base) \div i \in 0 .. W \div i
    <3>1. PICK x \in Nat : x = t[s] - base /\ x <= W
      BY <1>1
    <3>2. x \div i \in Nat /\ W \div i \in Nat /\ x \div i <= W \div i
      BY <3>1, QuotientFacts
    <3> QED
      BY <3>1, <3>2
  <2> QED
    BY <2>1, QuotientFacts
<1>3. ASSUME NEW s \in S, NEW u \in S, h[s] = h[u] PROVE s = u
  <2>1. t[s] - base \in Nat /\ t[u] - base \in Nat /\ t[s] \in Nat /\ t[u] \in Nat
    BY <1>1
  <2>2. (t[s] - base) \div i = (t[u] - base) \div i
    BY <1>3
  <2>3. (t[s] - base) - (t[u] - base) < i /\ (t[u] - base) - (t[s] - base) < i
    BY <2>1, <2>2, QuotientFacts
  <2> QED
    BY <2>1, <2>3
<1>4. h \in Injection(S, 0 .. W \div i)
  BY <1>2, <1>3 DEF Injection, IsInjective
<1>5. IsFiniteSet(0 .. W \div i) /\ Cardinality(0 .. W \div i) = W \div i + 1
  <2>1. PICK n \in Nat : n = W \div i
    BY <1>2
  <2>2. IsFiniteSet(0 .. n) /\ Cardinality(0 .. n) = n + 1
    BY FS_Interval
  <2> QED
    BY <2>1, <2>2
<1> HIDE DEF h
<1>6. Cardinality(S) <= Cardinality(0 .. W \div i)
  <2> DEFINE T == 0 .. W \div i
  <2>1. IsFiniteSet(T) /\ h \in Injection(S, T)
    BY <1>4, <1>5
  <2> HIDE DEF T
  <2>2. Cardinality(S) <= Cardinality(T)
    BY <2>1, FS_Injection
  <2> QED
    BY <2>2 DEF T
<1> QED
  BY <1>5, <1>6

\* So much for instants; what waits belongs to sends with different numbers.
LEMMA WaitingCount ==
  ASSUME NEW S, NEW sends, NEW base \in Int, NEW W \in Nat, NEW i \in Nat \ {0},
         Spaced(sends, i),
         \A s \in S : \E x \in sends : x.seq = s /\ x.at \in base .. base + W
  PROVE  Cardinality(S) <= W \div i + 1
<1> DEFINE Sent(s, x) == x.seq = s /\ x.at \in base .. base + W
           t == [s \in S |-> (CHOOSE x \in sends : Sent(s, x)).at]
<1>1. ASSUME NEW s \in S
      PROVE  \E x \in sends : Sent(s, x) /\ t[s] = x.at
  OBVIOUS
<1> HIDE DEF t
<1>2. t \in [S -> Nat]
  <2>1. \A s \in S : t[s] \in Nat
    BY <1>1 DEF Spaced, Sends
  <2>2. t = [s \in S |-> t[s]]
    BY DEF t
  <2> QED
    BY <2>1, <2>2
<1>3. \A s \in S : t[s] \in base .. base + W
  BY <1>1
<1>4. ASSUME NEW s \in S, NEW u \in S, s # u
      PROVE  t[s] + i <= t[u] \/ t[u] + i <= t[s]
  <2>1. PICK x \in sends : Sent(s, x) /\ t[s] = x.at
    BY <1>1
  <2>2. PICK y \in sends : Sent(u, y) /\ t[u] = y.at
    BY <1>1
  <2> QED
    BY <1>4, <2>1, <2>2 DEF Spaced
<1> QED
  BY <1>2, <1>3, <1>4, SpacedCount

\* One send more, an interval after the others.
LEMMA SpacedMore ==
  ASSUME NEW sends, NEW i \in Nat, Spaced(sends, i), NEW x \in Sends,
         \A y \in sends : y.at + i <= x.at
  PROVE  Spaced(sends \union {x}, i)
  BY DEF Spaced

=============================================================================
