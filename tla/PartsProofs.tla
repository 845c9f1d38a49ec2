----------------------------- MODULE PartsProofs -----------------------------
(***************************************************************************)
(* Theorems about the parts that run on their own: the gate computation,   *)
(* the way of a frame through the endpoints, accuracy probes, the reports  *)
(* to the dashboard, and the drift log.                                    *)
(***************************************************************************)
EXTENDS MCParts, NumberFacts, SequenceTheorems

-----------------------------------------------------------------------------
(***************************************************************************)
(* TASConfig: the entries of a valid list partition the cycle, and the     *)
(* gate computation reads the cycle as it is written out.                  *)
(***************************************************************************)
LEMMA EntryFacts ==
  ASSUME NEW gcl \in GateList
  PROVE  /\ Len(gcl) \in Nat /\ DOMAIN gcl = 1 .. Len(gcl)
         /\ \A i \in 1 .. Len(gcl) : gcl[i].duration_us \in Nat /\ gcl[i].gates \in SUBSET TC
<1>1. Len(gcl) \in Nat /\ DOMAIN gcl = 1 .. Len(gcl)
  BY LenProperties DEF GateList
<1>2. \A i \in 1 .. Len(gcl) : gcl[i] \in [gates : SUBSET TC, duration_us : Nat]
  BY ElementOfSeq DEF GateList
<1> QED
  BY <1>1, <1>2

LEMMA EndsLaid ==
  ASSUME NEW gcl \in GateList
  PROVE  Laid(Ends(gcl), [i \in 1 .. Len(gcl) |-> gcl[i].duration_us], Len(gcl))
<1>1. PICK n \in Nat : n = Len(gcl)
  BY EntryFacts
<1> DEFINE d == [i \in 1 .. n |-> gcl[i].duration_us]
           SumUpTo(e) == e = [i \in 0 .. n |-> IF i = 0 THEN 0 ELSE e[i - 1] + gcl[i].duration_us]
<1>2. ASSUME NEW e PROVE Laid(e, d, n) <=> SumUpTo(e)
  <2>1. \A i \in 0 .. n : i # 0 => d[i] = gcl[i].duration_us
    OBVIOUS
  <2> HIDE DEF d
  <2> QED
    BY <2>1 DEF Laid
<1>3. \E e : Laid(e, d, n)
  BY <1>1, LaidExists
<1>4. Ends(gcl) = CHOOSE e : SumUpTo(e)
  BY <1>1 DEF Ends
<1> HIDE DEF SumUpTo
<1>5. SumUpTo(Ends(gcl))
  BY <1>2, <1>3, <1>4
<1> QED
  BY <1>1, <1>2, <1>5

\* Where the entries of a valid list end.
LEMMA ValidEnds ==
  ASSUME NEW c, c.gcl \in GateList, Validate(c)
  PROVE  LET e == Ends(c.gcl)
             n == Len(c.gcl)
         IN  /\ e[0] = 0 /\ e[n] = c.cycle_us
             /\ \A i \in 1 .. n : e[i] = e[i - 1] + c.gcl[i].duration_us
             /\ \A i \in 0 .. n : e[i] \in Nat
             /\ \A i, j \in 0 .. n : i < j => e[i] < e[j]
<1>1. PICK gcl \in GateList : gcl = c.gcl
  OBVIOUS
<1>2. PICK n \in Nat : n = Len(gcl) /\ DOMAIN gcl = 1 .. n
  BY EntryFacts
<1>3. PICK d : d = [i \in 1 .. n |-> gcl[i].duration_us]
  OBVIOUS
<1>4. PICK e : e = Ends(gcl)
  OBVIOUS
<1>5. Laid(e, d, n)
  BY <1>2, <1>3, <1>4, EndsLaid
<1>6. \A i \in 1 .. n : d[i] \in Nat \ {0} /\ d[i] \in Nat /\ d[i] = gcl[i].duration_us
  <2>1. \A i \in 1 .. n : gcl[i].duration_us \in Nat
    BY <1>2, EntryFacts
  <2>2. \A i \in 1 .. n : gcl[i].duration_us > 0
    BY <1>1, <1>2 DEF Validate
  <2> QED
    BY <1>3, <2>1, <2>2
<1>7. /\ e[0] = 0 /\ \A i \in 1 .. n : e[i] = e[i - 1] + d[i]
      /\ \A i \in 0 .. n : e[i] \in Nat
  <2>1. \A i \in 1 .. n : d[i] \in Nat
    BY <1>6
  <2> QED
    BY <1>5, <2>1, LaidEnds
<1>8. \A i, j \in 0 .. n : i < j => e[i] < e[j]
  <2>1. \A i \in 1 .. n : d[i] \in Nat \ {0}
    BY <1>6
  <2> QED
    BY <1>5, <2>1, LaidIncrease
<1>9. e[n] = c.cycle_us
  BY <1>1, <1>2, <1>4 DEF Validate, TotalDuration
<1> QED
  BY <1>1, <1>2, <1>4, <1>6, <1>7, <1>8, <1>9

\* Exactly one entry governs each offset.
LEMMA Governed ==
  ASSUME NEW c, c.gcl \in GateList, Validate(c), NEW o \in Nat, o < c.cycle_us
  PROVE  \E k \in 1 .. Len(c.gcl) :
           /\ Ends(c.gcl)[k - 1] <= o /\ o < Ends(c.gcl)[k]
           /\ \A tc : GateAt(c, tc, o) <=> tc \in c.gcl[k].gates
<1>1. PICK gcl \in GateList : gcl = c.gcl
  OBVIOUS
<1>2. PICK e : e = Ends(gcl)
  OBVIOUS
<1>3. PICK n \in Nat : n = Len(gcl) /\ DOMAIN gcl = 1 .. n
  BY EntryFacts
<1>4. /\ e[0] = 0 /\ e[n] = c.cycle_us
      /\ \A i \in 0 .. n : e[i] \in Nat
      /\ \A i, j \in 0 .. n : i < j => e[i] < e[j]
  BY <1>1, <1>2, <1>3, ValidEnds
<1> DEFINE hits == {i \in 1 .. n : e[i - 1] <= o /\ o < e[i]}
<1>5. PICK k \in 1 .. n : hits = {k}
  BY <1>4, LaidHolds
<1>6. e[k - 1] <= o /\ o < e[k]
  BY <1>5
<1> HIDE DEF hits
<1>7. ASSUME NEW tc PROVE GateAt(c, tc, o) <=> tc \in gcl[k].gates
  <2>1. gcl # << >>
    BY <1>1 DEF Validate
  <2>2. GateAt(c, tc, o) <=> \E i \in hits : tc \in gcl[i].gates /\ \A j \in hits : i <= j
    BY <1>1, <1>2, <1>3, <2>1 DEF GateAt, hits
  <2> QED
    BY <1>5, <2>2
<1> QED
  BY <1>1, <1>2, <1>3, <1>6, <1>7

LineUpTo(gcl, n, f) ==
  f = [i \in 0 .. n |-> IF i = 0 THEN << >> ELSE f[i - 1] \o Ticks(gcl[i])]

LEMMA LineExists ==
  ASSUME NEW gcl, NEW n \in Nat
  PROVE  \E f : LineUpTo(gcl, n, f)
<1> DEFINE T == {m \in Nat : ~ \E f : LineUpTo(gcl, m, f)}
<1>1. SUFFICES ASSUME T # {} PROVE FALSE
  OBVIOUS
<1>2. PICK m \in T : \A y \in T : m <= y
  BY <1>1, Least
<1>3. m # 0
  <2>1. LineUpTo(gcl, 0, [i \in 0 .. 0 |-> << >>])
    BY DEF LineUpTo
  <2> QED
    BY <2>1
<1>4. m - 1 \in Nat /\ m - 1 \notin T
  BY <1>2, <1>3
<1>5. PICK f : LineUpTo(gcl, m - 1, f)
  BY <1>4
<1> DEFINE g == [i \in 0 .. m |-> IF i = 0 THEN << >> ELSE f[i - 1] \o Ticks(gcl[i])]
<1>6. \A i \in 0 .. m - 1 : g[i] = f[i]
  BY <1>2, <1>4, <1>5 DEF LineUpTo
<1>7. LineUpTo(gcl, m, g)
  <2> HIDE DEF g
  <2>1. ASSUME NEW i \in 0 .. m, i # 0
        PROVE  g[i - 1] = f[i - 1]
    <3>1. i - 1 \in 0 .. m - 1
      BY <1>2, <1>3, <2>1
    <3> QED
      BY <1>6, <3>1
  <2>2. g = [i \in 0 .. m |-> IF i = 0 THEN << >> ELSE g[i - 1] \o Ticks(gcl[i])]
    BY <2>1 DEF g
  <2> QED
    BY <2>2 DEF LineUpTo
<1> QED
  BY <1>7

\* A stretch of n equal entries appended to a line.
LEMMA Stretched ==
  ASSUME NEW S, NEW s \in Seq(S), NEW x \in S, NEW d \in Nat, NEW r, r = [k \in 1 .. d |-> x]
  PROVE  /\ s \o r \in Seq(S)
         /\ Len(s \o r) = Len(s) + d
         /\ \A j \in 1 .. Len(s) : (s \o r)[j] = s[j]
         /\ \A j \in Len(s) + 1 .. Len(s) + d : (s \o r)[j] = x
<1>1. r \in Seq(S) /\ Len(r) = d
  OBVIOUS
<1>2. PICK n \in Nat : n = Len(s)
  OBVIOUS
<1>3. \A j \in 1 .. n : (s \o r)[j] = s[j]
  BY <1>1, <1>2
<1>4. ASSUME NEW j \in n + 1 .. n + d PROVE (s \o r)[j] = x
  <2>1. j - n \in 1 .. d
    BY <1>2
  <2>2. r[j - n] = x
    BY <2>1
  <2> QED
    BY <1>1, <1>2, <2>1, <2>2
<1> QED
  BY <1>1, <1>2, <1>3, <1>4

\* The line up to an entry is as long as the entry's end, and shows at every
\* offset the gates of the entry that governs it.
LineGood(gcl, i, s) ==
  /\ s \in Seq(SUBSET TC)
  /\ Len(s) = Ends(gcl)[i]
  /\ \A k \in 1 .. i, o \in Nat :
       Ends(gcl)[k - 1] <= o /\ o < Ends(gcl)[k] => s[o + 1] = gcl[k].gates

LEMMA LineFacts ==
  ASSUME NEW c, c.gcl \in GateList, Validate(c)
  PROVE  LineGood(c.gcl, Len(c.gcl), Timeline(c.gcl))
<1>g. PICK gcl \in GateList : gcl = c.gcl
  OBVIOUS
<1>1. PICK n \in Nat : n = Len(gcl) /\ DOMAIN gcl = 1 .. n
  BY EntryFacts
<1>2. PICK e : e = Ends(gcl)
  OBVIOUS
<1>3. /\ e[0] = 0
      /\ \A i \in 1 .. n : e[i] = e[i - 1] + gcl[i].duration_us
      /\ \A i \in 0 .. n : e[i] \in Nat
      /\ \A i, j \in 0 .. n : i < j => e[i] < e[j]
  BY <1>1, <1>2, <1>g, ValidEnds
<1>4. \A i \in 1 .. n : gcl[i].duration_us \in Nat /\ gcl[i].gates \in SUBSET TC
  BY <1>1, EntryFacts
<1>5. PICK line : LineUpTo(gcl, n, line) /\ Timeline(gcl) = line[n]
  <2>1. PICK f : f = CHOOSE g : LineUpTo(gcl, n, g)
    OBVIOUS
  <2>2. LineUpTo(gcl, n, f)
    BY <2>1, LineExists
  <2>3. Timeline(gcl) = f[n]
    BY <1>1, <2>1 DEF Timeline, LineUpTo
  <2> QED
    BY <2>2, <2>3
<1> DEFINE T == {m \in 0 .. n : ~ LineGood(gcl, m, line[m])}
<1>6. T = {}
  <2>1. SUFFICES ASSUME T # {} PROVE FALSE
    OBVIOUS
  <2>2. PICK m \in T : \A y \in T : m <= y
    <3>1. T \subseteq Nat
      BY <1>1
    <3> QED
      BY <2>1, <3>1, Least
  <2>3. m # 0
    <3>1. line[0] = << >>
      BY <1>1, <1>5 DEF LineUpTo
    <3>2. LineGood(gcl, 0, << >>)
      BY <1>2, <1>3 DEF LineGood
    <3> QED
      BY <2>2, <3>1, <3>2
  <2>4. m \in 1 .. n /\ m - 1 \in 0 .. n /\ ~ m <= m - 1
    BY <1>1, <2>3
  <2>5. LineGood(gcl, m - 1, line[m - 1])
    BY <2>2, <2>4
  <2>6. PICK d \in Nat : d = gcl[m].duration_us
    BY <1>4, <2>4
  <2>7. PICK s : s = line[m - 1]
    OBVIOUS
  <2>8. line[m] = s \o Ticks(gcl[m])
    <3>1. m \in 0 .. n /\ m # 0
      BY <2>2, <2>3
    <3>2. LineUpTo(gcl, n, line)
      BY <1>5
    <3>3. line[m] = line[m - 1] \o Ticks(gcl[m])
      BY <3>1, <3>2 DEF LineUpTo
    <3> QED
      BY <2>7, <3>3
  <2>9. PICK x \in SUBSET TC : x = gcl[m].gates
    BY <1>4, <2>4
  <2>10. /\ s \in Seq(SUBSET TC) /\ Len(s) = e[m - 1]
         /\ \A k \in 1 .. m - 1, o \in Nat :
              e[k - 1] <= o /\ o < e[k] => s[o + 1] = gcl[k].gates
    BY <1>2, <2>5, <2>7 DEF LineGood
  <2>11. PICK t : t = s \o [k \in 1 .. d |-> x]
    OBVIOUS
  <2>12. /\ t \in Seq(SUBSET TC) /\ Len(t) = Len(s) + d
         /\ \A j \in 1 .. Len(s) : t[j] = s[j]
         /\ \A j \in Len(s) + 1 .. Len(s) + d : t[j] = x
    <3>1. PICK r : r = [k \in 1 .. d |-> x]
      OBVIOUS
    <3>2. PICK S : S = SUBSET TC
      OBVIOUS
    <3>3. s \in Seq(S) /\ x \in S
      BY <2>10, <3>2
    <3>4. /\ s \o r \in Seq(S)
          /\ Len(s \o r) = Len(s) + d
          /\ \A j \in 1 .. Len(s) : (s \o r)[j] = s[j]
          /\ \A j \in Len(s) + 1 .. Len(s) + d : (s \o r)[j] = x
      BY <3>1, <3>3, Stretched
    <3> QED
      BY <2>11, <3>1, <3>2, <3>4
  <2>13. Len(t) = e[m] /\ e[m - 1] \in Nat /\ e[m] \in Nat /\ e[m] = e[m - 1] + d
    BY <1>3, <2>4, <2>6, <2>10, <2>12
  <2>14. ASSUME NEW k \in 1 .. m, NEW o \in Nat, e[k - 1] <= o, o < e[k]
         PROVE  t[o + 1] = gcl[k].gates
    <3>1. CASE k = m
      <4>1. o + 1 \in Len(s) + 1 .. Len(s) + d
        BY <2>10, <2>13, <2>14, <3>1
      <4> QED
        BY <2>9, <2>12, <3>1, <4>1
    <3>2. CASE k # m
      <4>1. k \in 1 .. m - 1 /\ k \in 0 .. n /\ (k < m - 1 \/ k = m - 1)
        BY <1>1, <2>4, <3>2
      <4>2. e[k] \in Nat /\ e[k] <= e[m - 1]
        BY <1>3, <2>4, <2>13, <4>1
      <4>3. o + 1 \in 1 .. Len(s)
        BY <2>10, <2>13, <2>14, <4>2
      <4> QED
        BY <2>10, <2>12, <2>14, <4>1, <4>3
    <3> QED
      BY <3>1, <3>2
  <2>15. LineGood(gcl, m, t)
    BY <1>2, <2>12, <2>13, <2>14 DEF LineGood
  <2> QED
    BY <2>2, <2>6, <2>8, <2>9, <2>11, <2>15 DEF Ticks
<1>7. LineGood(gcl, n, line[n])
  BY <1>1, <1>6
<1> QED
  BY <1>1, <1>5, <1>7, <1>g

LEMMA Followed ==
  ASSUME NEW c, c.gcl \in GateList, c.cycle_us \in Nat, c.base_time_ns \in Int,
         Validate(c), NEW t \in Int
  PROVE  FollowsTimeline(c, t)
<1>1. PICK n \in Nat : n = c.cycle_us
  OBVIOUS
<1>2. n > 0
  <2>1. PICK m \in Nat : m = Len(c.gcl)
    BY EntryFacts
  <2>2. m > 0
    BY <2>1, EmptySeq DEF Validate, GateList
  <2>3. PICK e : e = Ends(c.gcl)
    OBVIOUS
  <2>4. e[0] = 0 /\ e[m] = n /\ \A i, j \in 0 .. m : i < j => e[i] < e[j]
    BY <1>1, <2>1, <2>3, ValidEnds
  <2>5. 0 \in 0 .. m /\ m \in 0 .. m /\ 0 < m
    BY <2>2
  <2>6. e[0] < e[m]
    BY <2>4, <2>5
  <2> QED
    BY <2>4, <2>6
<1>3. PICK b \in Int : b = c.base_time_ns
  OBVIOUS
<1>4. PICK o : o = (t - b) % n
  OBVIOUS
<1>5. o \in Nat /\ o < n
  BY <1>2, <1>4
<1>6. PICK k \in 1 .. Len(c.gcl) :
        /\ Ends(c.gcl)[k - 1] <= o /\ o < Ends(c.gcl)[k]
        /\ \A tc : GateAt(c, tc, o) <=> tc \in c.gcl[k].gates
  BY <1>1, <1>5, Governed
<1>7. LineGood(c.gcl, Len(c.gcl), Timeline(c.gcl))
  BY LineFacts
<1>8. Timeline(c.gcl)[o + 1] = c.gcl[k].gates
  BY <1>5, <1>6, <1>7 DEF LineGood
<1> QED
  BY <1>1, <1>3, <1>4, <1>6, <1>8 DEF FollowsTimeline, IsGateOpen, CycleOffset

-----------------------------------------------------------------------------
(***************************************************************************)
(* Endpoint.                                                               *)
(***************************************************************************)
LEMMA ClassWritten ==
  ASSUME NEW tc \in Int, NEW size \in Nat
  PROVE  ClassOf(DataFrame(tc, size)) = IF tc \in 0 .. 3 THEN tc ELSE 0
<1> DEFINE dscp == CASE tc = 1 -> 8 [] tc = 2 -> 18 [] tc = 3 -> 46 [] OTHER -> 0
<1>1. dscp = IF tc = 1 THEN 8 ELSE IF tc = 2 THEN 18 ELSE IF tc = 3 THEN 46 ELSE 0
  OBVIOUS
<1>2. PICK frame : frame = DataFrame(tc, size)
  OBVIOUS
<1>3. /\ frame.len = 34 + size /\ frame.ethertype = ETHERTYPE_DATA /\ frame.tos = dscp * 4
  BY <1>2 DEF DataFrame
<1>4. frame.len \in Nat /\ frame.len >= 23
  BY <1>3
<1>5. ClassOf(frame) = ClassOfDSCP(Field(frame.tos, 4, 64))
  BY <1>3, <1>4 DEF ClassOf, ETHERTYPE_DATA, ETHERTYPE_GPTP, ETHERTYPE_VLAN
<1>6. Field(frame.tos, 4, 64) = dscp
  BY <1>1, <1>3 DEF Field
<1>7. ClassOfDSCP(dscp) = IF tc \in 0 .. 3 THEN tc ELSE 0
  BY <1>1 DEF ClassOfDSCP
<1> QED
  BY <1>2, <1>5, <1>6, <1>7

\* The class an application gives its data is the class in which every port of the
\* switch shapes it and in which it is delivered, whatever the class, the size of
\* the data and the number of the ports' classes.
LEMMA ClassArrives ==
  \A tc \in Int, size \in Nat : KeepsClass(tc, size)
<1> SUFFICES ASSUME NEW tc \in Int, NEW size \in Nat PROVE KeepsClass(tc, size)
  OBVIOUS
<1>1. PICK class : class = IF tc \in 0 .. 3 THEN tc ELSE 0
  OBVIOUS
<1>2. PICK frame : frame = DataFrame(tc, size)
  OBVIOUS
<1>3. /\ frame.len \in Nat /\ ~(frame.len < 14) /\ frame.ethertype = ETHERTYPE_DATA
  BY <1>2 DEF DataFrame
<1>4. ClassOf(frame) % 256 = class
  BY <1>1, <1>2, ClassWritten
<1>5. Tunnelled(frame) = [ethertype |-> ETHERTYPE_DATA, tc |-> class, payload |-> frame]
  BY <1>3, <1>4 DEF Tunnelled
<1>6. PICK tunnelled : tunnelled = [ethertype |-> ETHERTYPE_DATA, tc |-> class, payload |-> frame]
  OBVIOUS
<1>7. Routed(tunnelled) = [to |-> "every port", tc |-> Clamp(class)]
  BY <1>6 DEF Routed, ETHERTYPE_DATA, ETHERTYPE_GPTP
<1>8. Received(tunnelled, FALSE) = [to |-> "data_handler", frame |-> frame, tc |-> class]
  BY <1>6 DEF Received, ETHERTYPE_DATA, ETHERTYPE_GPTP
<1>9. Received(tunnelled, TRUE) = [to |-> "tap", frame |-> frame]
  BY <1>6 DEF Received
<1> QED
  BY <1>1, <1>2, <1>5, <1>6, <1>7, <1>8, <1>9 DEF KeepsClass

-----------------------------------------------------------------------------
(***************************************************************************)
(* Messages.                                                               *)
(***************************************************************************)
FieldTypes == {"B", "H", "I", "q", "32s"}

LEMMA WidthFacts == \A f \in FieldTypes : Width(f) \in Nat \ {0}
  BY IdBytesAssumption DEF FieldTypes, Width

LEMMA BytesFacts ==
  ASSUME NEW layout \in Seq(FieldTypes), layout # << >>
  PROVE  Bytes(layout) \in Nat \ {0}
<1>1. PICK n \in Nat : n = Len(layout) /\ n > 0
  BY EmptySeq
<1>2. PICK w : w = [i \in 1 .. n |-> Width(layout[i])]
  OBVIOUS
<1>3. \A i \in 1 .. n : w[i] = Width(layout[i]) /\ w[i] \in Nat \ {0}
  <2>1. \A i \in 1 .. n : layout[i] \in FieldTypes
    BY <1>1, ElementOfSeq
  <2> QED
    BY <1>2, <2>1, WidthFacts
<1> DEFINE SumUpTo(e) == e = [i \in 0 .. n |-> IF i = 0 THEN 0 ELSE e[i - 1] + Width(layout[i])]
<1>4. ASSUME NEW e PROVE Laid(e, w, n) <=> SumUpTo(e)
  BY <1>3 DEF Laid
<1>5. \E e : Laid(e, w, n)
  BY LaidExists
<1>6. PICK e : SumUpTo(e) /\ Bytes(layout) = e[n]
  <2>1. PICK f : f = CHOOSE e : SumUpTo(e)
    OBVIOUS
  <2>2. Bytes(layout) = f[n]
    BY <1>1, <2>1 DEF Bytes
  <2> HIDE DEF SumUpTo
  <2> QED
    BY <1>4, <1>5, <2>1, <2>2
<1> HIDE DEF SumUpTo
<1>7. Laid(e, w, n)
  BY <1>4, <1>6
<1>8. e[0] = 0 /\ \A i \in 0 .. n : e[i] \in Nat
  BY <1>3, <1>7, LaidEnds
<1>9. e[0] < e[n]
  BY <1>1, <1>3, <1>7, LaidIncrease
<1> QED
  BY <1>1, <1>6, <1>8, <1>9

\* A name without zeros that fits comes out of its bytes as it went in.
LEMMA NameKept ==
  ASSUME NEW name \in Seq(Nat \ {0}), Len(name) <= IdBytes
  PROVE  DecodeName(EncodeName(name)) = name
<1>1. PICK n \in Nat : n = Len(name) /\ n <= IdBytes
  OBVIOUS
<1>2. \A i \in 1 .. n : name[i] \in Nat \ {0}
  BY <1>1, ElementOfSeq
<1>3. PICK raw : raw = EncodeName(name)
  OBVIOUS
<1>4. \A i \in 1 .. IdBytes : raw[i] = IF i <= n THEN name[i] ELSE 0
  BY <1>1, <1>3 DEF EncodeName
<1>5. {0} \union {i \in 1 .. IdBytes : raw[i] # 0} = 0 .. n
  BY <1>1, <1>2, <1>4, IdBytesAssumption
<1>6. Max(0 .. n) = n
  BY DEF Max
<1>7. SubSeq(raw, 1, n) = name
  <2>1. SubSeq(raw, 1, n) = [i \in 1 .. n |-> raw[i]]
    BY <1>1
  <2>2. \A i \in 1 .. n : raw[i] = name[i]
    BY <1>1, <1>4, IdBytesAssumption
  <2>3. name = [i \in 1 .. n |-> name[i]]
    BY <1>1
  <2> QED
    BY <2>1, <2>2, <2>3
<1> QED
  BY <1>3, <1>5, <1>6, <1>7 DEF DecodeName

LEMMA TypeNumbers == Types = {1, 2, 3, 4, 5, 16, 17, 32, 48}
<1>1. DOMAIN MsgType =
        {"SYNC", "FOLLOW_UP", "PDELAY_REQ", "PDELAY_RESP", "PDELAY_RESP_FU",
         "PROBE_REQ", "PROBE_RESP", "ANNOUNCE", "DATA"}
  BY DEF MsgType
<1> QED
  BY <1>1 DEF Types, MsgType

Layout(type) == HEADER_FMT \o Body(type)

LEMMA LayoutFacts ==
  ASSUME NEW type \in Types
  PROVE  /\ Body(type) \in Seq(FieldTypes) /\ Layout(type) \in Seq(FieldTypes)
         /\ Len(Layout(type)) = 3 + Len(Body(type))
         /\ Layout(type)[1] = "B" /\ Layout(type)[2] = "I" /\ Layout(type)[3] = "32s"
         /\ \A i \in 1 .. Len(Body(type)) : Layout(type)[3 + i] = Body(type)[i]
         /\ type = 48 => Body(type) = <<"B", "H">>
<1>1. /\ Body(1) = <<"q">> /\ Body(2) = <<"q", "q">> /\ Body(3) = <<"q">>
      /\ Body(4) = <<"q", "q", "32s">> /\ Body(5) = <<"q", "q", "32s">>
      /\ Body(16) = <<"q">> /\ Body(17) = <<"q", "q", "q">>
      /\ Body(32) = <<"I", "B">> /\ Body(48) = <<"B", "H">>
  BY DEF Body, MsgType, SyncMsg, FollowUpMsg, PdelayReqMsg, PdelayRespMsg,
     PdelayRespFUMsg, ProbeReqMsg, ProbeRespMsg, AnnounceMsg, DataMsg
<1>2. PICK b : b = Body(type)
  OBVIOUS
<1>3. b \in Seq(FieldTypes) /\ (type = 48 => b = <<"B", "H">>)
  <2>1. b \in {<<"q">>, <<"q", "q">>, <<"q", "q", "32s">>, <<"q", "q", "q">>,
                <<"I", "B">>, <<"B", "H">>}
    BY <1>1, <1>2, TypeNumbers
  <2>2. /\ <<"q">> \in Seq(FieldTypes) /\ <<"q", "q">> \in Seq(FieldTypes)
        /\ <<"q", "q", "32s">> \in Seq(FieldTypes) /\ <<"q", "q", "q">> \in Seq(FieldTypes)
        /\ <<"I", "B">> \in Seq(FieldTypes) /\ <<"B", "H">> \in Seq(FieldTypes)
    BY DEF FieldTypes
  <2> QED
    BY <1>1, <1>2, <2>1, <2>2
<1>4. PICK h : h = HEADER_FMT
  OBVIOUS
<1>5. h \in Seq(FieldTypes) /\ Len(h) = 3 /\ h[1] = "B" /\ h[2] = "I" /\ h[3] = "32s"
  BY <1>4 DEF HEADER_FMT, FieldTypes
<1>6. /\ h \o b \in Seq(FieldTypes) /\ Len(h \o b) = 3 + Len(b)
      /\ (h \o b)[1] = "B" /\ (h \o b)[2] = "I" /\ (h \o b)[3] = "32s"
      /\ \A i \in 1 .. Len(b) : (h \o b)[3 + i] = b[i]
  <2>1. PICK n \in Nat : n = Len(b)
    BY <1>3
  <2>2. PICK S : S = FieldTypes
    OBVIOUS
  <2>3. PICK c : c = h \o b
    OBVIOUS
  <2>4. /\ c \in Seq(S) /\ Len(c) = Len(h) + Len(b)
        /\ \A i \in 1 .. Len(h) + Len(b) :
             c[i] = IF i <= Len(h) THEN h[i] ELSE b[i - Len(h)]
    BY <1>3, <1>5, <2>2, <2>3, ConcatProperties
  <2>5. \A i \in 1 .. 3 + n : c[i] = IF i <= 3 THEN h[i] ELSE b[i - 3]
    BY <1>5, <2>1, <2>4
  <2>6. \A i \in 1 .. n : c[3 + i] = b[i]
    BY <2>5
  <2> QED
    BY <1>5, <2>1, <2>2, <2>3, <2>4, <2>5, <2>6
<1> QED
  BY <1>2, <1>3, <1>4, <1>6 DEF Layout

\* Values as a sender gives them: a name has no zeros and fits, the payload of a
\* DATA message is as long as its last field says, the others have none.
WellFormed(msg) ==
  /\ msg.fields[1] \in Types
  /\ \E n \in Nat :
       /\ n = Len(Layout(msg.fields[1])) /\ n >= 3
       /\ msg.fields = [i \in 1 .. n |-> msg.fields[i]]
       /\ \A i \in 1 .. n : Layout(msg.fields[1])[i] = "32s" =>
            msg.fields[i] \in Seq(Nat \ {0}) /\ Len(msg.fields[i]) <= IdBytes
  /\ msg = [fields |-> msg.fields, payload |-> msg.payload]
  /\ msg.payload \in Nat
  /\ IF msg.fields[1] = MsgType.DATA THEN msg.payload = msg.fields[5] ELSE msg.payload = 0

\* What is unpacked of a whole packet, whatever follows it, is what was packed.
LEMMA RoundTrip ==
  ASSUME NEW msg, WellFormed(msg), NEW kept \in Nat, kept >= Encode(msg).bytes
  PROVE  Unpack([Encode(msg) EXCEPT !.bytes = kept]) = msg
<1>1. PICK type \in Types : type = msg.fields[1]
  BY DEF WellFormed
<1>2. PICK layout : layout = Layout(type)
  OBVIOUS
<1>3. PICK n \in Nat : n = Len(layout) /\ n >= 3
  BY <1>1, <1>2 DEF WellFormed
<1>4. PICK f : f = msg.fields
  OBVIOUS
<1>5. /\ f = [i \in 1 .. n |-> f[i]] /\ f[1] = type
      /\ \A i \in 1 .. n : layout[i] = "32s" => f[i] \in Seq(Nat \ {0}) /\ Len(f[i]) <= IdBytes
  BY <1>1, <1>2, <1>3, <1>4 DEF WellFormed
<1>6. PICK p : p = [i \in 1 .. n |-> Packed(layout[i], f[i])]
  OBVIOUS
<1>7. PICK b \in Nat \ {0} : b = Bytes(layout)
  <2>1. layout \in Seq(FieldTypes)
    BY <1>2, LayoutFacts
  <2>2. layout # << >>
    BY <1>3
  <2> QED
    BY <2>1, <2>2, BytesFacts
<1>8. Encode(msg) = [bytes |-> b + msg.payload, fields |-> p]
  BY <1>1, <1>2, <1>3, <1>4, <1>6, <1>7 DEF Encode, Layout
<1>9. PICK packet : packet = [Encode(msg) EXCEPT !.bytes = kept]
  OBVIOUS
<1>10. packet.bytes = kept /\ packet.fields = p
  BY <1>8, <1>9
<1>11. layout[1] = "B" /\ layout[2] = "I"
  BY <1>2, LayoutFacts
<1>12. p[1] = type
  BY <1>3, <1>5, <1>6, <1>11 DEF Packed
<1>13. ASSUME NEW i \in 1 .. n PROVE Unpacked(layout[i], p[i]) = f[i]
  <2>1. p[i] = Packed(layout[i], f[i])
    BY <1>6
  <2>2. CASE layout[i] = "32s"
    BY <1>5, <2>1, <2>2, NameKept DEF Packed, Unpacked
  <2>3. CASE layout[i] # "32s"
    BY <2>1, <2>3 DEF Packed, Unpacked
  <2> QED
    BY <2>2, <2>3
<1>14. [i \in 1 .. n |-> Unpacked(layout[i], p[i])] = f
  <2>1. PICK g : g = [i \in 1 .. n |-> Unpacked(layout[i], p[i])]
    OBVIOUS
  <2>2. g = [i \in 1 .. n |-> f[i]]
    BY <1>13, <2>1
  <2> QED
    BY <1>5, <2>1, <2>2
<1>15. msg.payload \in Nat /\ kept >= b + msg.payload
  BY <1>8 DEF WellFormed
<1>16. (IF type = MsgType.DATA THEN Min({kept - b, p[5]}) ELSE 0) = msg.payload
  <2>1. CASE type = MsgType.DATA
    <3>1. layout[5] = "H" /\ n >= 5
      <4>1. type = 48
        BY <2>1 DEF MsgType
      <4>2. Body(type) = <<"B", "H">> /\ Len(layout) = 3 + Len(Body(type))
            /\ \A i \in 1 .. Len(Body(type)) : layout[3 + i] = Body(type)[i]
        BY <1>2, <4>1, LayoutFacts
      <4>3. Len(<<"B", "H">>) = 2 /\ <<"B", "H">>[2] = "H"
        OBVIOUS
      <4> QED
        BY <1>3, <4>2, <4>3
    <3>2. f[5] = msg.payload
      BY <1>1, <1>4, <2>1 DEF WellFormed
    <3>3. p[5] = msg.payload
      BY <1>6, <3>1, <3>2 DEF Packed
    <3>p. PICK y \in Nat : y = msg.payload
      BY <1>15
    <3>q. PICK x \in Int : x = kept - b
      OBVIOUS
    <3>4. /\ x \in Nat /\ y \in Nat /\ y <= x
          /\ x = kept - b /\ y = msg.payload
      BY <1>15, <3>p, <3>q
    <3>5. Min({x, y}) = y
      BY <3>4 DEF Min
    <3> QED
      BY <2>1, <3>3, <3>4, <3>5
  <2>2. CASE type # MsgType.DATA
    BY <1>1, <2>2 DEF WellFormed
  <2> QED
    BY <2>1, <2>2
<1>17. Unpack(packet) = [fields |-> f, payload |-> msg.payload]
  <2>1. HEADER_FMT \o Body(type) = layout
    BY <1>2 DEF Layout
  <2> QED
    BY <1>3, <1>7, <1>10, <1>12, <1>14, <1>16, <2>1 DEF Unpack
<1>18. msg = [fields |-> f, payload |-> msg.payload]
  BY <1>4 DEF WellFormed
<1> QED
  BY <1>9, <1>17, <1>18

\* A whole message is handled as it was sent, a response where its sender is known;
\* one that is cut is handled by nobody, and nobody handles DATA.
LEMMA Handled ==
  ASSUME NEW msg, WellFormed(msg), NEW kept \in Nat, NEW sessions
  PROVE  LET sender == msg.fields[3]
             packet == Encode(msg)
             got == Dispatch([packet EXCEPT !.bytes = kept], sessions)
             response == msg.fields[1] \in {MsgType.PDELAY_RESP, MsgType.PDELAY_RESP_FU}
             heard == /\ kept >= packet.bytes /\ msg.fields[1] # MsgType.DATA
                      /\ response => sender \in sessions
         IN  /\ heard <=> got # NoCall
             /\ heard => got.msg = msg /\ got.session = IF response THEN sender ELSE << >>
<1>1. PICK type \in Types : type = msg.fields[1]
  BY DEF WellFormed
<1>2. type \in {1, 2, 3, 4, 5, 16, 17, 32, 48}
  BY TypeNumbers
<1>3. PICK packet : packet = [Encode(msg) EXCEPT !.bytes = kept]
  OBVIOUS
<1>4. PICK b \in Nat \ {0} : b = MessageSize(type)
  <2>1. Layout(type) \in Seq(FieldTypes) /\ Layout(type) # << >>
    <3>1. Layout(type) \in Seq(FieldTypes) /\ Len(Layout(type)) # 0
      BY LayoutFacts, <1>1 DEF WellFormed
    <3> QED
      BY <3>1
  <2> QED
    BY <2>1, BytesFacts DEF MessageSize, Layout
<1>5. /\ packet.bytes = kept /\ packet.fields[1] = type
      /\ Encode(msg).bytes = b + msg.payload
  <2>1. PICK layout : layout = Layout(type)
    OBVIOUS
  <2>2. PICK n \in Nat : n = Len(layout) /\ n >= 3
    BY <1>1, <2>1 DEF WellFormed
  <2>3. Encode(msg) = [bytes |-> b + msg.payload,
                       fields |-> [i \in 1 .. n |-> Packed(layout[i], msg.fields[i])]]
    BY <1>1, <1>4, <2>1, <2>2 DEF Encode, Layout, MessageSize
  <2>4. Packed(layout[1], msg.fields[1]) = type
    BY <1>1, <2>1, LayoutFacts DEF Packed
  <2> QED
    BY <1>3, <2>2, <2>3, <2>4
<1>6. CASE kept >= Encode(msg).bytes
  <2>1. kept >= b
    BY <1>5, <1>6 DEF WellFormed
  <2>2. Decode(packet) = msg
    <3>1. Decode(packet) = Unpack(packet)
      BY <1>4, <1>5, <2>1 DEF Decode
    <3> QED
      BY <1>3, <1>6, <3>1, RoundTrip
  <2>3. /\ type = 48 => Dispatch(packet, sessions) = NoCall
        /\ type \in {4, 5} /\ msg.fields[3] \notin sessions => Dispatch(packet, sessions) = NoCall
        /\ type \in {4, 5} /\ msg.fields[3] \in sessions =>
             \E h \in {"on_resp", "on_resp_fu"} : Dispatch(packet, sessions)
               = [handler |-> h, session |-> msg.fields[3], msg |-> msg]
        /\ type \in {1, 2, 3, 16, 17, 32} =>
             \E h \in {"on_req", "_on_sync", "_on_follow_up", "_on_probe_req", "_on_probe_resp", "_on_announce"} :
               Dispatch(packet, sessions) = [handler |-> h, session |-> << >>, msg |-> msg]
    BY <1>1, <1>2, <2>2 DEF Dispatch, MsgType
  <2> QED
    BY <1>1, <1>2, <1>3, <1>6, <2>3 DEF NoCall, MsgType
<1>7. CASE ~ kept >= Encode(msg).bytes
  <2>1. type = 48 \/ kept < b
    <3>1. SUFFICES ASSUME type # 48 PROVE kept < b
      OBVIOUS
    <3>2. msg.payload = 0
      BY <1>1, <3>1 DEF WellFormed, MsgType
    <3> QED
      BY <1>5, <1>7, <3>2
  <2>2. Dispatch(packet, sessions) = NoCall
    <3>1. CASE kept < b
      <4>1. Decode(packet) = Nothing
        BY <1>5, <1>4, <3>1 DEF Decode
      <4> QED
        BY <4>1 DEF Dispatch, Nothing, MsgType
    <3>2. CASE type = 48 /\ kept >= b
      <4>1. Decode(packet) = Unpack(packet)
        BY <1>4, <1>5, <3>2 DEF Decode
      <4>2. Unpack(packet).fields[1] = 48
        <5>1. PICK layout : layout = Layout(type)
          OBVIOUS
        <5>2. PICK n \in Nat : n = Len(layout) /\ n >= 3
          BY <1>1, <5>1 DEF WellFormed
        <5>3. Unpack(packet).fields = [i \in 1 .. n |-> Unpacked(layout[i], packet.fields[i])]
          BY <1>5, <5>1, <5>2 DEF Unpack, Layout
        <5>4. Unpacked(layout[1], packet.fields[1]) = type
          BY <1>5, <5>1, LayoutFacts DEF Unpacked
        <5> QED
          BY <3>2, <5>2, <5>3, <5>4
      <4> QED
        BY <4>1, <4>2 DEF Dispatch, MsgType
    <3> QED
      BY <1>4, <2>1, <3>1, <3>2
  <2> QED
    BY <1>3, <1>7, <2>2
<1> QED
  BY <1>6, <1>7

\* The messages of a behaviour are of this kind, as far as their names fit.
LEMMA ValuesFit ==
  ASSUME NEW field \in FieldTypes, NEW choice \in {1, 2}
  PROVE  IF field = "32s" THEN Value(field, choice) \in Seq(Nat \ {0}) /\ Len(Value(field, choice)) <= IdBytes
         ELSE Value(field, choice) \in Nat
<1>b. IdBytes \in Nat /\ IdBytes >= 2
  BY IdBytesAssumption, PartsAssumption
<1>1. CASE field = "32s"
  <2>1. CASE choice = 1
    <3>1. Value(field, choice) = <<1>>
      BY <1>1, <2>1 DEF Value
    <3>2. PICK v : v = <<1>>
      OBVIOUS
    <3>3. v \in Seq(Nat \ {0}) /\ Len(v) = 1
      BY <3>2
    <3>4. Value(field, choice) = v
      BY <3>1, <3>2
    <3>5. Len(v) <= IdBytes
      BY <1>b, <3>3
    <3> QED
      BY <1>1, <3>3, <3>4, <3>5
  <2>2. CASE choice = 2
    <3>1. Value(field, choice) = <<2, 1>>
      BY <1>1, <2>2 DEF Value
    <3>2. PICK v : v = <<2, 1>>
      OBVIOUS
    <3>3. v \in Seq(Nat \ {0}) /\ Len(v) = 2
      BY <3>2
    <3>4. Value(field, choice) = v
      BY <3>1, <3>2
    <3>5. Len(v) <= IdBytes
      BY <1>b, <3>3
    <3> QED
      BY <1>1, <3>3, <3>4, <3>5
  <2> QED
    BY <2>1, <2>2
<1>2. CASE field # "32s"
  BY <1>2 DEF Value
<1> QED
  BY <1>1, <1>2

LEMMA MessagesFit ==
  ASSUME NEW msg \in SomeMessages
  PROVE  /\ Encode(msg).bytes \in Nat
         /\ Len(msg.fields[3]) <= IdBytes => WellFormed(msg)
<1>t. PICK type \in Types :
        \E name \in Names, c \in [1 .. Len(Body(type)) -> {1, 2}] : msg = MessageOf(type, name, c)
  BY DEF SomeMessages
<1>1. PICK name \in Names, c \in [1 .. Len(Body(type)) -> {1, 2}] : msg = MessageOf(type, name, c)
  BY <1>t
<1>2. PICK body \in Seq(FieldTypes) : body = Body(type)
  BY LayoutFacts
<1>3. PICK k \in Nat : k = Len(body)
  OBVIOUS
<1>4. PICK layout \in Seq(FieldTypes) : layout = Layout(type)
  BY LayoutFacts
<1>5. /\ Len(layout) = 3 + k /\ layout[1] = "B" /\ layout[2] = "I" /\ layout[3] = "32s"
      /\ \A i \in 1 .. k : layout[3 + i] = body[i]
  BY <1>2, <1>3, <1>4, LayoutFacts
<1>6. PICK v : v = [i \in 1 .. k |-> Value(body[i], c[i])]
  OBVIOUS
<1>7. \A i \in 1 .. k : IF body[i] = "32s" THEN v[i] \in Seq(Nat \ {0}) /\ Len(v[i]) <= IdBytes
                        ELSE v[i] \in Nat
  <2>1. ASSUME NEW i \in 1 .. k PROVE body[i] \in FieldTypes /\ c[i] \in {1, 2} /\ v[i] = Value(body[i], c[i])
    BY <1>1, <1>2, <1>3, <1>6, ElementOfSeq
  <2> QED
    BY <2>1, ValuesFit
<1>8. PICK f : f = <<type, 5, name>> \o v
  OBVIOUS
<1>9. /\ f = [i \in 1 .. 3 + k |-> f[i]]
      /\ f[1] = type /\ f[2] = 5 /\ f[3] = name
      /\ \A i \in 1 .. k : f[3 + i] = v[i]
  <2>1. PICK S : S = {type, 5, name} \union {v[i] : i \in 1 .. k}
    OBVIOUS
  <2>2. PICK h : h = <<type, 5, name>>
    OBVIOUS
  <2>3. h \in Seq(S) /\ Len(h) = 3 /\ h[1] = type /\ h[2] = 5 /\ h[3] = name
    BY <2>1, <2>2
  <2>4. v \in Seq(S) /\ Len(v) = k
    BY <1>6, <2>1
  <2>5. /\ f \in Seq(S) /\ Len(f) = Len(h) + Len(v)
        /\ \A i \in 1 .. Len(h) + Len(v) : f[i] = IF i <= Len(h) THEN h[i] ELSE v[i - Len(h)]
    BY <1>8, <2>2, <2>3, <2>4, ConcatProperties
  <2>6. \A i \in 1 .. 3 + k : f[i] = IF i <= 3 THEN h[i] ELSE v[i - 3]
    BY <2>3, <2>4, <2>5
  <2>7. \A i \in 1 .. k : f[3 + i] = v[i]
    BY <2>6
  <2>8. f = [i \in 1 .. 3 + k |-> f[i]]
    BY <2>3, <2>4, <2>5
  <2>9. f[1] = h[1] /\ f[2] = h[2] /\ f[3] = h[3]
    <3>1. 1 \in 1 .. 3 + k /\ 2 \in 1 .. 3 + k /\ 3 \in 1 .. 3 + k
      OBVIOUS
    <3> QED
      BY <2>6, <3>1
  <2>10. f[1] = type /\ f[2] = 5 /\ f[3] = name
    BY <2>3, <2>9
  <2> QED
    BY <2>7, <2>8, <2>10
<1>10. PICK m : m = IF type = MsgType.DATA THEN Value("H", c[2]) ELSE 0
  OBVIOUS
<1>11. msg = [fields |-> f, payload |-> m]
  <2>1. DOMAIN c = 1 .. k
    BY <1>1, <1>2, <1>3
  <2> QED
    BY <1>1, <1>2, <1>6, <1>8, <1>10, <2>1 DEF MessageOf
<1>12. m \in Nat /\ (IF type = MsgType.DATA THEN m = f[5] ELSE m = 0)
  <2>1. CASE type = MsgType.DATA
    <3>1. body = <<"B", "H">>
      BY <1>2, <2>1, LayoutFacts DEF MsgType
    <3>2. k = 2 /\ body[2] = "H"
      BY <1>3, <3>1
    <3>3. v[2] = Value("H", c[2]) /\ v[2] \in Nat
      BY <1>6, <1>7, <3>2
    <3>4. f[3 + 2] = v[2]
      BY <1>9, <3>2
    <3> QED
      BY <1>10, <2>1, <3>3, <3>4
  <2>2. CASE type # MsgType.DATA
    BY <1>10, <2>2
  <2> QED
    BY <2>1, <2>2
<1>13. Encode(msg).bytes \in Nat
  <2>1. layout # << >>
    BY <1>5
  <2>2. PICK b \in Nat : b = Bytes(layout)
    BY <2>1, BytesFacts
  <2>3. Encode(msg).bytes = b + m
    BY <1>4, <1>9, <1>11, <2>2 DEF Encode, Layout
  <2> QED
    BY <1>12, <2>3
<1>14. ASSUME Len(name) <= IdBytes PROVE WellFormed(msg)
  <2>1. name \in Seq(Nat \ {0})
    <3>1. PICK n \in 0 .. IdBytes + 1 : name \in [1 .. n -> {1, 2}]
      BY DEF Names, BoundedSeq, SeqOf
    <3>2. n \in Nat /\ name \in [1 .. n -> Nat \ {0}]
      BY <3>1, IdBytesAssumption
    <3> QED
      BY <3>2
  <2>2. ASSUME NEW i \in 1 .. 3 + k, layout[i] = "32s"
        PROVE  f[i] \in Seq(Nat \ {0}) /\ Len(f[i]) <= IdBytes
    <3>1. CASE i \in 1 .. 3
      BY <1>5, <1>9, <1>14, <2>1, <2>2, <3>1
    <3>2. CASE i \notin 1 .. 3
      <4>1. PICK j \in 1 .. k : i = 3 + j
        <5>1. i - 3 \in 1 .. k
          BY <3>2
        <5> QED
          BY <5>1
      <4>2. layout[3 + j] = body[j] /\ f[3 + j] = v[j]
        BY <1>5, <1>9
      <4> QED
        BY <1>7, <2>2, <4>1, <4>2
    <3> QED
      BY <3>1, <3>2
  <2>3. PICK n \in Nat : n = 3 + k
    OBVIOUS
  <2>4. msg.fields = f /\ msg.payload = m
    BY <1>11
  <2>5. /\ n = Len(layout) /\ n >= 3 /\ f = [i \in 1 .. n |-> f[i]]
        /\ \A i \in 1 .. n : layout[i] = "32s" => f[i] \in Seq(Nat \ {0}) /\ Len(f[i]) <= IdBytes
    BY <1>5, <1>9, <2>2, <2>3
  <2>6. layout = Layout(msg.fields[1]) /\ msg.fields[1] = type
    BY <1>4, <1>9, <2>4
  <2>7. msg = [fields |-> msg.fields, payload |-> msg.payload]
    BY <1>11
  <2> QED
    BY <1>12, <2>4, <2>5, <2>6, <2>7 DEF WellFormed
<1> QED
  BY <1>9, <1>11, <1>13, <1>14

-----------------------------------------------------------------------------
(***************************************************************************)
(* Metrics.                                                                *)
(***************************************************************************)
Before(values, i) ==
  {j \in DOMAIN values : values[j] < values[i] \/ (values[j] = values[i] /\ j <= i)}

LEMMA BeforeFacts ==
  ASSUME NEW values \in Seq(Int), NEW i \in DOMAIN values
  PROVE  /\ DOMAIN values = 1 .. Len(values) /\ Len(values) \in Nat
         /\ \A j \in DOMAIN values : values[j] \in Int
         /\ IsFiniteSet(DOMAIN values) /\ Cardinality(DOMAIN values) = Len(values)
         /\ IsFiniteSet(Before(values, i)) /\ i \in Before(values, i)
         /\ Place(values, i) = Cardinality(Before(values, i))
         /\ Place(values, i) \in 1 .. Len(values)
<1>1. /\ DOMAIN values = 1 .. Len(values) /\ Len(values) \in Nat
      /\ \A j \in DOMAIN values : values[j] \in Int
  OBVIOUS
<1>2. IsFiniteSet(DOMAIN values) /\ Cardinality(DOMAIN values) = Len(values)
  <2>1. PICK n \in Nat : n = Len(values)
    BY <1>1
  <2>2. IsFiniteSet(1 .. n) /\ Cardinality(1 .. n) = n
    BY FS_Interval
  <2> QED
    BY <1>1, <2>1, <2>2
<1>3. Before(values, i) \subseteq DOMAIN values /\ i \in Before(values, i)
  BY <1>1 DEF Before
<1>4. IsFiniteSet(Before(values, i)) /\ Cardinality(Before(values, i)) <= Len(values)
  BY <1>2, <1>3, FS_Subset
<1>5. Cardinality(Before(values, i)) \in Nat /\ Cardinality(Before(values, i)) # 0
  BY <1>3, <1>4, FS_CardinalityType, FS_EmptySet
<1>6. Place(values, i) = Cardinality(Before(values, i))
  BY DEF Place, Before
<1> QED
  BY <1>1, <1>2, <1>3, <1>4, <1>5, <1>6

\* No two values have one place.
LEMMA PlacesDiffer ==
  ASSUME NEW values \in Seq(Int), NEW i \in DOMAIN values, NEW j \in DOMAIN values,
         values[i] < values[j] \/ (values[i] = values[j] /\ i < j)
  PROVE  Place(values, i) # Place(values, j)
<1>1. /\ DOMAIN values \subseteq Int
      /\ \A m \in DOMAIN values : values[m] \in Int
  OBVIOUS
<1>2. Before(values, i) \subseteq Before(values, j) /\ j \notin Before(values, i)
  BY <1>1 DEF Before
<1>3. j \in Before(values, j) /\ IsFiniteSet(Before(values, j))
  BY BeforeFacts
<1>4. Cardinality(Before(values, i)) # Cardinality(Before(values, j))
  BY <1>2, <1>3, FS_Subset
<1> QED
  BY <1>4, BeforeFacts

\* Every place is somebody's.
LEMMA SortedFacts ==
  ASSUME NEW values \in Seq(Int), NEW k \in DOMAIN values
  PROVE  /\ Len(Sorted(values)) = Len(values)
         /\ \E i \in DOMAIN values : Place(values, i) = k /\ Sorted(values)[k] = values[i]
<1> DEFINE place == [i \in DOMAIN values |-> Place(values, i)]
<1>1. DOMAIN values = 1 .. Len(values) /\ Len(values) \in Nat
  OBVIOUS
<1>2. place \in Injection(DOMAIN values, DOMAIN values)
  <2>1. place \in [DOMAIN values -> DOMAIN values]
    BY <1>1, BeforeFacts
  <2>2. ASSUME NEW i \in DOMAIN values, NEW j \in DOMAIN values, place[i] = place[j], i # j
        PROVE  FALSE
    <3>1. values[i] \in Int /\ values[j] \in Int /\ i \in Int /\ j \in Int
      OBVIOUS
    <3>2. Place(values, i) = Place(values, j)
      BY <2>2
    <3>3. \/ values[i] < values[j] \/ (values[i] = values[j] /\ i < j)
          \/ values[j] < values[i] \/ (values[j] = values[i] /\ j < i)
      BY <2>2, <3>1
    <3> QED
      BY <3>2, <3>3, PlacesDiffer
  <2> QED
    BY <2>1, <2>2 DEF Injection, IsInjective
<1>3. IsFiniteSet(DOMAIN values)
  BY <1>1, FS_Interval
<1>4. place \in Surjection(DOMAIN values, DOMAIN values)
  BY <1>2, <1>3, FS_Injection
<1>5. \E i \in DOMAIN values : place[i] = k
  BY <1>4 DEF Surjection
<1>6. PICK i \in DOMAIN values : i = CHOOSE m \in DOMAIN values : place[m] = k
  BY <1>5
<1>7. place[i] = k
  BY <1>5, <1>6
<1>8. /\ DOMAIN Sorted(values) = 1 .. Len(values)
      /\ Sorted(values)[k] = values[CHOOSE m \in DOMAIN values : place[m] = k]
      /\ Sorted(values) \in [1 .. Len(values) -> {values[CHOOSE m \in DOMAIN values : place[m] = n] : n \in DOMAIN values}]
  BY <1>1 DEF Sorted
<1>9. Len(Sorted(values)) = Len(values)
  BY <1>1, <1>8, LenProperties
<1> QED
  BY <1>6, <1>7, <1>8, <1>9

\* What is reported is a percentile of the values, whatever their number.
LEMMA AtQuantile ==
  ASSUME NEW values \in Seq(Int), Len(values) > 0, NEW percent \in 1 .. 99
  PROVE  Quantile(values, At(Sorted(values), percent), percent)
<1>1. PICK n \in Nat : n = Len(values)
  OBVIOUS
<1>m. PICK m \in Nat : m = percent * n /\ m <= 100 * n
  <2>1. percent * n \in Nat /\ percent * n <= 100 * n
    BY SMT
  <2> QED
    BY <2>1
<1>2. PICK p \in 0 .. n : p = m \div 100 /\ 100 * p <= m /\ m < 100 * (p + 1)
  <2>1. m \div 100 \in 0 .. n
    BY <1>m
  <2> QED
    BY <2>1
<1>3. PICK index : index = Index(n, percent)
  OBVIOUS
<1>4. index \in {p, n - 1} /\ index <= p /\ index <= n - 1
  <2>1. index = CHOOSE x \in {p, n - 1} : \A y \in {p, n - 1} : x <= y
    BY <1>m, <1>2, <1>3 DEF Index, Min
  <2>2. \E x \in {p, n - 1} : \A y \in {p, n - 1} : x <= y
    BY <1>1, <1>2
  <2> QED
    BY <2>1, <2>2
<1>5. index \in 0 .. n - 1 /\ index + 1 \in DOMAIN values
  BY <1>1, <1>2, <1>4
<1>6. PICK i \in DOMAIN values : Place(values, i) = index + 1 /\ Sorted(values)[index + 1] = values[i]
  BY <1>5, SortedFacts
<1>7. At(Sorted(values), percent) = values[i]
  BY <1>1, <1>3, <1>5, <1>6, SortedFacts DEF At
<1> DEFINE below == {j \in DOMAIN values : values[j] < values[i]}
           notAbove == {j \in DOMAIN values : values[j] <= values[i]}
<1>8. Cardinality(Before(values, i)) = index + 1 /\ IsFiniteSet(Before(values, i)) /\ i \in Before(values, i)
  BY <1>6, BeforeFacts
<1>9. Cardinality(below) \in Nat /\ Cardinality(below) <= index
  <2>1. /\ IsFiniteSet(Before(values, i) \ {i})
        /\ Cardinality(Before(values, i) \ {i}) = Cardinality(Before(values, i)) - 1
    BY <1>8, FS_RemoveElement
  <2>2. below \subseteq Before(values, i) \ {i}
    BY BeforeFacts DEF Before
  <2>3. IsFiniteSet(below) /\ Cardinality(below) <= Cardinality(Before(values, i) \ {i})
    BY <2>1, <2>2, FS_Subset
  <2> QED
    BY <1>5, <1>8, <2>1, <2>3, FS_CardinalityType
<1>10. Cardinality(notAbove) \in Nat /\ Cardinality(notAbove) >= index + 1
  <2>1. Before(values, i) \subseteq notAbove /\ notAbove \subseteq DOMAIN values
    BY BeforeFacts DEF Before
  <2>2. IsFiniteSet(notAbove) /\ Cardinality(Before(values, i)) <= Cardinality(notAbove)
    BY <2>1, BeforeFacts, FS_Subset
  <2> QED
    BY <1>8, <2>2, FS_CardinalityType
<1>11. 100 * Cardinality(below) <= percent * n
  BY <1>m, <1>2, <1>4, <1>5, <1>9
<1>12. 100 * Cardinality(notAbove) >= percent * n
  <2>1. CASE index = p
    BY <1>m, <1>2, <1>10, <2>1
  <2>2. CASE index = n - 1
    BY <1>1, <1>m, <1>10, <2>2
  <2> QED
    BY <1>4, <2>1, <2>2
<1> QED
  BY <1>1, <1>7, <1>11, <1>12 DEF Quantile

LEMMA AbsoluteFacts ==
  ASSUME NEW values \in Seq(Int)
  PROVE  Absolute(values) \in Seq(Int) /\ Len(Absolute(values)) = Len(values)
  BY DEF Absolute

-----------------------------------------------------------------------------
(***************************************************************************)
(* The behaviours of MCParts: what the gate, the frame, the message and    *)
(* the metrics part are given stays what it is.                            *)
(***************************************************************************)
Given ==
  /\ part = "gate" =>
       /\ cfg.gcl \in GateList /\ cfg.cycle_us \in Nat /\ cfg.base_time_ns \in Int
       /\ Validate(cfg) /\ now \in Nat
  /\ part = "frame" => input.tc \in Int /\ input.size \in Nat
  /\ part = "message" =>
       /\ input.kept \in Nat
       /\ Len(input.msg.fields[3]) <= IdBytes => WellFormed(input.msg)
  /\ part = "metrics" => input \in Seq(Int)

LEMMA GivenInit == Init => Given
<1> SUFFICES ASSUME Init PROVE Given
  OBVIOUS
<1>1. CASE part = "gate" /\ cfg \in {c \in Candidates : Validate(c)} /\ now = 0
  <2>1. PICK l \in Lists, n \in 0 .. MaxEntries * MaxDuration, b \in BaseTimes :
          cfg = [gcl |-> l, cycle_us |-> n, base_time_ns |-> b]
    BY <1>1 DEF Candidates
  <2>2. l \in GateList
    <3>1. PICK m \in 0 .. MaxEntries : l \in [1 .. m -> [gates : SUBSET TC, duration_us : 0 .. MaxDuration]]
      BY DEF Lists, BoundedSeq, SeqOf
    <3>2. m \in Nat
      BY PartsAssumption
    <3>3. [gates : SUBSET TC, duration_us : 0 .. MaxDuration]
            \subseteq [gates : SUBSET TC, duration_us : Nat]
      BY PartsAssumption
    <3>4. l \in [1 .. m -> [gates : SUBSET TC, duration_us : Nat]]
      BY <3>1, <3>3
    <3>5. PICK E : E = [gates : SUBSET TC, duration_us : Nat]
      OBVIOUS
    <3>6. l \in Seq(E)
      <4>1. l \in UNION {[1 .. k -> E] : k \in Nat}
        BY <3>2, <3>4, <3>5
      <4> QED
        BY <4>1, SeqDef, Zenon
    <3> QED
      BY <3>5, <3>6 DEF GateList
  <2>3. n \in Nat /\ b \in Int
    <3>1. PICK most \in Int : most = MaxEntries * MaxDuration
      BY PartsAssumption
    <3>2. n \in 0 .. most /\ BaseTimes \subseteq Int
      BY <3>1, PartsAssumption
    <3> QED
      BY <3>2
  <2> QED
    BY <1>1, <2>1, <2>2, <2>3 DEF Given
<1>2. CASE part = "frame" /\ input \in [tc : -1 .. 5, size : PayloadSizes]
  <2>1. input.tc \in Int /\ input.size \in Nat
    <3>1. PICK tc \in -1 .. 5, size \in PayloadSizes : input = [tc |-> tc, size |-> size]
      BY <1>2
    <3> QED
      BY <3>1, PartsAssumption
  <2> QED
    BY <1>2, <2>1 DEF Given
<1>3. CASE part = "message" /\ input \in Arrivals
  <2>1. PICK msg \in SomeMessages : \E kept \in 0 .. Encode(msg).bytes + 1 :
          input = [msg |-> msg, kept |-> kept]
    BY <1>3 DEF Arrivals
  <2>2. PICK b \in Nat : b = Encode(msg).bytes
    BY MessagesFit
  <2>3. PICK kept \in 0 .. b + 1 : input = [msg |-> msg, kept |-> kept]
    BY <2>1, <2>2
  <2>4. input.kept \in Nat /\ input.msg = msg
    BY <2>3
  <2> QED
    BY <1>3, <2>4, MessagesFit DEF Given
<1>4. CASE part = "metrics" /\ input \in Values
  BY <1>4, PartsAssumption DEF Given
<1>5. CASE part \notin {"gate", "frame", "message", "metrics"}
  BY <1>5 DEF Given
<1> QED
  BY <1>1, <1>2, <1>3, <1>4, <1>5 DEF Init

LEMMA GivenNext == Given /\ [Next]_vars => Given'
<1> SUFFICES ASSUME Given, [Next]_vars PROVE Given'
  OBVIOUS
<1>1. /\ UNCHANGED <<part, cfg, input>>
      /\ now' = now \/ now' = now + 1
  BY DEF Next, Pass, Sync, Probe, Reports, Log, own, vars
<1> QED
  BY <1>1 DEF Given

LEMMA AlwaysGiven == Init /\ [][Next]_vars => []Given
  BY GivenInit, GivenNext, PTL

\* For every valid gate list, however long, and at every instant, before the base
\* time too, the loop of _is_gate_open answers what the cycle written out says.
THEOREM TimelineFollowed == Spec => []GateFollowsTimeline
<1>1. Given => GateFollowsTimeline
  BY Followed DEF Given, GateFollowsTimeline
<1> QED
  BY <1>1, AlwaysGiven, PTL DEF Spec

\* Whatever the class, the size of the data and the number of the ports' classes.
THEOREM ClassAlwaysKept == Spec => []ClassKept
<1>1. Given => ClassKept
  BY ClassArrives DEF Given, ClassKept
<1> QED
  BY <1>1, AlwaysGiven, PTL DEF Spec

\* For every type of message and every name that fits, a message that is whole
\* reaches its handler as it was sent, whatever follows it in the packet, and one
\* that is cut anywhere reaches nobody.
THEOREM AlwaysUnderstood == Spec => []Understood
<1>1. ASSUME Given PROVE Understood
  <2>1. SUFFICES ASSUME part = "message", Len(input.msg.fields[3]) <= IdBytes
                 PROVE  Understood
    BY DEF Understood
  <2>2. PICK msg : msg = input.msg
    OBVIOUS
  <2>3. PICK kept \in Nat : kept = input.kept
    BY <1>1, <2>1 DEF Given
  <2>4. WellFormed(msg)
    BY <1>1, <2>1, <2>2 DEF Given
  <2> QED
    BY <2>2, <2>3, <2>4, Handled DEF Understood
<1> QED
  BY <1>1, AlwaysGiven, PTL DEF Spec

\* The percentiles that the endpoint and the drift log report are percentiles, for
\* any number of samples of any values.
THEOREM AlwaysPercentiles == Spec => []Percentiles
<1>1. ASSUME Given PROVE Percentiles
  <2>1. SUFFICES ASSUME part = "metrics", input \in Seq(Int) PROVE Percentiles
    BY <1>1 DEF Percentiles, Given
  <2>2. PICK n \in Nat : n = Len(input)
    BY <2>1
  <2>3. Absolute(input) \in Seq(Int) /\ Len(Absolute(input)) = n
    BY <2>1, <2>2, AbsoluteFacts
  <2>4. ASSUME Report(input) # NoReport
        PROVE  /\ Quantile(Absolute(input), Report(input).p95, 95)
               /\ Quantile(Absolute(input), Report(input).p99, 99)
    <3>1. n >= 3
      BY <2>2, <2>4 DEF Report
    <3>2. /\ Report(input).p95 = At(Sorted(Absolute(input)), 95)
          /\ Report(input).p99 = At(Sorted(Absolute(input)), 99)
      BY <2>2, <3>1 DEF Report
    <3> QED
      BY <2>3, <3>1, <3>2, AtQuantile
  <2>5. ASSUME Stats(input) # NoReport
        PROVE  /\ Quantile(input, Stats(input).p50, 50)
               /\ Quantile(input, Stats(input).p95, 95)
               /\ Quantile(input, Stats(input).p99, 99)
    <3>1. n > 0
      BY <2>2, <2>5 DEF Stats
    <3>2. /\ Stats(input).p50 = At(Sorted(input), 50)
          /\ Stats(input).p95 = At(Sorted(input), 95)
          /\ Stats(input).p99 = At(Sorted(input), 99)
      BY <2>2, <3>1 DEF Stats
    <3> QED
      BY <2>1, <2>2, <3>1, <3>2, AtQuantile
  <2> QED
    BY <2>4, <2>5 DEF Percentiles
<1> QED
  BY <1>1, AlwaysGiven, PTL DEF Spec

-----------------------------------------------------------------------------
(***************************************************************************)
(* AccuracyProbe.                                                          *)
(***************************************************************************)
ProbeRecord ==
  [type : {"req", "resp"}, seq : Nat, at : Nat, ahead : Int, t2 : Nat, t3 : Nat]

ProbeTypes ==
  /\ instant \in Nat /\ ahead \in Int /\ probe_seq \in Nat /\ due \in Int
  /\ \A s \in DOMAIN probe_pending :
       s \in Nat /\ s < probe_seq /\ probe_pending[s] \in Int
  /\ probes \subseteq ProbeRecord

\* A message is under way no longer than ProbeMax, and an answer was given when
\* the request came in, or a little later.
UnderWay(m) ==
  /\ m.at + ProbeMax >= instant
  /\ m.type = "req" => m.at <= instant
  /\ m.type = "resp" => m.at = m.t3 /\ m.t2 <= instant /\ m.t2 <= m.at /\ m.at <= m.t2 + Busy

\* Before the first probe of a life everything under way is of the life before;
\* afterwards it has a number that was used.
OfThisLife(m) ==
  IF probe_seq > 0 THEN m.seq < probe_seq
  ELSE /\ m.type = "req" => m.at + StartDelay <= due
       /\ m.type = "resp" => m.t2 + StartDelay <= due + ProbeMax

\* What waits for an answer is the instant, by the slave's clock, at which the
\* request was sent.
PairedProbe(m) ==
  m.seq \in DOMAIN probe_pending =>
    /\ m.type = "req" => probe_pending[m.seq] = m.at + m.ahead
    /\ m.type = "resp" =>
         /\ probe_pending[m.seq] - m.ahead + ProbeMin <= m.t2
         /\ m.t2 <= probe_pending[m.seq] - m.ahead + ProbeMax

ProbeInv ==
  /\ ProbeTypes
  /\ \A m \in probes : UnderWay(m) /\ OfThisLife(m) /\ PairedProbe(m)
  /\ ErrorTrue

LEMMA ProbeInitially == ProbeInit => ProbeInv
  BY ProbeAssumption DEF ProbeInit, ProbeInv, ProbeTypes, ErrorTrue

\* The first probe is sent when nothing of the life before is under way.
LEMMA FirstProbeAlone ==
  ASSUME ProbeInv, instant >= due, probe_seq = 0
  PROVE  probes = {}
<1> SUFFICES ASSUME NEW m \in probes PROVE FALSE
  OBVIOUS
<1>1. m \in ProbeRecord /\ instant \in Nat /\ due \in Int
  BY DEF ProbeInv, ProbeTypes
<1>2. UnderWay(m) /\ OfThisLife(m)
  BY DEF ProbeInv
<1>3. CASE m.type = "req"
  BY <1>1, <1>2, <1>3, ProbeAssumption DEF UnderWay, OfThisLife, ProbeRecord
<1>4. CASE m.type = "resp"
  BY <1>1, <1>2, <1>4, ProbeAssumption DEF UnderWay, OfThisLife, ProbeRecord
<1> QED
  BY <1>1, <1>3, <1>4 DEF ProbeRecord

LEMMA SendProbeKeeps == ProbeInv /\ SendProbe => ProbeInv'
<1> SUFFICES ASSUME ProbeInv, SendProbe PROVE ProbeInv'
  OBVIOUS
<1> DEFINE t1 == instant + ahead
           new == [type |-> "req", seq |-> probe_seq, at |-> instant,
                   ahead |-> ahead, t2 |-> 0, t3 |-> 0]
           all == [s \in DOMAIN probe_pending \union {probe_seq} |->
                     IF s = probe_seq THEN t1 ELSE probe_pending[s]]
<1>0. ProbeTypes
  BY DEF ProbeInv
<1>1. /\ instant >= due /\ probe_seq' = probe_seq + 1
      /\ UNCHANGED <<instant, ahead, sample>>
      /\ probes' = probes \union {new} /\ due' = instant + ProbeInterval
  BY DEF SendProbe
<1>2. /\ DOMAIN probe_pending' \subseteq DOMAIN probe_pending \union {probe_seq}
      /\ \A s \in DOMAIN probe_pending' :
           probe_pending'[s] = IF s = probe_seq THEN t1 ELSE probe_pending[s]
  <2>1. probe_pending' = [s \in {s \in DOMAIN all : t1 - all[s] <= ProbeLife} |-> all[s]]
    BY DEF SendProbe
  <2>2. /\ DOMAIN all = DOMAIN probe_pending \union {probe_seq}
        /\ \A s \in DOMAIN all : all[s] = IF s = probe_seq THEN t1 ELSE probe_pending[s]
    OBVIOUS
  <2> QED
    BY <2>1, <2>2
<1>3. new \in ProbeRecord
  BY <1>0 DEF ProbeTypes, ProbeRecord
<1>4. ProbeTypes'
  BY <1>0, <1>1, <1>2, <1>3, ProbeAssumption DEF ProbeTypes
<1>5. ASSUME NEW m \in probes
      PROVE  UnderWay(m)' /\ OfThisLife(m)' /\ PairedProbe(m)'
  <2>1. UnderWay(m) /\ OfThisLife(m) /\ PairedProbe(m)
    BY DEF ProbeInv
  <2>2. probe_seq > 0
    BY <1>0, <1>1, FirstProbeAlone DEF ProbeTypes
  <2>3. m \in ProbeRecord /\ m.seq \in Nat /\ m.seq < probe_seq
    BY <1>0, <2>1, <2>2 DEF OfThisLife, ProbeTypes, ProbeRecord
  <2>4. UnderWay(m)'
    BY <1>1, <2>1 DEF UnderWay
  <2>5. OfThisLife(m)'
    BY <1>0, <1>1, <2>3 DEF OfThisLife, ProbeTypes
  <2>6. m.seq \in DOMAIN probe_pending' =>
          m.seq \in DOMAIN probe_pending /\ probe_pending'[m.seq] = probe_pending[m.seq]
    BY <1>0, <1>2, <2>3 DEF ProbeTypes
  <2>7. PairedProbe(m)'
    BY <2>1, <2>6 DEF PairedProbe
  <2> QED
    BY <2>4, <2>5, <2>7
<1>6. ASSUME NEW m, m = new
      PROVE  UnderWay(m)' /\ OfThisLife(m)' /\ PairedProbe(m)'
  <2>1. m.type = "req" /\ m.at = instant /\ m.seq = probe_seq /\ m.ahead = ahead
    BY <1>6
  <2>2. UnderWay(m)'
    BY <1>0, <1>1, <2>1, ProbeAssumption DEF UnderWay, ProbeTypes
  <2>3. OfThisLife(m)'
    BY <1>0, <1>1, <2>1 DEF OfThisLife, ProbeTypes
  <2>4. PairedProbe(m)'
    BY <1>2, <2>1 DEF PairedProbe
  <2> QED
    BY <2>2, <2>3, <2>4
<1>7. ErrorTrue'
  BY <1>1 DEF ProbeInv, ErrorTrue
<1>8. ASSUME NEW m \in probes'
      PROVE  UnderWay(m)' /\ OfThisLife(m)' /\ PairedProbe(m)'
  BY <1>1, <1>5, <1>6, <1>8
<1> QED
  BY <1>4, <1>7, <1>8 DEF ProbeInv

LEMMA ProbeAnswered ==
  ASSUME ProbeInv, NEW m \in probes, OnProbeReq(m)
  PROVE  ProbeInv'
<1>0. ProbeTypes /\ UnderWay(m) /\ OfThisLife(m) /\ PairedProbe(m)
  BY DEF ProbeInv
<1>1. /\ m.type = "req" /\ Due(m)
      /\ UNCHANGED <<instant, ahead, probe_seq, probe_pending, due, sample>>
  BY DEF OnProbeReq
<1>2. PICK t3 \in instant .. instant + Busy :
        probes' = probes \union
          {[m EXCEPT !.type = "resp", !.at = t3, !.t2 = instant, !.t3 = t3]}
  BY DEF OnProbeReq
<1>3. m \in ProbeRecord /\ instant \in Nat /\ due \in Int /\ t3 \in Int /\ t3 >= instant
      /\ t3 <= instant + Busy /\ instant - m.at \in ProbeMin .. ProbeMax
  BY <1>0, <1>1, ProbeAssumption DEF ProbeTypes, Due
<1>4. PICK r : r = [m EXCEPT !.type = "resp", !.at = t3, !.t2 = instant, !.t3 = t3]
  OBVIOUS
<1>5. /\ r \in ProbeRecord /\ r.type = "resp" /\ r.at = t3 /\ r.t2 = instant /\ r.t3 = t3
      /\ r.seq = m.seq /\ r.ahead = m.ahead
  <2>1. t3 \in Nat
    BY <1>3
  <2>2. r = [type |-> "resp", seq |-> m.seq, at |-> t3, ahead |-> m.ahead, t2 |-> instant, t3 |-> t3]
    BY <1>3, <1>4 DEF ProbeRecord
  <2> QED
    BY <1>3, <2>1, <2>2 DEF ProbeRecord
<1>6. ProbeTypes'
  BY <1>0, <1>1, <1>2, <1>4, <1>5 DEF ProbeTypes
<1>7. UnderWay(r)'
  BY <1>1, <1>3, <1>5, ProbeAssumption DEF UnderWay
<1>8. OfThisLife(r)'
  BY <1>0, <1>1, <1>3, <1>5, ProbeAssumption DEF OfThisLife, ProbeRecord
<1>9. PairedProbe(r)'
  BY <1>0, <1>1, <1>3, <1>5, ProbeAssumption DEF PairedProbe, ProbeRecord, ProbeTypes
<1>10. ASSUME NEW x \in probes
       PROVE  UnderWay(x)' /\ OfThisLife(x)' /\ PairedProbe(x)'
  BY <1>1 DEF ProbeInv, UnderWay, OfThisLife, PairedProbe
<1>11. ErrorTrue'
  BY <1>1 DEF ProbeInv, ErrorTrue
<1> QED
  BY <1>2, <1>4, <1>6, <1>7, <1>8, <1>9, <1>10, <1>11 DEF ProbeInv

LEMMA SampleTaken ==
  ASSUME ProbeInv, NEW m \in probes, OnProbeResp(m)
  PROVE  ProbeInv'
<1>0. ProbeTypes /\ UnderWay(m) /\ PairedProbe(m)
  BY DEF ProbeInv
<1>1. /\ m.type = "resp" /\ Due(m) /\ m.seq \in DOMAIN probe_pending
      /\ UNCHANGED <<instant, ahead, probe_seq, due, probes>>
      /\ probe_pending' = [s \in DOMAIN probe_pending \ {m.seq} |-> probe_pending[s]]
  BY DEF OnProbeResp
<1>2. PICK t1, t4, delay, late :
        /\ t1 = probe_pending[m.seq] /\ t4 = instant + ahead
        /\ delay = PathDelay(t1, m.t2, m.t3, t4) /\ late \in 0 .. Busy
        /\ sample' = [error |-> t4 + late - (m.t3 + delay), delay |-> delay,
                      ahead |-> ahead, step |-> ahead - m.ahead, late |-> late]
  BY DEF OnProbeResp
<1>3. /\ m \in ProbeRecord /\ instant \in Int /\ ahead \in Int /\ t1 \in Int /\ late \in Int
      /\ instant - m.t3 \in ProbeMin .. ProbeMax
      /\ m.t2 - t1 + m.ahead \in ProbeMin .. ProbeMax
  BY <1>0, <1>1, <1>2, ProbeAssumption DEF ProbeTypes, Due, PairedProbe, UnderWay, ProbeRecord
<1>4. delay \in Int /\ 2 * delay <= t4 - t1 - (m.t3 - m.t2)
      /\ t4 - t1 - (m.t3 - m.t2) <= 2 * delay + 1
  BY <1>2, <1>3 DEF PathDelay, ProbeRecord
<1>5. ErrorTrue'
  <2>1. /\ sample'.error = t4 + late - (m.t3 + delay) /\ sample'.ahead = ahead
        /\ sample'.late = late /\ sample'.step = ahead - m.ahead
    BY <1>2
  <2>2. 2 * (sample'.error - sample'.ahead - sample'.late) + sample'.step
          \in ProbeMin - ProbeMax .. ProbeMax - ProbeMin + 1
    BY <1>2, <1>3, <1>4, <2>1, ProbeAssumption DEF ProbeRecord
  <2> QED
    BY <2>2 DEF ErrorTrue
<1>6. ProbeTypes'
  BY <1>0, <1>1 DEF ProbeTypes
<1>7. ASSUME NEW x \in probes
      PROVE  UnderWay(x)' /\ OfThisLife(x)' /\ PairedProbe(x)'
  BY <1>1 DEF ProbeInv, UnderWay, OfThisLife, PairedProbe
<1> QED
  BY <1>1, <1>5, <1>6, <1>7 DEF ProbeInv

LEMMA ClockStepped == ProbeInv /\ StepClock => ProbeInv'
  BY ProbeAssumption
  DEF ProbeInv, StepClock, ProbeTypes, UnderWay, OfThisLife, PairedProbe, ErrorTrue

LEMMA SlaveRestarted == ProbeInv /\ RestartSlave => ProbeInv'
<1> SUFFICES ASSUME ProbeInv, RestartSlave PROVE ProbeInv'
  OBVIOUS
<1>0. ProbeTypes
  BY DEF ProbeInv
<1>1. /\ UNCHANGED <<instant, ahead, probes, sample>>
      /\ probe_seq' = 0 /\ DOMAIN probe_pending' = {} /\ due' = instant + StartDelay
  BY DEF RestartSlave
<1>2. ProbeTypes'
  BY <1>0, <1>1, ProbeAssumption DEF ProbeTypes
<1>3. ASSUME NEW m \in probes
      PROVE  UnderWay(m)' /\ OfThisLife(m)' /\ PairedProbe(m)'
  <2>1. m \in ProbeRecord /\ UnderWay(m)
    BY <1>0 DEF ProbeInv, ProbeTypes
  <2>2. UnderWay(m)'
    BY <1>1, <2>1 DEF UnderWay
  <2>3. OfThisLife(m)'
    BY <1>0, <1>1, <2>1, ProbeAssumption DEF OfThisLife, UnderWay, ProbeRecord, ProbeTypes
  <2>4. PairedProbe(m)'
    BY <1>1 DEF PairedProbe
  <2> QED
    BY <2>2, <2>3, <2>4
<1>4. ErrorTrue'
  BY <1>1 DEF ProbeInv, ErrorTrue
<1> QED
  BY <1>1, <1>2, <1>3, <1>4 DEF ProbeInv

LEMMA ProbeTimePasses == ProbeInv /\ ProbeTick => ProbeInv'
<1> SUFFICES ASSUME ProbeInv, ProbeTick PROVE ProbeInv'
  OBVIOUS
<1>0. ProbeTypes
  BY DEF ProbeInv
<1>1. /\ UNCHANGED <<ahead, probe_seq, probe_pending, due>>
      /\ instant' = instant + 1 /\ sample' = NoSample
      /\ probes' = {m \in probes : instant + 1 - m.at <= ProbeMax}
  BY DEF ProbeTick
<1>2. ProbeTypes'
  BY <1>0, <1>1 DEF ProbeTypes
<1>3. ASSUME NEW m \in probes'
      PROVE  UnderWay(m)' /\ OfThisLife(m)' /\ PairedProbe(m)'
  <2>1. m \in ProbeRecord /\ UnderWay(m) /\ OfThisLife(m) /\ PairedProbe(m)
        /\ instant + 1 - m.at <= ProbeMax
    BY <1>0, <1>1 DEF ProbeInv, ProbeTypes
  <2>2. UnderWay(m)'
    BY <1>0, <1>1, <2>1, ProbeAssumption DEF UnderWay, ProbeRecord, ProbeTypes
  <2>3. OfThisLife(m)' /\ PairedProbe(m)'
    BY <1>1, <2>1 DEF OfThisLife, PairedProbe
  <2> QED
    BY <2>2, <2>3
<1>4. ErrorTrue'
  BY <1>1 DEF ErrorTrue
<1> QED
  BY <1>2, <1>3, <1>4 DEF ProbeInv

\* What the accuracy report of a slave is made of is the slave's error: however
\* messages are lost, doubled and reordered, and with restarts in between, the
\* number of a probe never pairs an answer with another probe.
THEOREM ErrorMeasured == ProbeInit /\ [][ProbeNext]_probeVars => []ErrorTrue
<1>1. ProbeInv /\ UNCHANGED probeVars => ProbeInv'
  BY DEF ProbeInv, probeVars, ProbeTypes, UnderWay, OfThisLife, PairedProbe, ErrorTrue
<1>2. ProbeInv /\ [ProbeNext]_probeVars => ProbeInv'
  BY <1>1, SendProbeKeeps, ProbeAnswered, SampleTaken, ClockStepped, SlaveRestarted,
     ProbeTimePasses DEF ProbeNext
<1>3. ProbeInv => ErrorTrue
  BY DEF ProbeInv
<1> QED
  BY <1>2, <1>3, ProbeInitially, PTL

-----------------------------------------------------------------------------
(***************************************************************************)
(* NodeReports.                                                            *)
(***************************************************************************)
Reporter ==
  [offset_ms : Int, pc : {"sleep", "connect", "wait"}, until : Nat, posted : Int]

ReportTypes ==
  /\ second \in Nat /\ silent \in Nat
  /\ reporter \in Reporter
  /\ reports \subseteq [offset_ms : Int, sent : Nat]
  /\ info.last_seen \in Nat /\ info.sent \in Nat
  /\ info.known => info.status # "offline"

\* The reporter is waiting for the answer to a report under way, or in the sleep
\* that follows the timeout.
AwaitedOf(r) ==
  /\ r.sent <= second /\ second <= r.sent + ReportMax
  /\ reporter.pc # "connect"
  /\ reporter.pc = "wait" => reporter.until = r.sent + ReportTimeout
  /\ reporter.pc = "sleep" => reporter.until = r.sent + ReportTimeout + ReportInterval
  /\ r.sent >= info.sent

\* How long after the last one that was handled a report is sent, if no attempt
\* has come to nothing since.
SoonAfter(r) ==
  info.known /\ silent = 0 =>
    r.sent <= info.last_seen + 2 * ReportTimeout + ReportInterval

\* While none is under way, how soon the next one will be.
SoonAgain ==
  reports = {} /\ info.known /\ silent = 0 =>
    /\ reporter.pc = "wait" => reporter.until <= info.last_seen + ReportTimeout
    /\ reporter.pc = "sleep" =>
         reporter.until <= info.last_seen + ReportTimeout + ReportInterval
    /\ reporter.pc = "connect" =>
         reporter.until <= info.last_seen + 2 * ReportTimeout + ReportInterval

Clocked ==
  /\ second <= reporter.until
  /\ reporter.pc = "sleep" => reporter.until <= second + ReportInterval
  /\ reporter.pc # "sleep" => reporter.until <= second + ReportTimeout
  /\ info.sent <= second

ReportInv ==
  /\ ReportTypes /\ Clocked /\ SoonAgain
  /\ \A r \in reports : AwaitedOf(r) /\ SoonAfter(r)
  /\ \A r, s \in reports : r = s

LEMMA ReportInitially == ReportInit => ReportInv
  BY ReportAssumption
  DEF ReportInit, ReportInv, ReportTypes, Reporter, Clocked, SoonAgain, NoInfo

LEMMA OffsetUpdated == ReportInv /\ UpdateOffset => ReportInv'
<1> SUFFICES ASSUME ReportInv, UpdateOffset PROVE ReportInv'
  OBVIOUS
<1>1. /\ UNCHANGED <<second, reports, info, silent>>
      /\ reporter'.pc = reporter.pc /\ reporter'.until = reporter.until
      /\ reporter' \in Reporter
  BY ReportAssumption DEF ReportInv, UpdateOffset, ReportTypes, Reporter
<1> QED
  BY <1>1 DEF ReportInv, ReportTypes, Clocked, SoonAgain, AwaitedOf, SoonAfter

\* What the reporter is when it goes on.
LEMMA GoesOn ==
  ASSUME ReportTypes, NEW pc \in {"sleep", "connect", "wait"}, NEW until \in Nat,
         NEW posted \in Int,
         reporter' = [reporter EXCEPT !.pc = pc, !.until = until, !.posted = posted]
  PROVE  reporter' \in Reporter /\ reporter'.pc = pc /\ reporter'.until = until
<1>1. reporter \in Reporter
  BY DEF ReportTypes
<1>2. reporter' = [offset_ms |-> reporter.offset_ms, pc |-> pc, until |-> until, posted |-> posted]
  BY <1>1 DEF Reporter
<1> QED
  BY <1>1, <1>2 DEF Reporter

LEMMA SetPhase ==
  ASSUME ReportTypes, NEW pc \in {"sleep", "connect", "wait"}, NEW until \in Nat,
         reporter' = [reporter EXCEPT !.pc = pc, !.until = until]
  PROVE  reporter' \in Reporter /\ reporter'.pc = pc /\ reporter'.until = until
<1>1. reporter \in Reporter
  BY DEF ReportTypes
<1>2. reporter' = [offset_ms |-> reporter.offset_ms, pc |-> pc, until |-> until,
                   posted |-> reporter.posted]
  BY <1>1 DEF Reporter
<1> QED
  BY <1>1, <1>2 DEF Reporter

LEMMA FallsAsleep ==
  ASSUME ReportTypes, reporter' = Asleep(second + ReportInterval)
  PROVE  /\ reporter' \in Reporter
         /\ reporter'.pc = "sleep" /\ reporter'.until = second + ReportInterval
<1>1. second + ReportInterval \in Nat
  BY ReportAssumption DEF ReportTypes
<1>2. reporter' = [reporter EXCEPT !.pc = "sleep", !.until = second + ReportInterval]
  BY DEF Asleep
<1> QED
  BY <1>1, <1>2, SetPhase

\* When the reporter posts, what it sent before is handled or lost.
LEMMA PostAlone ==
  ASSUME ReportInv, Post
  PROVE  reports = {}
  BY ReportAssumption DEF ReportInv, Post, AwaitedOf, Clocked, ReportTypes

LEMMA Posted == ReportInv /\ Post => ReportInv'
<1> SUFFICES ASSUME ReportInv, Post PROVE ReportInv'
  OBVIOUS
<1>0. ReportTypes /\ Clocked /\ SoonAgain /\ reports = {}
  BY PostAlone DEF ReportInv
<1>1. /\ UNCHANGED <<second, reports, info, silent>>
      /\ reporter.pc = "sleep" /\ reporter.until = second
  BY <1>0 DEF Post, Clocked, ReportTypes, Reporter
<1>2. /\ reporter'.pc = "connect" /\ reporter'.until = second + ReportTimeout
      /\ reporter' \in Reporter
  <2>1. second + ReportTimeout \in Nat /\ reporter.offset_ms \in Int
    BY <1>0, ReportAssumption DEF ReportTypes, Reporter
  <2> QED
    BY <1>0, <2>1, GoesOn DEF Post
<1>3. ReportTypes' /\ Clocked' /\ SoonAgain'
  BY <1>0, <1>1, <1>2, ReportAssumption DEF ReportTypes, Clocked, SoonAgain
<1> QED
  BY <1>0, <1>1, <1>3 DEF ReportInv

LEMMA ReportSent == ReportInv /\ Connected => ReportInv'
<1> SUFFICES ASSUME ReportInv, Connected PROVE ReportInv'
  OBVIOUS
<1>0. ReportTypes /\ Clocked /\ SoonAgain /\ reports = {}
  BY DEF ReportInv, Connected, AwaitedOf
<1>1. PICK r : r = [offset_ms |-> reporter.posted, sent |-> second]
  OBVIOUS
<1>2. /\ UNCHANGED <<second, info, silent>> /\ reports' = {r}
      /\ reporter.pc = "connect" /\ second <= reporter.until
  BY <1>0, <1>1 DEF Connected, Clocked
<1>3. /\ reporter'.pc = "wait" /\ reporter'.until = second + ReportTimeout
      /\ reporter' \in Reporter
  <2>1. second + ReportTimeout \in Nat
    BY <1>0, ReportAssumption DEF ReportTypes
  <2> QED
    BY <1>0, <2>1, SetPhase DEF Connected
<1>4. r \in [offset_ms : Int, sent : Nat] /\ r.sent = second
  BY <1>0, <1>1 DEF ReportTypes, Reporter
<1>5. ReportTypes'
  BY <1>0, <1>2, <1>3, <1>4 DEF ReportTypes
<1>6. Clocked' /\ SoonAgain'
  BY <1>0, <1>2, <1>3, ReportAssumption DEF Clocked, SoonAgain, ReportTypes
<1>7. AwaitedOf(r)'
  BY <1>0, <1>2, <1>3, <1>4, ReportAssumption DEF AwaitedOf, Clocked, ReportTypes
<1>8. SoonAfter(r)'
  <2>1. second \in Nat /\ reporter.until \in Nat
    BY <1>0 DEF ReportTypes, Reporter
  <2> QED
    BY <1>0, <1>2, <1>4, <2>1, ReportAssumption DEF SoonAfter, SoonAgain, ReportTypes
<1> QED
  BY <1>2, <1>5, <1>6, <1>7, <1>8 DEF ReportInv

LEMMA ConnectionFailed == ReportInv /\ NotConnected => ReportInv'
<1> SUFFICES ASSUME ReportInv, NotConnected PROVE ReportInv'
  OBVIOUS
<1>0. ReportTypes /\ Clocked /\ reports = {}
  BY DEF ReportInv, NotConnected, AwaitedOf
<1>1. /\ UNCHANGED <<second, reports, info>> /\ silent' = silent + 1
      /\ reporter'.pc = "sleep" /\ reporter'.until = second + ReportInterval
      /\ reporter' \in Reporter
  BY <1>0, FallsAsleep DEF NotConnected
<1> QED
  BY <1>0, <1>1, ReportAssumption DEF ReportInv, ReportTypes, Clocked, SoonAgain

LEMMA PostTimedOut == ReportInv /\ TimedOut => ReportInv'
<1> SUFFICES ASSUME ReportInv, TimedOut PROVE ReportInv'
  OBVIOUS
<1>0. ReportTypes /\ Clocked /\ SoonAgain
  BY DEF ReportInv
<1>1. /\ UNCHANGED <<second, reports, info, silent>>
      /\ reporter.pc = "wait" /\ reporter.until = second
  BY <1>0 DEF TimedOut, Clocked, ReportTypes, Reporter
<1>2. /\ reporter'.pc = "sleep" /\ reporter'.until = second + ReportInterval
      /\ reporter' \in Reporter
  BY <1>0, FallsAsleep DEF TimedOut
<1>3. ReportTypes' /\ Clocked'
  BY <1>0, <1>1, <1>2, ReportAssumption DEF ReportTypes, Clocked
<1>4. SoonAgain'
  BY <1>0, <1>1, <1>2, ReportAssumption DEF ReportTypes, SoonAgain
<1>5. ASSUME NEW r \in reports
      PROVE  AwaitedOf(r)' /\ SoonAfter(r)'
  <2>1. AwaitedOf(r) /\ SoonAfter(r) /\ r.sent \in Nat
    BY <1>0 DEF ReportInv, ReportTypes
  <2>2. AwaitedOf(r)'
    BY <1>0, <1>1, <1>2, <2>1, ReportAssumption DEF AwaitedOf, ReportTypes
  <2>3. SoonAfter(r)'
    BY <1>1, <2>1 DEF SoonAfter
  <2> QED
    BY <2>2, <2>3
<1> QED
  BY <1>1, <1>3, <1>4, <1>5 DEF ReportInv

LEMMA SecondPasses == ReportInv /\ Second => ReportInv'
<1> SUFFICES ASSUME ReportInv, Second PROVE ReportInv'
  OBVIOUS
<1>0. ReportTypes /\ Clocked /\ SoonAgain
  BY DEF ReportInv
<1>1. /\ UNCHANGED <<reporter, reports, info, silent>>
      /\ second' = second + 1 /\ second < reporter.until
      /\ \A r \in reports : second < r.sent + ReportMax
  BY DEF Second
<1>2. ReportTypes' /\ Clocked' /\ SoonAgain'
  BY <1>0, <1>1, ReportAssumption DEF ReportTypes, Reporter, Clocked, SoonAgain
<1>3. ASSUME NEW r \in reports
      PROVE  AwaitedOf(r)' /\ SoonAfter(r)'
  <2>1. AwaitedOf(r) /\ SoonAfter(r) /\ r.sent \in Nat /\ second < r.sent + ReportMax
    BY <1>0, <1>1 DEF ReportInv, ReportTypes
  <2>2. AwaitedOf(r)'
    BY <1>0, <1>1, <2>1, ReportAssumption DEF AwaitedOf, ReportTypes
  <2>3. SoonAfter(r)'
    BY <1>1, <2>1 DEF SoonAfter
  <2> QED
    BY <2>2, <2>3
<1> QED
  BY <1>1, <1>2, <1>3 DEF ReportInv

\* What the reporter does after the fate of a report under way is sealed.
LEMMA AfterReport ==
  ASSUME ReportInv, NEW r \in reports, UNCHANGED reporter \/ Learns(r)
  PROVE  /\ reporter' \in Reporter /\ reporter'.pc # "connect"
         /\ second <= reporter'.until
         /\ reporter'.pc = "sleep" => reporter'.until <= second + ReportInterval
         /\ reporter'.pc = "wait" => reporter'.until <= second + ReportTimeout
<1>0. ReportTypes /\ Clocked /\ AwaitedOf(r)
  BY DEF ReportInv
<1>1. CASE UNCHANGED reporter
  BY <1>0, <1>1 DEF Clocked, AwaitedOf, ReportTypes
<1>2. CASE Learns(r)
  <2>1. /\ reporter' \in Reporter
        /\ reporter'.pc = "sleep" /\ reporter'.until = second + ReportInterval
    BY <1>0, <1>2, FallsAsleep DEF Learns
  <2> QED
    BY <1>0, <2>1, ReportAssumption DEF ReportTypes
<1> QED
  BY <1>1, <1>2

LEMMA ReportHandled ==
  ASSUME ReportInv, NEW r \in reports, Handle(r)
  PROVE  ReportInv' /\ info'.sent >= info.sent
<1>0. ReportTypes /\ Clocked /\ AwaitedOf(r) /\ r \in [offset_ms : Int, sent : Nat]
  BY DEF ReportInv, ReportTypes
<1>1. /\ info'.known /\ info'.last_seen = second /\ info'.sent = r.sent
      /\ info'.status # "offline"
  BY DEF Handle, UpdateNode, Status
<1>2. second' = second /\ silent' = 0 /\ reports' = {}
  BY DEF Handle, ReportInv
<1>3. /\ reporter' \in Reporter /\ reporter'.pc # "connect"
      /\ second <= reporter'.until
      /\ reporter'.pc = "sleep" => reporter'.until <= second + ReportInterval
      /\ reporter'.pc = "wait" => reporter'.until <= second + ReportTimeout
  BY AfterReport DEF Handle
<1>4. ReportTypes'
  BY <1>0, <1>1, <1>2, <1>3 DEF ReportTypes
<1>5. Clocked'
  BY <1>0, <1>1, <1>2, <1>3 DEF Clocked, AwaitedOf, Reporter
<1>6. SoonAgain'
  <2>1. reporter'.until \in Nat /\ second \in Nat
    BY <1>0, <1>3 DEF Reporter, ReportTypes
  <2> QED
    BY <1>1, <1>2, <1>3, <2>1, ReportAssumption DEF SoonAgain
<1>7. info'.sent >= info.sent
  BY <1>0, <1>1 DEF AwaitedOf
<1> QED
  BY <1>2, <1>4, <1>5, <1>6, <1>7 DEF ReportInv

LEMMA ReportLost ==
  ASSUME ReportInv, NEW r \in reports, Lost(r)
  PROVE  ReportInv'
<1>0. ReportTypes /\ Clocked
  BY DEF ReportInv
<1>1. UNCHANGED <<second, info>> /\ silent' = silent + 1 /\ reports' = {}
  BY DEF Lost, ReportInv
<1>2. /\ reporter' \in Reporter /\ reporter'.pc # "connect"
      /\ second <= reporter'.until
      /\ reporter'.pc = "sleep" => reporter'.until <= second + ReportInterval
      /\ reporter'.pc = "wait" => reporter'.until <= second + ReportTimeout
  BY AfterReport DEF Lost
<1> QED
  BY <1>0, <1>1, <1>2 DEF ReportInv, ReportTypes, Clocked, SoonAgain, Reporter

LEMMA ReportStep == ReportInv /\ [ReportNext]_reportVars => ReportInv'
<1>1. ReportInv /\ UNCHANGED reportVars => ReportInv'
  BY DEF ReportInv, reportVars, ReportTypes, Clocked, SoonAgain, AwaitedOf, SoonAfter
<1> QED
  BY <1>1, OffsetUpdated, Posted, ReportSent, ConnectionFailed, PostTimedOut, SecondPasses,
     ReportHandled, ReportLost
  DEF ReportNext

\* The dashboard does not show a node as offline all of whose reports arrive, with
\* every wait as long as it may be: the numbers of core/reporter.py and
\* dashboard/state.py fit together.
THEOREM NotOffline == ReportInit /\ [][ReportNext]_reportVars => []LiveShown
<1>1. ReportInv => LiveShown
  <2> SUFFICES ASSUME ReportInv, info.known, silent = 0
               PROVE  second - info.last_seen < OfflineAge
    BY DEF LiveShown, Shown, ReportInv, ReportTypes
  <2>0. ReportTypes /\ Clocked /\ SoonAgain
    BY DEF ReportInv
  <2>1. CASE reports = {}
    <3>1. /\ second \in Nat /\ reporter.until \in Nat /\ info.last_seen \in Nat
          /\ reporter.pc \in {"sleep", "connect", "wait"}
      BY <2>0 DEF ReportTypes, Reporter
    <3>2. second <= reporter.until
      BY <2>0 DEF Clocked
    <3>3. reporter.until <= info.last_seen + 2 * ReportTimeout + ReportInterval
      BY <2>0, <2>1, <3>1, ReportAssumption DEF SoonAgain
    <3> QED
      BY <3>1, <3>2, <3>3, ReportAssumption, PatienceAssumption
  <2>2. CASE reports # {}
    <3>1. PICK r \in reports : AwaitedOf(r) /\ SoonAfter(r)
      BY <2>2 DEF ReportInv
    <3> QED
      BY <2>0, <3>1, ReportAssumption, PatienceAssumption DEF ReportTypes, AwaitedOf, SoonAfter
  <2> QED
    BY <2>1, <2>2
<1> QED
  BY <1>1, ReportInitially, ReportStep, PTL

\* The dashboard never goes back to an older offset: when a report is handled its
\* reporter has sent no other since.
THEOREM NeverOlder == ReportInit /\ [][ReportNext]_reportVars => NewestShown
<1>1. ReportInv /\ [ReportNext]_reportVars => [info'.sent >= info.sent]_reportVars
  <2> SUFFICES ASSUME ReportInv, ReportNext PROVE info'.sent >= info.sent
    OBVIOUS
  <2>1. info.sent \in Nat
    BY DEF ReportInv, ReportTypes
  <2>2. ASSUME NEW r \in reports, Handle(r) PROVE info'.sent >= info.sent
    BY <2>2, ReportHandled
  <2>3. info' = info => info'.sent >= info.sent
    BY <2>1
  <2> QED
    BY <2>2, <2>3
    DEF ReportNext, UpdateOffset, Post, Connected, NotConnected, TimedOut, Second, Lost
<1> QED
  BY <1>1, ReportInitially, ReportStep, PTL DEF NewestShown

-----------------------------------------------------------------------------
(***************************************************************************)
(* DriftLog.                                                               *)
(***************************************************************************)
Counts == [recorded : Nat, taken : Nat]

NewestOf(list, counts) == Newest(list, counts.recorded, counts.taken)

LogTypes ==
  /\ samples \in Seq(Nat) /\ recorded \in Nat /\ taken \in Nat
  /\ flusher \in [Flushers -> [pc : {"rest", "build", "write", "save"}, copy : Seq(Nat),
                               began : Counts, alone : BOOLEAN]]
  /\ file \in [head : Seq(Nat), tail : Seq(Nat)]

Writing(f) == flusher[f].pc \in {"write", "save"}

\* A flush that is marked as alone is: no other one has begun since it began, and
\* none that began before still runs.
Lone == \A f, g \in Flushers : flusher[f].alone /\ Flushing(f) /\ Flushing(g) => f = g

\* What a flush has copied is the newest samples of the moment it began for as long
\* as it lasts; what it has written alone is still there; and nobody writes into a
\* file that a lone flush left.
LogInv ==
  /\ LogTypes /\ Lone
  /\ Newest(samples, recorded, taken)
  /\ \A f \in Flushers : Flushing(f) => NewestOf(flusher[f].copy, flusher[f].began)
  /\ \A f \in Flushers : flusher[f].alone /\ flusher[f].pc = "save" => file.head = flusher[f].copy
  /\ left # Never => /\ NewestOf(file.head, left) /\ NewestOf(file.tail, left)
                     /\ \A f \in Flushers : ~Writing(f)

LEMMA MinAndMax ==
  ASSUME NEW a \in Int, NEW b \in Int
  PROVE  /\ Min({a, b}) = IF a <= b THEN a ELSE b
         /\ Max({a, b}) = IF a <= b THEN b ELSE a
<1>1. PICK m : m = IF a <= b THEN a ELSE b
  OBVIOUS
<1>2. PICK n : n = IF a <= b THEN b ELSE a
  OBVIOUS
<1>3. /\ m \in {a, b} /\ \A y \in {a, b} : m =< y
      /\ \A x \in {a, b} : (\A y \in {a, b} : x =< y) => x = m
  BY <1>1
<1>4. /\ n \in {a, b} /\ \A y \in {a, b} : n >= y
      /\ \A x \in {a, b} : (\A y \in {a, b} : x >= y) => x = n
  BY <1>2
<1>5. Min({a, b}) = m
  BY <1>3 DEF Min
<1>6. Max({a, b}) = n
  BY <1>4 DEF Max
<1> QED
  BY <1>1, <1>2, <1>5, <1>6

LEMMA LogInitially == LogInit => LogInv
<1> SUFFICES ASSUME LogInit PROVE LogInv
  OBVIOUS
<1>1. Min({0, MaxSamples}) = 0
  BY MinAndMax, DriftAssumption
<1>2. Newest(samples, recorded, taken)
  BY <1>1 DEF LogInit, Newest
<1>3. LogTypes
  BY DEF LogInit, LogTypes, Counts, Resting, Never, Empty
<1> QED
  BY <1>2, <1>3 DEF LogInit, LogInv, Lone, Flushing, Resting

\* samples[-max_samples:] of one more than there were forgets one at most, the
\* oldest.
LEMMA TrimmedNewest ==
  ASSUME NEW list \in Seq(Nat), NEW n \in Nat, NEW k \in Nat, Newest(list, n, k)
  PROVE  /\ Trimmed(Append(list, k + 1)) \in Seq(Nat)
         /\ Newest(Trimmed(Append(list, k + 1)), n + 1, k + 1)
<1>1. PICK all : all = Append(list, k + 1)
  OBVIOUS
<1>2. PICK l \in Nat : l = Len(list)
  OBVIOUS
<1>3. PICK last \in Nat : last = l + 1
  OBVIOUS
<1>4. /\ all \in Seq(Nat) /\ Len(all) = last
      /\ \A i \in 1 .. l : all[i] = list[i]
      /\ all[last] = k + 1
  BY <1>1, <1>2, <1>3
<1>5. /\ l = IF n <= MaxSamples THEN n ELSE MaxSamples
      /\ \A i \in 1 .. l : list[i] = k - l + i
  <2>1. Min({n, MaxSamples}) = IF n <= MaxSamples THEN n ELSE MaxSamples
    BY MinAndMax, DriftAssumption
  <2>2. DOMAIN list = 1 .. l
    BY <1>2
  <2>3. Len(list) = Min({n, MaxSamples}) /\ \A i \in DOMAIN list : list[i] = k - Len(list) + i
    BY DEF Newest
  <2> QED
    BY <1>2, <2>1, <2>2, <2>3
<1>6. PICK m \in Nat \ {0} : m = Max({1, last - MaxSamples + 1}) /\ m = IF l < MaxSamples THEN 1 ELSE 2
  <2>1. PICK c \in Int : c = last - MaxSamples + 1
    BY DriftAssumption
  <2>2. Max({1, c}) = IF 1 <= c THEN c ELSE 1
    <3>1. \A a, b \in Int : Max({a, b}) = IF a <= b THEN b ELSE a
      BY MinAndMax
    <3> QED
      BY <3>1
  <2>3. l <= MaxSamples
    BY <1>5, DriftAssumption
  <2>4. (IF 1 <= c THEN c ELSE 1) = IF l < MaxSamples THEN 1 ELSE 2
    BY <1>3, <2>1, <2>3, DriftAssumption
  <2> QED
    BY <2>1, <2>2, <2>4
<1>7. PICK kept : kept = SubSeq(all, m, last)
  OBVIOUS
<1>8. /\ kept \in Seq(Nat)
      /\ Len(kept) = last - m + 1
      /\ \A i \in 1 .. last - m + 1 : kept[i] = all[m + i - 1]
  <2>1. \A i \in m .. last : all[i] \in Nat
    BY <1>4, <1>6
  <2>2. m <= last
    BY <1>5, <1>6, <1>3, DriftAssumption
  <2> QED
    BY <1>7, <2>1, <2>2, SubSeqProperties
<1>9. Len(kept) = Min({n + 1, MaxSamples})
  <2>1. Min({n + 1, MaxSamples}) = IF n + 1 <= MaxSamples THEN n + 1 ELSE MaxSamples
    BY MinAndMax, DriftAssumption
  <2>2. last - m + 1 = IF n + 1 <= MaxSamples THEN n + 1 ELSE MaxSamples
    <3>1. MaxSamples \in Nat \ {0} /\ l = (IF n <= MaxSamples THEN n ELSE MaxSamples)
      BY <1>5, DriftAssumption
    <3>2. m = IF l < MaxSamples THEN 1 ELSE 2
      BY <1>6
    <3> QED
      BY <1>3, <3>1, <3>2
  <2> QED
    BY <1>8, <2>1, <2>2
<1>10. ASSUME NEW i \in 1 .. Len(kept)
      PROVE  kept[i] = (k + 1) - Len(kept) + i
  <2>1. PICK j \in Nat : j = m + i - 1 /\ j \in 1 .. last
    <3>1. i \in Nat /\ 1 <= i /\ i <= last - m + 1
      BY <1>8
    <3>2. m \in Nat /\ 1 <= m
      BY <1>6
    <3>3. m + i - 1 \in Nat /\ m + i - 1 \in 1 .. last
      BY <3>1, <3>2
    <3> QED
      BY <3>3
  <2>2. all[j] = k - l + j
    <3>1. CASE j = last
      BY <1>3, <1>4, <3>1
    <3>2. CASE j # last
      <4>1. j \in 1 .. l
        BY <1>3, <2>1, <3>2
      <4> QED
        BY <1>4, <1>5, <4>1
    <3> QED
      BY <3>1, <3>2
  <2>3. kept[i] = all[j]
    BY <1>8, <2>1
  <2> QED
    BY <1>3, <1>8, <2>1, <2>2, <2>3
<1>11. DOMAIN kept = 1 .. Len(kept)
  BY <1>8
<1> QED
  <2>1. Trimmed(Append(list, k + 1)) = kept
    BY <1>1, <1>4, <1>6, <1>7 DEF Trimmed
  <2> QED
    BY <1>8, <1>9, <1>10, <1>11, <2>1 DEF Newest

LEMMA Recorded == LogInv /\ Record => LogInv'
<1> SUFFICES ASSUME LogInv, Record PROVE LogInv'
  OBVIOUS
<1>1. /\ samples' = Trimmed(Append(samples, taken + 1))
      /\ recorded' = recorded + 1 /\ taken' = taken + 1
      /\ UNCHANGED <<flusher, file, left>>
  BY DEF Record
<1>2. samples' \in Seq(Nat) /\ Newest(samples, recorded, taken)'
  BY <1>1, TrimmedNewest DEF LogInv, LogTypes
<1> QED
  BY <1>1, <1>2 DEF LogInv, LogTypes, Lone, Flushing, Writing, NewestOf

LEMMA LogRestarted == LogInv /\ RestartLog => LogInv'
<1> SUFFICES ASSUME LogInv, RestartLog PROVE LogInv'
  OBVIOUS
<1>1. Min({0, MaxSamples}) = 0
  BY MinAndMax, DriftAssumption
<1>2. Newest(samples, recorded, taken)'
  BY <1>1 DEF RestartLog, Newest
<1>3. LogTypes'
  BY DEF LogInv, LogTypes, RestartLog, Counts, Resting, Never
<1>4. \A f \in Flushers : flusher'[f].pc = "rest"
  BY DEF RestartLog, Resting
<1> QED
  BY <1>2, <1>3, <1>4 DEF LogInv, RestartLog, Lone, Flushing, Writing, NewestOf

LEMMA Copied ==
  ASSUME LogInv, NEW f \in Flushers, Copy(f)
  PROVE  LogInv'
<1>1. PICK began, others :
        /\ began = [recorded |-> recorded, taken |-> taken]
        /\ others = {g \in Flushers \ {f} : Flushing(g)}
        /\ flusher' = [g \in Flushers |->
             IF g = f THEN [pc |-> "build", copy |-> samples, began |-> began,
                            alone |-> others = {}]
             ELSE IF g \in others THEN [flusher[g] EXCEPT !.alone = FALSE] ELSE flusher[g]]
  BY DEF Copy
<1>2. UNCHANGED <<samples, recorded, taken, file, left>>
  BY DEF Copy
<1>3. began \in Counts /\ NewestOf(samples, began)
  BY <1>1 DEF LogInv, LogTypes, Counts, NewestOf
<1>4. LogTypes'
  BY <1>1, <1>2, <1>3 DEF LogInv, LogTypes
<1>5. flusher'[f] = [pc |-> "build", copy |-> samples, began |-> began, alone |-> others = {}]
  BY <1>1
<1>6. ASSUME NEW g \in Flushers \ {f}
      PROVE  /\ flusher'[g].pc = flusher[g].pc /\ flusher'[g].copy = flusher[g].copy
             /\ flusher'[g].began = flusher[g].began
             /\ Flushing(g) => ~flusher'[g].alone
  BY <1>1 DEF LogInv, LogTypes
<1>7. flusher'[f].alone => \A g \in Flushers \ {f} : ~Flushing(g)
  <2>1. flusher'[f].alone = (others = {})
    BY <1>5
  <2> QED
    BY <1>1, <2>1
<1>8. Lone'
  <2> SUFFICES ASSUME NEW g \in Flushers, NEW h \in Flushers,
                      flusher'[g].alone, Flushing(g)', Flushing(h)'
               PROVE  g = h
    BY DEF Lone
  <2>1. g = f
    BY <1>6 DEF Flushing
  <2>2. h = f
    BY <1>6, <1>7, <2>1 DEF Flushing
  <2> QED
    BY <2>1, <2>2
<1>9. ASSUME NEW g \in Flushers, Flushing(g)'
      PROVE  NewestOf(flusher[g].copy, flusher[g].began)'
  <2>1. CASE g = f
    BY <1>3, <1>5, <2>1 DEF NewestOf
  <2>2. CASE g # f
    BY <1>6, <1>9, <2>2 DEF LogInv, Flushing, NewestOf
  <2> QED
    BY <2>1, <2>2
<1>10. ASSUME NEW g \in Flushers, flusher'[g].alone, flusher'[g].pc = "save"
       PROVE  FALSE
  BY <1>5, <1>6, <1>10 DEF Flushing
<1>11. \A g \in Flushers : Writing(g)' => Writing(g)
  BY <1>5, <1>6 DEF Writing
<1> QED
  BY <1>2, <1>4, <1>8, <1>9, <1>10, <1>11 DEF LogInv, NewestOf

\* A flush goes on: only its program counter changes.
LEMMA FlushGoesOn ==
  ASSUME LogInv, NEW f \in Flushers, Flushing(f), NEW pc \in {"write", "save"},
         flusher' = [flusher EXCEPT ![f].pc = pc]
  PROVE  /\ flusher' \in [Flushers -> [pc : {"rest", "build", "write", "save"}, copy : Seq(Nat),
                                       began : Counts, alone : BOOLEAN]]
         /\ Lone'
         /\ flusher'[f].pc = pc
         /\ \A g \in Flushers \ {f} : flusher'[g] = flusher[g]
         /\ \A g \in Flushers : /\ Flushing(g)' <=> Flushing(g)
                                /\ flusher'[g].copy = flusher[g].copy
                                /\ flusher'[g].began = flusher[g].began
                                /\ flusher'[g].alone = flusher[g].alone
<1>1. \A g \in Flushers : /\ Flushing(g)' <=> Flushing(g)
                          /\ flusher'[g].copy = flusher[g].copy
                          /\ flusher'[g].began = flusher[g].began
                          /\ flusher'[g].alone = flusher[g].alone
  BY DEF LogInv, LogTypes, Flushing
<1>2. Lone'
  BY <1>1 DEF LogInv, Lone
<1> QED
  BY <1>1, <1>2 DEF LogInv, LogTypes

LEMMA Opened ==
  ASSUME LogInv, NEW f \in Flushers, Open(f)
  PROVE  LogInv'
<1>1. Flushing(f) /\ flusher' = [flusher EXCEPT ![f].pc = "write"]
  BY DEF Open, Flushing
<1>2. file' = Empty /\ left' = Never /\ UNCHANGED <<samples, recorded, taken>>
  BY DEF Open
<1>3. LogTypes'
  <2>1. file' \in [head : Seq(Nat), tail : Seq(Nat)]
    BY <1>2 DEF Empty
  <2> QED
    BY <1>1, <1>2, <2>1, FlushGoesOn DEF LogInv, LogTypes
<1>4. ASSUME NEW g \in Flushers, flusher'[g].alone, flusher'[g].pc = "save"
      PROVE  FALSE
  <2>1. g # f /\ flusher'[g] = flusher[g]
    BY <1>1, <1>4, FlushGoesOn
  <2> QED
    BY <1>1, <1>4, <2>1 DEF LogInv, Lone, Flushing
<1> QED
  BY <1>1, <1>2, <1>3, <1>4, FlushGoesOn DEF LogInv, NewestOf

LEMMA Written ==
  ASSUME LogInv, NEW f \in Flushers, Write(f)
  PROVE  LogInv'
<1>1. Flushing(f) /\ flusher' = [flusher EXCEPT ![f].pc = "save"]
  BY DEF Write, Flushing
<1>2. file' = [file EXCEPT !.head = flusher[f].copy] /\ UNCHANGED <<samples, recorded, taken, left>>
  BY DEF Write
<1>3. /\ file' \in [head : Seq(Nat), tail : Seq(Nat)]
      /\ file'.head = flusher[f].copy /\ file'.tail = file.tail
  <2>1. file = [head |-> file.head, tail |-> file.tail] /\ flusher[f].copy \in Seq(Nat)
        /\ file.head \in Seq(Nat) /\ file.tail \in Seq(Nat)
    BY DEF LogInv, LogTypes
  <2>2. file' = [head |-> flusher[f].copy, tail |-> file.tail]
    BY <1>2, <2>1
  <2> QED
    BY <2>1, <2>2
<1>4. LogTypes'
  BY <1>1, <1>2, <1>3, FlushGoesOn DEF LogInv, LogTypes
<1>5. ASSUME NEW g \in Flushers, flusher'[g].alone, flusher'[g].pc = "save"
      PROVE  file'.head = flusher'[g].copy
  <2>1. CASE g = f
    BY <1>1, <1>3, <2>1, FlushGoesOn
  <2>2. CASE g # f
    <3>1. flusher'[g] = flusher[g]
      BY <1>1, <2>2, FlushGoesOn
    <3> QED
      BY <1>1, <1>5, <2>2, <3>1 DEF LogInv, Lone, Flushing
  <2> QED
    BY <2>1, <2>2
<1>6. left = Never
  BY DEF LogInv, Write, Writing
<1> QED
  BY <1>1, <1>2, <1>4, <1>5, <1>6, FlushGoesOn DEF LogInv, NewestOf

\* A flush ends.
LEMMA FlushEnds ==
  ASSUME LogInv, NEW f \in Flushers, flusher' = [flusher EXCEPT ![f] = Resting]
  PROVE  /\ flusher' \in [Flushers -> [pc : {"rest", "build", "write", "save"}, copy : Seq(Nat),
                                       began : Counts, alone : BOOLEAN]]
         /\ Lone'
         /\ flusher'[f].pc = "rest"
         /\ \A g \in Flushers \ {f} : flusher'[g] = flusher[g]
<1>1. Resting \in [pc : {"rest", "build", "write", "save"}, copy : Seq(Nat),
                   began : Counts, alone : BOOLEAN]
  BY DEF Resting, Counts, Never
<1>2. flusher'[f] = Resting /\ \A g \in Flushers \ {f} : flusher'[g] = flusher[g]
  BY DEF LogInv, LogTypes
<1>3. Lone'
  BY <1>2 DEF LogInv, Lone, Flushing, Resting
<1> QED
  BY <1>1, <1>2, <1>3 DEF LogInv, LogTypes, Resting

LEMMA Saved ==
  ASSUME LogInv, NEW f \in Flushers, Save(f)
  PROVE  LogInv'
<1>1. flusher' = [flusher EXCEPT ![f] = Resting] /\ flusher[f].pc = "save"
  BY DEF Save
<1>2. /\ file' = [file EXCEPT !.tail = flusher[f].copy]
      /\ left' = IF flusher[f].alone THEN flusher[f].began ELSE Never
      /\ UNCHANGED <<samples, recorded, taken>>
  BY DEF Save
<1>3. /\ file' \in [head : Seq(Nat), tail : Seq(Nat)]
      /\ file'.head = file.head /\ file'.tail = flusher[f].copy
  <2>1. file = [head |-> file.head, tail |-> file.tail] /\ flusher[f].copy \in Seq(Nat)
        /\ file.head \in Seq(Nat) /\ file.tail \in Seq(Nat)
    BY DEF LogInv, LogTypes
  <2>2. file' = [head |-> file.head, tail |-> flusher[f].copy]
    BY <1>2, <2>1
  <2> QED
    BY <2>1, <2>2
<1>4. LogTypes'
  BY <1>1, <1>2, <1>3, FlushEnds DEF LogInv, LogTypes
<1>5. ASSUME NEW g \in Flushers, flusher'[g].alone, flusher'[g].pc = "save"
      PROVE  file'.head = flusher'[g].copy
  BY <1>1, <1>3, <1>5, FlushEnds DEF LogInv
<1>6. ASSUME left' # Never
      PROVE  /\ NewestOf(file'.head, left') /\ NewestOf(file'.tail, left')
             /\ \A g \in Flushers : ~Writing(g)'
  <2>1. flusher[f].alone /\ left' = flusher[f].began
    BY <1>2, <1>6
  <2>2. file'.head = flusher[f].copy /\ file'.tail = flusher[f].copy
    BY <1>1, <1>3, <2>1 DEF LogInv
  <2>3. NewestOf(flusher[f].copy, flusher[f].began)
    BY <1>1 DEF LogInv, Flushing
  <2>4. \A g \in Flushers \ {f} : ~Flushing(g)
    BY <1>1, <2>1 DEF LogInv, Lone, Flushing
  <2> QED
    BY <1>1, <2>1, <2>2, <2>3, <2>4, FlushEnds DEF Flushing, Writing
<1> QED
  BY <1>1, <1>2, <1>4, <1>5, <1>6, FlushEnds DEF LogInv, Flushing, NewestOf

LEMMA Failed ==
  ASSUME LogInv, NEW f \in Flushers, Fail(f)
  PROVE  LogInv'
<1>1. flusher' = [flusher EXCEPT ![f] = Resting] /\ UNCHANGED <<samples, recorded, taken, file, left>>
  BY DEF Fail
<1>2. LogTypes'
  BY <1>1, FlushEnds DEF LogInv, LogTypes
<1> QED
  BY <1>1, <1>2, FlushEnds DEF LogInv, Flushing, Writing, NewestOf

\* The logger forgets nothing but what its limit makes it forget, and a flush that
\* met no other and no error leaves a file that holds, in all its parts, the
\* samples of the moment it began, until another flush opens it: for any number of
\* threads that flush, failures and restarts.
THEOREM NothingForgotten == LogInit /\ [][LogNext]_logVars => []LogComplete
<1>1. LogInv /\ UNCHANGED logVars => LogInv'
  BY DEF LogInv, logVars, LogTypes, Lone, Flushing, Writing, NewestOf
<1>2. LogInv /\ [LogNext]_logVars => LogInv'
  BY <1>1, Recorded, LogRestarted, Copied, Opened, Written, Saved, Failed DEF LogNext
<1>3. LogInv => LogComplete
  BY DEF LogInv, LogComplete, NewestOf
<1> QED
  BY <1>2, <1>3, LogInitially, PTL

=============================================================================
