--------------------------- MODULE PeerDelayProofs ---------------------------
(***************************************************************************)
(* Proofs about PeerDelay: its types, that every sample and the estimate   *)
(* measure the path, and that few requests wait, for any delays, losses,   *)
(* duplicates, clock steps and restarts.                                   *)
(***************************************************************************)
EXTENDS PeerDelay, NumberFacts, SequenceTheorems

-----------------------------------------------------------------------------
(***************************************************************************)
(* The inductive invariant.                                                *)
(***************************************************************************)
\* All offsets the clocks have had, that of the initiator since its last restart,
\* and 0: what the clocks were stepped is at least the widths of their ranges.
Stepped(il, ih, rl, rh) ==
  /\ il \in Int /\ ih \in Int /\ rl \in Int /\ rh \in Int
  /\ 0 \in il .. ih /\ 0 \in rl .. rh
  /\ offset["init"] \in il .. ih /\ offset["resp"] \in rl .. rh
  /\ (ih - il) + (rh - rl) <= adjusted

InFlight == \A m \in net : m.at \in now - MaxDelay .. now

\* Numbers of this session that are in use: the first n.
Numbered(n) ==
  /\ n \in 0 .. SeqMod /\ seq_id = IF n = SeqMod THEN 0 ELSE n
  /\ n * Interval <= next_req
  /\ \A m \in net : m.seq \in reused \/ m.seq < n
  /\ responder # NoRequest => responder \in reused \/ responder < n

\* A reading of the responder less a reading of the initiator, one delay before.
Passed(d, il, ih, rl, rh) == d \in MinDelay + rl - ih .. MaxDelay + rh - il

\* The readings, of the responder in messages and of the initiator in what it waits
\* for: a number not reused belongs to one request.
Readings(il, ih, rl, rh) ==
  /\ \A m \in net : m.type \in {"resp", "fu"} => m.t - Epoch - m.at \in rl .. rh
  /\ \A s \in DOMAIN pending \ reused :
       /\ \A m \in net : m.seq = s =>
            /\ m.type = "req" => pending[s].t1 - Epoch - m.at \in il .. ih
            /\ m.type = "resp" => Passed(m.t - pending[s].t1, il, ih, rl, rh)
       /\ pending[s].t2 # 0 => Passed(pending[s].t2 - pending[s].t1, il, ih, rl, rh)

\* What is pending was sent in this session, and not forgotten at its last send.
Waiting(sends, last, il, ih) ==
  /\ Spaced(sends, Interval) /\ last \in Int
  /\ \A x \in sends : x.at <= now /\ x.at + Interval <= next_req
  /\ \A s \in DOMAIN pending :
       \E x \in sends : /\ x.seq = s /\ pending[s].t1 - Epoch - x.at \in il .. ih
                        /\ x.at \in last - PendingLife - adjusted .. last

Measured(il, ih, rl, rh) ==
  /\ Stepped(il, ih, rl, rh) /\ Readings(il, ih, rl, rh)
  /\ \E sends, last : Waiting(sends, last, il, ih)

\* Whatever is picked from the samples has a smallest and a largest one.
Ordered ==
  \A T \in SUBSET Range(samples) : T # {} =>
    /\ \E x \in T : \A y \in T : x <= y
    /\ \E x \in T : \A y \in T : y <= x

Inv ==
  /\ TypeOK /\ InFlight /\ SamplesGenuine /\ Ordered
  /\ \E n \in Nat : Numbered(n)
  /\ \E il, ih, rl, rh : Measured(il, ih, rl, rh)

-----------------------------------------------------------------------------
(***************************************************************************)
(* Facts about the operators.                                              *)
(***************************************************************************)
LEMMA LastFacts ==
  ASSUME NEW T, NEW s \in Seq(T), NEW n \in Nat \ {0}
  PROVE  /\ Last(s, n) \in Seq(T)
         /\ Len(Last(s, n)) = IF Len(s) > n THEN n ELSE Len(s)
         /\ \A i \in 1 .. Len(Last(s, n)) : Last(s, n)[i] = s[i + Len(s) - Len(Last(s, n))]
<1>0. Len(s) \in Nat
  BY LenProperties
<1>1. PICK k : k = IF Len(s) > n THEN Len(s) - n + 1 ELSE 1
  OBVIOUS
<1>2. k \in 1 .. Len(s) + 1 /\ Last(s, n) = SubSeq(s, k, Len(s))
  BY <1>1, LenProperties DEF Last
<1>3. /\ SubSeq(s, k, Len(s)) \in Seq(T)
      /\ Len(SubSeq(s, k, Len(s))) = Len(s) - k + 1
      /\ \A i \in 1 .. Len(s) - k + 1 : SubSeq(s, k, Len(s))[i] = s[k + i - 1]
  BY <1>2, SubSeqProperties, LenProperties
<1>4. PICK l : l = Last(s, n)
  OBVIOUS
<1>5. l \in Seq(T) /\ Len(l) = (IF Len(s) > n THEN n ELSE Len(s)) /\ Len(l) = Len(s) - k + 1
  <2>1. l = SubSeq(s, k, Len(s))
    BY <1>2, <1>4
  <2>2. l \in Seq(T) /\ Len(l) = Len(s) - k + 1
    BY <1>3, <2>1
  <2>3. Len(s) - k + 1 = IF Len(s) > n THEN n ELSE Len(s)
    BY <1>0, <1>1
  <2> QED
    BY <2>2, <2>3
<1>6. ASSUME NEW i \in 1 .. Len(l) PROVE l[i] = s[i + Len(s) - Len(l)]
  <2>1. i \in 1 .. Len(s) - k + 1
    BY <1>5
  <2>2. PICK j : j = k + i - 1 /\ l[i] = s[j]
    BY <1>2, <1>3, <1>4, <2>1
  <2>3. PICK a, b : a = Len(s) /\ b = Len(l)
    OBVIOUS
  <2>4. a \in Int /\ k \in Int /\ i \in Int /\ b = a - k + 1 /\ j = k + i - 1
    BY <1>0, <1>2, <1>5, <2>1, <2>2, <2>3
  <2>5. j = i + a - b
    BY <2>4
  <2> QED
    BY <2>2, <2>3, <2>5
<1> QED
  BY <1>4, <1>5, <1>6

\* A window after a sample d from q: it holds the sample and old ones, each with its source.
Grown(g, new, f, src, d, q) ==
  \A i \in DOMAIN g : \/ g[i] = d /\ new[i] = q
                      \/ \E j \in DOMAIN f : g[i] = f[j] /\ new[i] = src[j]

LEMMA AddFacts ==
  ASSUME NEW T, NEW f \in Seq(Nat \ {0}), NEW src \in Seq(T), Len(f) = Len(src), Len(f) <= Window,
         NEW d \in Nat \ {0}, NEW q \in T
  PROVE  \E g, new :
           /\ g = Add(f, d) /\ new = Last(Append(src, q), Window)
           /\ g \in Seq(Nat \ {0}) /\ new \in Seq(T) /\ Len(g) = Len(new) /\ Len(g) <= Window
           /\ Grown(g, new, f, src, d, q)
<1>0. Window \in Nat \ {0}
  BY WindowAssumption
<1>1. PICK a, b : a = Append(f, d) /\ b = Append(src, q)
  OBVIOUS
<1>2. /\ a \in Seq(Nat \ {0}) /\ Len(a) = Len(f) + 1 /\ a[Len(f) + 1] = d
      /\ \A i \in 1 .. Len(f) : a[i] = f[i]
      /\ b \in Seq(T) /\ Len(b) = Len(f) + 1 /\ b[Len(f) + 1] = q
      /\ \A i \in 1 .. Len(f) : b[i] = src[i]
  BY <1>1, AppendProperties
<1>3. PICK g, new : g = Last(a, Window) /\ new = Last(b, Window)
  OBVIOUS
<1>4. /\ g \in Seq(Nat \ {0}) /\ new \in Seq(T)
      /\ Len(g) = (IF Len(a) > Window THEN Window ELSE Len(a)) /\ Len(new) = Len(g)
      /\ \A i \in 1 .. Len(g) : g[i] = a[i + Len(a) - Len(g)] /\ new[i] = b[i + Len(a) - Len(g)]
  <2>1. /\ g \in Seq(Nat \ {0}) /\ Len(g) = IF Len(a) > Window THEN Window ELSE Len(a)
        /\ \A i \in 1 .. Len(g) : g[i] = a[i + Len(a) - Len(g)]
    BY <1>0, <1>2, <1>3, LastFacts, ZenonT(30)
  <2>2. /\ new \in Seq(T) /\ Len(new) = IF Len(b) > Window THEN Window ELSE Len(b)
        /\ \A i \in 1 .. Len(new) : new[i] = b[i + Len(b) - Len(new)]
    BY <1>0, <1>2, <1>3, LastFacts, ZenonT(30)
  <2>3. Len(a) = Len(b)
    BY <1>2
  <2>4. Len(new) = Len(g)
    BY <2>1, <2>2, <2>3
  <2> QED
    BY <2>1, <2>2, <2>3, <2>4
<1>5. ASSUME NEW i \in DOMAIN g
      PROVE  \/ g[i] = d /\ new[i] = q
             \/ \E j \in DOMAIN f : g[i] = f[j] /\ new[i] = src[j]
  <2>1. PICK k : k = i + Len(a) - Len(g)
    OBVIOUS
  <2>2. i \in 1 .. Len(g) /\ Len(f) \in Nat /\ Len(g) \in Nat
    BY <1>4, LenProperties
  <2>3. k \in 1 .. Len(f) + 1 /\ g[i] = a[k] /\ new[i] = b[k]
    <3>1. PICK lf, la, lg, w : lf = Len(f) /\ la = Len(a) /\ lg = Len(g) /\ w = Window
      OBVIOUS
    <3>2. /\ lf \in Nat /\ la = lf + 1 /\ w \in Nat \ {0} /\ lg = IF la > w THEN w ELSE la
          /\ i \in 1 .. lg /\ k = i + la - lg
      BY <1>0, <1>2, <1>4, <2>1, <2>2, <3>1
    <3>3. k \in 1 .. lf + 1
      BY <3>2
    <3> QED
      BY <1>4, <2>1, <2>2, <3>1, <3>3
  <2>4. CASE k = Len(f) + 1
    BY <1>2, <2>3, <2>4
  <2>5. CASE k \in 1 .. Len(f)
    BY <1>2, <2>3, <2>5, LenProperties
  <2> QED
    BY <2>2, <2>3, <2>4, <2>5
<1>6. Len(g) <= Window
  BY <1>0, <1>2, <1>4, LenProperties
<1> QED
  BY <1>1, <1>3, <1>4, <1>5, <1>6 DEF Add, Grown

LEMMA RecentFacts ==
  ASSUME NEW p, NEW t1
  PROVE  /\ DOMAIN Recent(p, t1) \subseteq DOMAIN p
         /\ \A s \in DOMAIN Recent(p, t1) : Recent(p, t1)[s] = p[s] /\ p[s].t1 >= t1 - PendingLife
  BY DEF Recent, Restrict

\* The entries after a send: a new one, and old ones, none older than PendingLife.
LEMMA SendReqFacts ==
  ASSUME SendReq
  PROVE  /\ DOMAIN pending' \subseteq DOMAIN pending \union {seq_id}
         /\ \A s \in DOMAIN pending' :
              /\ pending'[s] = IF s = seq_id THEN [t1 |-> Clock("init"), t2 |-> 0] ELSE pending[s]
              /\ pending'[s].t1 >= Clock("init") - PendingLife
<1>1. PICK t1 : t1 = Clock("init")
  OBVIOUS
<1>2. PICK p : p = [s \in DOMAIN pending \union {seq_id} |-> IF s = seq_id THEN [t1 |-> t1, t2 |-> 0] ELSE pending[s]]
  OBVIOUS
<1>3. pending' = Recent(p, t1)
  BY <1>1, <1>2 DEF SendReq
<1>4. /\ DOMAIN pending' \subseteq DOMAIN p
      /\ \A s \in DOMAIN pending' : pending'[s] = p[s] /\ p[s].t1 >= t1 - PendingLife
  BY <1>3, RecentFacts
<1> QED
  BY <1>1, <1>2, <1>4

\* The entries after a response: t2 of one of them.
LEMMA OnRespFacts ==
  ASSUME TypeOK, NEW m \in net, OnResp(m)
  PROVE  /\ DOMAIN pending' = DOMAIN pending
         /\ \A s \in DOMAIN pending : /\ pending'[s].t1 = pending[s].t1
                                      /\ pending'[s].t2 = IF s = m.seq THEN m.t ELSE pending[s].t2
                                      /\ pending'[s] \in [t1 : Nat \ {0}, t2 : Nat]
<1>1. m.t \in Nat
  BY DEF TypeOK, Message
<1> QED
  BY <1>1 DEF OnResp, TypeOK

LEMMA OnRespFUFacts ==
  ASSUME NEW m \in net, OnRespFU(m)
  PROVE  /\ DOMAIN pending' \subseteq DOMAIN pending
         /\ \A s \in DOMAIN pending' : pending'[s] = pending[s]
  BY DEF OnRespFU, Restrict

LEMMA ClockFacts ==
  ASSUME TypeOK, NEW il, NEW ih, NEW rl, NEW rh, Stepped(il, ih, rl, rh)
  PROVE  /\ now \in Nat /\ offset["init"] \in Int /\ offset["resp"] \in Int /\ adjusted \in Nat
         /\ Clock("init") = Epoch + now + offset["init"] /\ Clock("init") \in Nat \ {0}
         /\ Clock("resp") = Epoch + now + offset["resp"] /\ Clock("resp") \in Nat \ {0}
  BY PeerDelayAssumption DEF TypeOK, Stepped, Nodes, Clock

LEMMA MessageFacts ==
  ASSUME TypeOK
  PROVE  \A m \in net : /\ m \in Message /\ m.type \in {"req", "resp", "fu"}
                        /\ m.seq \in 0 .. SeqMod - 1 /\ m.seq \in Nat /\ m.at \in Nat /\ m.t \in Nat
  BY PeerDelayAssumption DEF TypeOK, Message

LEMMA NextNumber ==
  ASSUME NEW x \in 0 .. SeqMod - 1
  PROVE  (x + 1) % SeqMod = IF x + 1 = SeqMod THEN 0 ELSE x + 1
<1>1. CASE x + 1 = SeqMod
  BY <1>1, PeerDelayAssumption
<1>2. CASE x + 1 \in 0 .. SeqMod - 1
  BY <1>2, PeerDelayAssumption
<1> QED
  BY <1>1, <1>2, PeerDelayAssumption

-----------------------------------------------------------------------------
(***************************************************************************)
(* Types.                                                                  *)
(***************************************************************************)
LEMMA TypesInit == Init => TypeOK
<1>1. ASSUME Init PROVE TypeOK
  <2>1. /\ samples = << >> /\ sources = << >> /\ Len(samples) = 0 /\ Len(sources) = 0
        /\ samples \in Seq(Nat \ {0}) /\ sources \in Seq(0 .. SeqMod - 1)
    BY <1>1, EmptySeq DEF Init
  <2>2. DOMAIN pending = {} /\ net = {}
    BY <1>1 DEF Init
  <2>3. offset \in [Nodes -> Int]
    BY <1>1 DEF Init
  <2> QED
    BY <1>1, <2>1, <2>2, <2>3, PeerDelayAssumption, WindowAssumption DEF Init, TypeOK
<1> QED
  BY <1>1

LEMMA TypesStep ==
  ASSUME TypeOK, NEW il, NEW ih, NEW rl, NEW rh, Stepped(il, ih, rl, rh), [Next]_vars
  PROVE  TypeOK'
<1>0. /\ now \in Nat /\ Clock("init") \in Nat \ {0} /\ Clock("resp") \in Nat \ {0}
      /\ \A m \in net : m \in Message /\ m.seq \in 0 .. SeqMod - 1 /\ m.t \in Nat
  BY ClockFacts, MessageFacts
<1>1. CASE SendReq
  <2>1. seq_id' \in 0 .. SeqMod - 1 /\ next_req' \in Nat /\ seq_id \in 0 .. SeqMod - 1
    BY <1>0, <1>1, NextNumber, PeerDelayAssumption DEF SendReq, TypeOK
  <2>2. [type |-> "req", seq |-> seq_id, at |-> now, t |-> 0] \in Message
    BY <1>0, <2>1 DEF Message
  <2>3. net' \subseteq Message
    BY <1>1, <2>2 DEF SendReq, TypeOK
  <2>4. [t1 |-> Clock("init"), t2 |-> 0] \in [t1 : Nat \ {0}, t2 : Nat]
    BY <1>0
  <2>5. /\ DOMAIN pending' \subseteq 0 .. SeqMod - 1
        /\ \A s \in DOMAIN pending' : pending'[s] \in [t1 : Nat \ {0}, t2 : Nat]
    BY <1>1, <2>1, <2>4, SendReqFacts DEF TypeOK
  <2> QED
    BY <1>1, <2>1, <2>3, <2>5 DEF SendReq, TypeOK, filter, ghosts
<1>2. CASE SendFollowUp
  <2>1. [type |-> "fu", seq |-> responder, at |-> now, t |-> Clock("resp")] \in Message
    BY <1>0, <1>2 DEF SendFollowUp, Message, TypeOK
  <2> QED
    BY <1>2, <2>1 DEF SendFollowUp, TypeOK, session, filter, ghosts
<1>3. ASSUME NEW m \in net, OnReq(m) PROVE TypeOK'
  <2>1. [type |-> "resp", seq |-> m.seq, at |-> now, t |-> Clock("resp")] \in Message
    BY <1>0 DEF Message
  <2> QED
    BY <1>0, <1>3, <2>1 DEF OnReq, TypeOK, session, filter, ghosts
<1>4. ASSUME NEW m \in net, OnResp(m) PROVE TypeOK'
  BY <1>4, OnRespFacts DEF OnResp, TypeOK, filter, ghosts
<1>5. ASSUME NEW m \in net, OnRespFU(m) PROVE TypeOK'
  <2>1. PICK d : /\ d = MeasuredDelay(pending[m.seq].t1, pending[m.seq].t2, m.t, Clock("init"))
                 /\ samples' = Add(samples, d)
                 /\ sources' = IF d > 0 THEN Last(Append(sources, m.seq), Window) ELSE sources
    BY <1>5 DEF OnRespFU
  <2>2. d \in Int
    BY <1>0, <1>5, <2>1 DEF OnRespFU, TypeOK, MeasuredDelay
  <2>3. /\ samples' \in Seq(Nat \ {0}) /\ sources' \in Seq(0 .. SeqMod - 1)
        /\ Len(samples') = Len(sources') /\ Len(samples') <= Window
    <3>1. CASE d > 0
      <4>1. d \in Nat \ {0}
        BY <2>2, <3>1
      <4>2. PICK T : T = 0 .. SeqMod - 1
        OBVIOUS
      <4>3. /\ samples \in Seq(Nat \ {0}) /\ sources \in Seq(T) /\ m.seq \in T
            /\ Len(samples) = Len(sources) /\ Len(samples) <= Window
        BY <1>0, <4>2 DEF TypeOK
      <4>4. PICK g, new : /\ g = Add(samples, d) /\ new = Last(Append(sources, m.seq), Window)
                          /\ g \in Seq(Nat \ {0}) /\ new \in Seq(T) /\ Len(g) = Len(new) /\ Len(g) <= Window
        BY <4>1, <4>3, AddFacts
      <4> QED
        BY <2>1, <3>1, <4>2, <4>4
    <3>2. CASE ~ d > 0
      BY <2>1, <3>2 DEF Add, TypeOK
    <3> QED
      BY <3>1, <3>2
  <2> QED
    BY <1>5, <2>3, OnRespFUFacts DEF OnRespFU, TypeOK, ghosts
<1>6. ASSUME NEW n \in Nodes, NEW k \in Steps, Adjust(n, k) PROVE TypeOK'
  <2>1. k \in Int /\ Size(k) \in Nat
    BY PeerDelayAssumption DEF Size
  <2>2. adjusted' \in 0 .. MaxAdjusted /\ offset' \in [Nodes -> Int]
    BY <1>6, <2>1 DEF Adjust, TypeOK
  <2> QED
    BY <1>6, <2>2 DEF Adjust, TypeOK, session, filter
<1>7. CASE Restart
  <2>1. /\ samples' = << >> /\ sources' = << >> /\ Len(samples') = 0 /\ Len(sources') = 0
        /\ samples' \in Seq(Nat \ {0}) /\ sources' \in Seq(0 .. SeqMod - 1)
    BY <1>7, EmptySeq DEF Restart
  <2>2. DOMAIN pending' = {} /\ DOMAIN pending' \subseteq 0 .. SeqMod - 1
    BY <1>7 DEF Restart
  <2>3. reused' \subseteq 0 .. SeqMod - 1
    <3>1. reused' = reused \union {m.seq : m \in net} \union ({responder} \ {NoRequest})
      BY <1>7 DEF Restart
    <3>2. {m.seq : m \in net} \subseteq 0 .. SeqMod - 1
      BY <1>0
    <3>3. {responder} \ {NoRequest} \subseteq 0 .. SeqMod - 1 /\ reused \subseteq 0 .. SeqMod - 1
      BY DEF TypeOK
    <3> QED
      BY <3>1, <3>2, <3>3
  <2>4. restarts' \in 0 .. MaxRestarts
    BY <1>7, PeerDelayAssumption DEF Restart, TypeOK
  <2>5. offset' \in [Nodes -> Int]
    <3>1. offset \in [Nodes -> Int]
      BY DEF TypeOK
    <3>2. offset' = [offset EXCEPT !["init"] = 0]
      BY <1>7 DEF Restart
    <3>3. \A n \in Nodes : [offset EXCEPT ![n] = 0] \in [Nodes -> Int]
      BY <3>1
    <3> QED
      BY <3>2, <3>3 DEF Nodes
  <2> QED
    BY <1>0, <1>7, <2>1, <2>2, <2>3, <2>4, <2>5, PeerDelayAssumption, WindowAssumption DEF Restart, TypeOK
<1>8. CASE Stop
  BY <1>8 DEF Stop, TypeOK, filter, ghosts
<1>9. CASE Tick
  BY <1>9, PeerDelayAssumption DEF Tick, TypeOK, session, filter, ghosts
<1>10. CASE UNCHANGED vars
  BY <1>10 DEF vars, session, filter, ghosts, TypeOK
<1> QED
  BY <1>1, <1>2, <1>3, <1>4, <1>5, <1>6, <1>7, <1>8, <1>9, <1>10 DEF Next, Dispatch

-----------------------------------------------------------------------------
(***************************************************************************)
(* What the messages and the entries tell is kept by every step.           *)
(***************************************************************************)
LEMMA InFlightStep ==
  ASSUME TypeOK, TypeOK', InFlight, [Next]_vars
  PROVE  InFlight'
<1>0. now \in Nat /\ MaxDelay \in Nat /\ \A m \in net : m.at \in Nat
  BY MessageFacts, PeerDelayAssumption DEF TypeOK
<1>1. CASE Tick
  BY <1>0, <1>1 DEF Tick, InFlight
<1>2. ASSUME now' = now, \A m \in net' : m \in net \/ m.at = now PROVE InFlight'
  BY <1>0, <1>2 DEF InFlight
<1>3. CASE SendReq
  BY <1>2, <1>3 DEF SendReq
<1>4. CASE SendFollowUp
  BY <1>2, <1>4 DEF SendFollowUp
<1>5. ASSUME NEW m \in net, Dispatch(m) PROVE InFlight'
  BY <1>2, <1>5 DEF Dispatch, OnReq, OnResp, OnRespFU
<1>6. ASSUME NEW n \in Nodes, NEW k \in Steps, Adjust(n, k) PROVE InFlight'
  BY <1>2, <1>6 DEF Adjust
<1>7. CASE Restart \/ Stop
  BY <1>2, <1>7 DEF Restart, Stop
<1>8. CASE UNCHANGED vars
  BY <1>2, <1>8 DEF vars
<1> QED
  BY <1>1, <1>3, <1>4, <1>5, <1>6, <1>7, <1>8 DEF Next

\* No session uses up its numbers: time ends before.
LEMMA NumbersLeft ==
  ASSUME TypeOK, NEW n \in Nat, Numbered(n), SendReq
  PROVE  n # SeqMod
  BY PeerDelayAssumption DEF SendReq, Numbered, TypeOK

LEMMA NumberedStep ==
  ASSUME TypeOK, TypeOK', NEW n \in Nat, Numbered(n), [Next]_vars
  PROVE  \E k \in Nat : Numbered(k)'
<1>0. /\ now \in Nat /\ next_req \in Nat /\ SeqMod \in Nat \ {0} /\ Interval \in Nat \ {0}
      /\ \A m \in net : m.seq \in Nat
  BY MessageFacts, PeerDelayAssumption DEF TypeOK
<1>1. CASE SendReq
  <2>1. n # SeqMod
    BY <1>1, NumbersLeft
  <2>2. n \in 0 .. SeqMod - 1 /\ seq_id = n
    BY <2>1, PeerDelayAssumption DEF Numbered
  <2>3. seq_id' = IF n + 1 = SeqMod THEN 0 ELSE n + 1
    BY <1>1, <2>2, NextNumber DEF SendReq
  <2>4. (n + 1) * Interval = n * Interval + Interval /\ n * Interval \in Int
    BY <1>0
  <2>5. (n + 1) * Interval <= next_req'
    BY <1>0, <1>1, <2>4 DEF SendReq, Numbered
  <2>6. UNCHANGED <<reused, responder>> /\ \A m \in net' : m \in net \/ m.seq = n
    BY <1>1, <2>2 DEF SendReq, ghosts
  <2>7. \A m \in net' : m.seq \in reused' \/ m.seq < n + 1
    BY <1>0, <2>2, <2>6 DEF Numbered
  <2>8. responder' # NoRequest => responder' \in reused' \/ responder' < n + 1
    <3>1. responder # NoRequest => responder \in Int
      BY <1>0 DEF TypeOK
    <3>2. responder # NoRequest => responder \in reused \/ responder < n
      BY DEF Numbered
    <3>3. responder # NoRequest => responder \in reused \/ responder < n + 1
      BY <3>1, <3>2
    <3> QED
      BY <2>6, <3>3
  <2>9. n + 1 \in 0 .. SeqMod /\ n + 1 \in Nat
    BY <1>0, <2>2
  <2>10. Numbered(n + 1)'
    BY <2>3, <2>5, <2>7, <2>8, <2>9 DEF Numbered
  <2> QED
    BY <2>9, <2>10
<1>2. CASE Restart
  <2>1. /\ seq_id' = 0 /\ next_req' = now /\ net' = net /\ responder' = responder
        /\ reused' = reused \union {m.seq : m \in net} \union ({responder} \ {NoRequest})
    BY <1>2 DEF Restart
  <2>2. \A m \in net' : m.seq \in reused'
    BY <2>1
  <2>3. responder' # NoRequest => responder' \in reused'
    BY <2>1
  <2>4. 0 * Interval = 0
    BY <1>0
  <2>5. Numbered(0)'
    BY <1>0, <2>1, <2>2, <2>3, <2>4 DEF Numbered
  <2> QED
    BY <2>5
<1>3. ASSUME UNCHANGED <<seq_id, next_req, reused>>,
             \A m \in net' : \/ m \in net
                             \/ m.seq = responder /\ responder # NoRequest
                             \/ \E r \in net : m.seq = r.seq,
             responder' = responder \/ responder' = NoRequest \/ \E r \in net : responder' = r.seq
      PROVE  \E k \in Nat : Numbered(k)'
  <2>1. Numbered(n)'
    BY <1>3 DEF Numbered
  <2> QED
    BY <2>1
<1>4. CASE SendFollowUp
  BY <1>3, <1>4 DEF SendFollowUp, session, ghosts
<1>5. ASSUME NEW m \in net, OnReq(m) PROVE \E k \in Nat : Numbered(k)'
  BY <1>3, <1>5 DEF OnReq, session, ghosts
<1>6. ASSUME NEW m \in net, OnResp(m) \/ OnRespFU(m) PROVE \E k \in Nat : Numbered(k)'
  BY <1>3, <1>6 DEF OnResp, OnRespFU, ghosts
<1>7. ASSUME NEW i \in Nodes, NEW k \in Steps, Adjust(i, k) PROVE \E j \in Nat : Numbered(j)'
  BY <1>3, <1>7 DEF Adjust, session
<1>8. CASE Stop \/ Tick
  BY <1>3, <1>8 DEF Stop, Tick, session, ghosts
<1>9. CASE UNCHANGED vars
  BY <1>3, <1>9 DEF vars, session, ghosts
<1> QED
  BY <1>1, <1>2, <1>4, <1>5, <1>6, <1>7, <1>8, <1>9 DEF Next, Dispatch

\* Fewer messages and entries, or wider ranges.
LEMMA ReadingsFewer ==
  ASSUME TypeOK, NEW il \in Int, NEW ih \in Int, NEW rl \in Int, NEW rh \in Int, Readings(il, ih, rl, rh),
         NEW jl \in Int, NEW jh \in Int, NEW ql \in Int, NEW qh \in Int,
         jl <= il, ih <= jh, ql <= rl, rh <= qh,
         net' \subseteq net, reused \subseteq reused', DOMAIN pending' \subseteq DOMAIN pending,
         \A s \in DOMAIN pending' : pending'[s] = pending[s]
  PROVE  Readings(jl, jh, ql, qh)'
<1>0. /\ \A m \in net : m.at \in Nat /\ m.t \in Nat
      /\ \A s \in DOMAIN pending : pending[s].t1 \in Nat /\ pending[s].t2 \in Nat
      /\ Epoch \in Nat /\ MinDelay \in Nat /\ MaxDelay \in Nat
  BY MessageFacts, PeerDelayAssumption DEF TypeOK
<1>1. \A d \in Int : Passed(d, il, ih, rl, rh) => Passed(d, jl, jh, ql, qh)
  BY <1>0 DEF Passed
<1>2. \A m \in net' : m.type \in {"resp", "fu"} => m.t - Epoch - m.at \in ql .. qh
  BY <1>0 DEF Readings
<1>3. ASSUME NEW s \in DOMAIN pending' \ reused'
      PROVE  /\ \A m \in net' : m.seq = s =>
                  /\ m.type = "req" => pending'[s].t1 - Epoch - m.at \in jl .. jh
                  /\ m.type = "resp" => Passed(m.t - pending'[s].t1, jl, jh, ql, qh)
             /\ pending'[s].t2 # 0 => Passed(pending'[s].t2 - pending'[s].t1, jl, jh, ql, qh)
  <2>1. s \in DOMAIN pending \ reused /\ pending'[s] = pending[s]
    OBVIOUS
  <2>2. ASSUME NEW m \in net', m.seq = s
        PROVE  /\ m.type = "req" => pending'[s].t1 - Epoch - m.at \in jl .. jh
               /\ m.type = "resp" => Passed(m.t - pending'[s].t1, jl, jh, ql, qh)
    <3>1. /\ m.type = "req" => pending[s].t1 - Epoch - m.at \in il .. ih
          /\ m.type = "resp" => Passed(m.t - pending[s].t1, il, ih, rl, rh)
      BY <2>1, <2>2 DEF Readings
    <3> QED
      BY <1>0, <1>1, <2>1, <3>1
  <2>3. pending[s].t2 # 0 => Passed(pending[s].t2 - pending[s].t1, il, ih, rl, rh)
    BY <2>1 DEF Readings
  <2> QED
    BY <1>0, <1>1, <2>1, <2>2, <2>3
<1> QED
  BY <1>2, <1>3 DEF Readings, Passed

LEMMA WaitingFewer ==
  ASSUME TypeOK, TypeOK', NEW il \in Int, NEW ih \in Int, NEW sends, NEW last, Waiting(sends, last, il, ih),
         NEW jl \in Int, NEW jh \in Int, jl <= il, ih <= jh,
         next_req' = next_req, now <= now', adjusted <= adjusted', DOMAIN pending' \subseteq DOMAIN pending,
         \A s \in DOMAIN pending' : pending'[s].t1 = pending[s].t1
  PROVE  Waiting(sends, last, jl, jh)'
<1>0. /\ now \in Nat /\ now' \in Nat /\ adjusted \in Nat /\ adjusted' \in Nat /\ last \in Int
      /\ \A x \in sends : x.at \in Nat
      /\ Epoch \in Nat /\ PendingLife \in Nat
  BY PeerDelayAssumption DEF TypeOK, Waiting, Spaced, Sends
<1>1. \A x \in sends : x.at <= now'
  BY <1>0 DEF Waiting
<1>2. ASSUME NEW s \in DOMAIN pending'
      PROVE  \E x \in sends : /\ x.seq = s /\ pending'[s].t1 - Epoch - x.at \in jl .. jh
                              /\ x.at \in last - PendingLife - adjusted' .. last
  <2>1. PICK x \in sends : /\ x.seq = s /\ pending[s].t1 - Epoch - x.at \in il .. ih
                           /\ x.at \in last - PendingLife - adjusted .. last
    BY DEF Waiting
  <2>2. pending'[s].t1 = pending[s].t1 /\ pending[s].t1 \in Nat
    BY DEF TypeOK
  <2> QED
    BY <1>0, <2>1, <2>2
<1> QED
  BY <1>1, <1>2 DEF Waiting
\* One more message, not a request.
LEMMA ReadingsMore ==
  ASSUME TypeOK, NEW il \in Int, NEW ih \in Int, NEW rl \in Int, NEW rh \in Int, Readings(il, ih, rl, rh),
         NEW r, net' = net \union {r}, r.type # "req", r.t - Epoch - r.at \in rl .. rh,
         r.type = "resp" /\ r.seq \in DOMAIN pending \ reused
           => Passed(r.t - pending[r.seq].t1, il, ih, rl, rh),
         pending' = pending, reused' = reused
  PROVE  Readings(il, ih, rl, rh)'
<1>1. \A m \in net' : m.type \in {"resp", "fu"} => m.t - Epoch - m.at \in rl .. rh
  BY DEF Readings
<1>2. ASSUME NEW s \in DOMAIN pending \ reused
      PROVE  /\ \A m \in net' : m.seq = s =>
                  /\ m.type = "req" => pending[s].t1 - Epoch - m.at \in il .. ih
                  /\ m.type = "resp" => Passed(m.t - pending[s].t1, il, ih, rl, rh)
             /\ pending[s].t2 # 0 => Passed(pending[s].t2 - pending[s].t1, il, ih, rl, rh)
  BY DEF Readings
<1> QED
  BY <1>1, <1>2 DEF Readings, Passed

\* A response comes one delay after its request was read, by the other clock.
LEMMA ResponsePassed ==
  ASSUME TypeOK, InFlight, NEW il, NEW ih, NEW rl, NEW rh, Stepped(il, ih, rl, rh), Readings(il, ih, rl, rh),
         NEW m \in net, m.type = "req", now - m.at >= MinDelay, m.seq \in DOMAIN pending \ reused
  PROVE  Passed(Clock("resp") - pending[m.seq].t1, il, ih, rl, rh)
<1>1. /\ Clock("resp") = Epoch + now + offset["resp"] /\ now \in Nat /\ offset["resp"] \in rl .. rh
      /\ il \in Int /\ ih \in Int /\ rl \in Int /\ rh \in Int
      /\ MinDelay \in Nat /\ MaxDelay \in Nat /\ Epoch \in Nat
  BY ClockFacts, PeerDelayAssumption DEF Stepped
<1>2. pending[m.seq].t1 \in Nat /\ m.at \in Nat /\ m.at \in now - MaxDelay .. now
  BY MessageFacts DEF TypeOK, InFlight
<1>3. pending[m.seq].t1 - Epoch - m.at \in il .. ih
  BY DEF Readings
<1>4. PICK o, c, t1, at : /\ o = offset["resp"] /\ c = Clock("resp")
                          /\ t1 = pending[m.seq].t1 /\ at = m.at
  OBVIOUS
<1>5. c - t1 \in MinDelay + rl - ih .. MaxDelay + rh - il
  BY <1>1, <1>2, <1>3, <1>4
<1> QED
  BY <1>4, <1>5 DEF Passed

\* A request: the readings that go with it and with the entries kept.
LEMMA ReadingsSend ==
  ASSUME TypeOK, NEW n \in Nat, Numbered(n), n # SeqMod,
         NEW il, NEW ih, NEW rl, NEW rh, Stepped(il, ih, rl, rh), Readings(il, ih, rl, rh), SendReq
  PROVE  Readings(il, ih, rl, rh)'
<1>0. /\ Clock("init") = Epoch + now + offset["init"] /\ now \in Nat /\ offset["init"] \in il .. ih
      /\ il \in Int /\ ih \in Int /\ Epoch \in Nat
  BY ClockFacts, PeerDelayAssumption DEF Stepped
<1>1. PICK r : r = [type |-> "req", seq |-> seq_id, at |-> now, t |-> 0]
  OBVIOUS
<1>2. net' = net \union {r} /\ reused' = reused
  BY <1>1 DEF SendReq, ghosts
<1>3. r.type = "req" /\ r.seq = seq_id /\ r.at = now
  BY <1>1
<1>4. \A m \in net : m.seq = seq_id => m.seq \in reused
  <2>1. seq_id = n /\ \A m \in net : m.seq \in Nat
    BY MessageFacts DEF Numbered
  <2>2. \A m \in net : m.seq \in reused \/ m.seq < n
    BY DEF Numbered
  <2> QED
    BY <2>1, <2>2
<1>5. \A m \in net' : m.type \in {"resp", "fu"} => m.t - Epoch - m.at \in rl .. rh
  BY <1>2, <1>3 DEF Readings
<1>6. ASSUME NEW s \in DOMAIN pending' \ reused'
      PROVE  /\ \A m \in net' : m.seq = s =>
                  /\ m.type = "req" => pending'[s].t1 - Epoch - m.at \in il .. ih
                  /\ m.type = "resp" => Passed(m.t - pending'[s].t1, il, ih, rl, rh)
             /\ pending'[s].t2 # 0 => Passed(pending'[s].t2 - pending'[s].t1, il, ih, rl, rh)
  <2>1. CASE s = seq_id
    <3>1. PICK c : c = Clock("init")
      OBVIOUS
    <3>2. pending'[s] = [t1 |-> c, t2 |-> 0]
      BY <2>1, <3>1, SendReqFacts
    <3>3. pending'[s].t1 = c /\ pending'[s].t2 = 0
      BY <3>2
    <3>4. c - Epoch - now \in il .. ih
      BY <1>0, <3>1
    <3>5. \A m \in net' : m.seq = s => m = r
      BY <1>2, <1>4, <2>1
    <3> QED
      BY <1>3, <3>3, <3>4, <3>5
  <2>2. CASE s # seq_id
    <3>1. s \in DOMAIN pending \ reused /\ pending'[s] = pending[s]
      BY <1>2, <2>2, SendReqFacts
    <3>2. \A m \in net' : m.seq = s => m \in net
      BY <1>2, <1>3, <2>2
    <3> QED
      BY <3>1, <3>2 DEF Readings
  <2> QED
    BY <2>1, <2>2
<1> QED
  BY <1>5, <1>6 DEF Readings, Passed

\* What is kept at a send was sent no longer ago than its age, by a clock that was stepped.
LEMMA WaitingSend ==
  ASSUME TypeOK, TypeOK', NEW il, NEW ih, NEW rl, NEW rh, Stepped(il, ih, rl, rh),
         NEW sends, NEW last, Waiting(sends, last, il, ih), SendReq
  PROVE  \E more : Waiting(more, now, il, ih)'
<1>0. /\ Clock("init") = Epoch + now + offset["init"] /\ now \in Nat /\ offset["init"] \in il .. ih
      /\ il \in Int /\ ih \in Int /\ Epoch \in Nat /\ adjusted \in Nat /\ ih - il <= adjusted
      /\ PendingLife \in Nat /\ Interval \in Nat \ {0} /\ next_req \in Nat
  <2>1. /\ Clock("init") = Epoch + now + offset["init"] /\ now \in Nat /\ adjusted \in Nat
    BY ClockFacts
  <2>2. /\ offset["init"] \in il .. ih /\ il \in Int /\ ih \in Int /\ rl \in Int /\ rh \in Int
        /\ 0 \in rl .. rh /\ (ih - il) + (rh - rl) <= adjusted
    BY DEF Stepped
  <2>3. ih - il <= adjusted
    BY <2>1, <2>2
  <2> QED
    BY <2>1, <2>2, <2>3, PeerDelayAssumption DEF TypeOK
<1>1. /\ now' = now /\ adjusted' = adjusted /\ next_req' = now + Interval /\ next_req <= now
  BY <1>0 DEF SendReq, ghosts
<1>2. PICK new : new = [seq |-> seq_id, at |-> now]
  OBVIOUS
<1>3. new \in Sends /\ new.seq = seq_id /\ new.at = now
  BY <1>0, <1>2, PeerDelayAssumption DEF Sends, TypeOK
<1>4. \A x \in sends : x.at \in Nat /\ x.at <= now /\ x.at + Interval <= now
  <2>1. \A x \in sends : x.at \in Nat /\ x.at + Interval <= next_req
    BY DEF Waiting, Spaced, Sends
  <2> QED
    BY <1>0, <1>1, <2>1
<1>5. Spaced(sends \union {new}, Interval)
  BY <1>0, <1>3, <1>4, SpacedMore DEF Waiting
<1>6. \A x \in sends \union {new} : x.at <= now' /\ x.at + Interval <= next_req'
  BY <1>0, <1>1, <1>3, <1>4
<1>7. ASSUME NEW s \in DOMAIN pending'
      PROVE  \E x \in sends \union {new} : /\ x.seq = s /\ pending'[s].t1 - Epoch - x.at \in il .. ih
                                           /\ x.at \in now - PendingLife - adjusted' .. now
  <2>0. PICK c : c = Clock("init")
    OBVIOUS
  <2>1. CASE s = seq_id
    <3>1. pending'[s] = [t1 |-> c, t2 |-> 0]
      BY <2>0, <2>1, SendReqFacts
    <3>2. pending'[s].t1 = c
      BY <3>1
    <3>3. c - Epoch - now \in il .. ih /\ now \in now - PendingLife - adjusted' .. now
      BY <1>0, <1>1, <2>0
    <3> QED
      BY <1>3, <2>1, <3>2, <3>3
  <2>2. CASE s # seq_id
    <3>1. s \in DOMAIN pending /\ pending'[s] = pending[s] /\ pending[s].t1 >= c - PendingLife
      BY <2>0, <2>2, SendReqFacts
    <3>2. PICK x \in sends : x.seq = s /\ pending[s].t1 - Epoch - x.at \in il .. ih
      BY <3>1 DEF Waiting
    <3>3. PICK t1, at : t1 = pending[s].t1 /\ at = x.at
      OBVIOUS
    <3>4. t1 \in Nat /\ at \in Nat /\ at <= now
      BY <1>4, <3>1, <3>3 DEF TypeOK
    <3>5. at \in now - PendingLife - adjusted .. now
      BY <1>0, <2>0, <3>1, <3>2, <3>3, <3>4
    <3> QED
      BY <1>1, <3>1, <3>2, <3>3, <3>5
  <2> QED
    BY <2>1, <2>2
<1>8. Waiting(sends \union {new}, now, il, ih)'
  BY <1>0, <1>1, <1>5, <1>6, <1>7 DEF Waiting
<1> QED
  BY <1>8
LEMMA MeasuredInit ==
  ASSUME Init, TypeOK
  PROVE  Measured(0, 0, 0, 0)
<1>1. /\ offset["init"] = 0 /\ offset["resp"] = 0 /\ adjusted = 0
      /\ DOMAIN pending = {} /\ net = {}
  BY DEF Init, Nodes
<1>2. Waiting({}, 0, 0, 0)
  BY <1>1 DEF Waiting, Spaced
<1>3. Stepped(0, 0, 0, 0) /\ Readings(0, 0, 0, 0)
  BY <1>1 DEF Stepped, Readings
<1> QED
  BY <1>2, <1>3 DEF Measured

\* What holds of the ranges when a clock takes a step.
LEMMA SteppedAdjust ==
  ASSUME TypeOK, NEW il, NEW ih, NEW rl, NEW rh, Stepped(il, ih, rl, rh),
         NEW n \in Nodes, NEW k \in Int, Adjust(n, k)
  PROVE  \E jl, jh, ql, qh \in Int :
           Stepped(jl, jh, ql, qh)' /\ jl <= il /\ ih <= jh /\ ql <= rl /\ rh <= qh
<1>0. /\ il \in Int /\ ih \in Int /\ rl \in Int /\ rh \in Int /\ 0 \in il .. ih /\ 0 \in rl .. rh
      /\ offset["init"] \in il .. ih /\ offset["resp"] \in rl .. rh /\ adjusted \in Nat
      /\ (ih - il) + (rh - rl) <= adjusted
  BY DEF Stepped, TypeOK
<1>1. PICK a : a = Size(k)
  OBVIOUS
<1>2. a \in Nat /\ -a <= k /\ k <= a /\ (a = k \/ a = -k) /\ adjusted' = adjusted + a
  BY <1>1 DEF Size, Adjust
<1>3. CASE n = "init"
  <2>1. offset'["init"] = offset["init"] + k /\ offset'["resp"] = offset["resp"]
    BY <1>3 DEF Adjust, TypeOK, Nodes
  <2>2. PICK o : o = offset["init"]
    OBVIOUS
  <2>3. PICK jl, jh : jl = (IF o + k < il THEN o + k ELSE il) /\ jh = (IF o + k > ih THEN o + k ELSE ih)
    OBVIOUS
  <2>4. /\ jl \in Int /\ jh \in Int /\ jl <= il /\ ih <= jh /\ 0 \in jl .. jh /\ o + k \in jl .. jh
        /\ (jh - jl) + (rh - rl) <= adjusted + a
    BY <1>0, <1>2, <2>2, <2>3
  <2>5. Stepped(jl, jh, rl, rh)'
    BY <1>0, <1>2, <2>1, <2>2, <2>4 DEF Stepped
  <2> QED
    BY <1>0, <2>4, <2>5
<1>4. CASE n = "resp"
  <2>1. offset'["resp"] = offset["resp"] + k /\ offset'["init"] = offset["init"]
    BY <1>4 DEF Adjust, TypeOK, Nodes
  <2>2. PICK o : o = offset["resp"]
    OBVIOUS
  <2>3. PICK ql, qh : ql = (IF o + k < rl THEN o + k ELSE rl) /\ qh = (IF o + k > rh THEN o + k ELSE rh)
    OBVIOUS
  <2>4. /\ ql \in Int /\ qh \in Int /\ ql <= rl /\ rh <= qh /\ 0 \in ql .. qh /\ o + k \in ql .. qh
        /\ (ih - il) + (qh - ql) <= adjusted + a
    BY <1>0, <1>2, <2>2, <2>3
  <2>5. Stepped(il, ih, ql, qh)'
    BY <1>0, <1>2, <2>1, <2>2, <2>4 DEF Stepped
  <2> QED
    BY <1>0, <2>4, <2>5
<1> QED
  BY <1>3, <1>4 DEF Nodes

LEMMA MeasuredStep ==
  ASSUME TypeOK, TypeOK', InFlight, NEW n \in Nat, Numbered(n),
         NEW il, NEW ih, NEW rl, NEW rh, Measured(il, ih, rl, rh), [Next]_vars
  PROVE  \E jl, jh, ql, qh : Measured(jl, jh, ql, qh)'
<1>0. /\ Stepped(il, ih, rl, rh) /\ Readings(il, ih, rl, rh)
      /\ il \in Int /\ ih \in Int /\ rl \in Int /\ rh \in Int
  BY DEF Measured, Stepped
<1>a. PICK sends, last : Waiting(sends, last, il, ih)
  BY DEF Measured
<1>b. ASSUME UNCHANGED <<offset, adjusted>>
      PROVE  Stepped(il, ih, rl, rh)'
  BY <1>0, <1>b DEF Stepped
<1>c. ASSUME NEW jl \in Int, NEW jh \in Int, jl <= il, ih <= jh,
             next_req' = next_req, now <= now', adjusted <= adjusted', DOMAIN pending' \subseteq DOMAIN pending,
             \A s \in DOMAIN pending' : pending'[s].t1 = pending[s].t1
      PROVE  \E more, next : Waiting(more, next, jl, jh)'
  <2>1. Waiting(sends, last, jl, jh)'
    BY <1>0, <1>a, <1>c, WaitingFewer
  <2> QED
    BY <2>1
<1>d. now \in Nat /\ adjusted \in Nat
  BY DEF TypeOK
\* Steps that only take messages and entries away.
<1>e. ASSUME UNCHANGED <<offset, adjusted, next_req, reused>>, now <= now', net' \subseteq net,
             DOMAIN pending' \subseteq DOMAIN pending, \A s \in DOMAIN pending' : pending'[s] = pending[s]
      PROVE  \E jl, jh, ql, qh : Measured(jl, jh, ql, qh)'
  <2>1. Readings(il, ih, rl, rh)'
    <3>1. reused \subseteq reused' /\ il <= il /\ ih <= ih /\ rl <= rl /\ rh <= rh
      BY <1>0, <1>e
    <3> QED
      BY <1>0, <1>e, <3>1, ReadingsFewer
  <2>2. \E more, next : Waiting(more, next, il, ih)'
    BY <1>0, <1>c, <1>d, <1>e
  <2>3. Measured(il, ih, rl, rh)'
    BY <1>b, <1>e, <2>1, <2>2 DEF Measured
  <2> QED
    BY <2>3
<1>1. CASE SendReq
  <2>1. n # SeqMod
    BY <1>1, NumbersLeft
  <2>2. Readings(il, ih, rl, rh)'
    BY <1>0, <1>1, <2>1, ReadingsSend
  <2>3. \E more : Waiting(more, now, il, ih)'
    BY <1>0, <1>1, <1>a, WaitingSend
  <2>4. \E more, next : Waiting(more, next, il, ih)'
    BY <2>3
  <2>5. Measured(il, ih, rl, rh)'
    BY <1>1, <1>b, <2>2, <2>4 DEF Measured, SendReq, ghosts
  <2> QED
    BY <2>5
\* Steps that send an answer.
<1>f. ASSUME NEW r, net' = net \union {r}, r.type # "req", r.t = Clock("resp"), r.at = now,
             r.type = "resp" /\ r.seq \in DOMAIN pending \ reused
               => Passed(r.t - pending[r.seq].t1, il, ih, rl, rh),
             UNCHANGED <<now, offset, adjusted, next_req, pending, reused>>
      PROVE  \E jl, jh, ql, qh : Measured(jl, jh, ql, qh)'
  <2>1. r.t - Epoch - r.at \in rl .. rh
    <3>1. Clock("resp") = Epoch + now + offset["resp"] /\ offset["resp"] \in rl .. rh /\ Epoch \in Nat
      BY <1>0, ClockFacts, PeerDelayAssumption DEF Stepped
    <3>2. PICK t, at : t = r.t /\ at = r.at
      OBVIOUS
    <3>3. t - Epoch - at \in rl .. rh
      BY <1>0, <1>d, <1>f, <3>1, <3>2
    <3> QED
      BY <3>2, <3>3
  <2>2. Readings(il, ih, rl, rh)'
    BY <1>0, <1>f, <2>1, ReadingsMore
  <2>3. \E more, next : Waiting(more, next, il, ih)'
    BY <1>0, <1>c, <1>d, <1>f
  <2>4. Measured(il, ih, rl, rh)'
    BY <1>b, <1>f, <2>2, <2>3 DEF Measured
  <2> QED
    BY <2>4
<1>2. CASE SendFollowUp
  <2>1. PICK r : r = [type |-> "fu", seq |-> responder, at |-> now, t |-> Clock("resp")]
    OBVIOUS
  <2>2. r.type = "fu" /\ r.t = Clock("resp") /\ r.at = now
    BY <2>1
  <2>3. net' = net \union {r} /\ UNCHANGED <<now, offset, adjusted, next_req, pending, reused>>
    BY <1>2, <2>1 DEF SendFollowUp, session, ghosts
  <2> QED
    BY <1>f, <2>2, <2>3
<1>3. ASSUME NEW m \in net, OnReq(m)
      PROVE  \E jl, jh, ql, qh : Measured(jl, jh, ql, qh)'
  <2>1. PICK r : r = [type |-> "resp", seq |-> m.seq, at |-> now, t |-> Clock("resp")]
    OBVIOUS
  <2>2. r.type = "resp" /\ r.t = Clock("resp") /\ r.at = now /\ r.seq = m.seq
    BY <2>1
  <2>3. /\ net' = net \union {r} /\ UNCHANGED <<now, offset, adjusted, next_req, pending, reused>>
        /\ m.type = "req" /\ now - m.at >= MinDelay
    BY <1>3, <2>1 DEF OnReq, Deliverable, session, ghosts
  <2>4. m.seq \in DOMAIN pending \ reused => Passed(Clock("resp") - pending[m.seq].t1, il, ih, rl, rh)
    BY <1>0, <2>3, ResponsePassed
  <2> QED
    BY <1>f, <2>2, <2>3, <2>4
<1>4. ASSUME NEW m \in net, OnResp(m)
      PROVE  \E jl, jh, ql, qh : Measured(jl, jh, ql, qh)'
  <2>1. /\ UNCHANGED <<now, offset, adjusted, next_req, reused, net>>
        /\ m.type = "resp" /\ m.seq \in DOMAIN pending
    BY <1>4 DEF OnResp, ghosts
  <2>2. /\ DOMAIN pending' = DOMAIN pending
        /\ \A s \in DOMAIN pending : /\ pending'[s].t1 = pending[s].t1
                                     /\ pending'[s].t2 = IF s = m.seq THEN m.t ELSE pending[s].t2
    BY <1>4, OnRespFacts
  <2>3. Readings(il, ih, rl, rh)'
    <3>1. \A r \in net' : r.type \in {"resp", "fu"} => r.t - Epoch - r.at \in rl .. rh
      BY <1>0, <2>1 DEF Readings
    <3>2. ASSUME NEW s \in DOMAIN pending' \ reused'
          PROVE  /\ \A r \in net' : r.seq = s =>
                      /\ r.type = "req" => pending'[s].t1 - Epoch - r.at \in il .. ih
                      /\ r.type = "resp" => Passed(r.t - pending'[s].t1, il, ih, rl, rh)
                 /\ pending'[s].t2 # 0 => Passed(pending'[s].t2 - pending'[s].t1, il, ih, rl, rh)
      <4>1. s \in DOMAIN pending \ reused /\ pending'[s].t1 = pending[s].t1
        BY <2>1, <2>2
      <4>2. s = m.seq => Passed(m.t - pending[s].t1, il, ih, rl, rh)
        BY <1>0, <2>1, <4>1 DEF Readings
      <4>3. \A r \in net' : r.seq = s =>
                      /\ r.type = "req" => pending'[s].t1 - Epoch - r.at \in il .. ih
                      /\ r.type = "resp" => Passed(r.t - pending'[s].t1, il, ih, rl, rh)
        BY <1>0, <2>1, <4>1 DEF Readings
      <4>4. pending'[s].t2 # 0 => Passed(pending'[s].t2 - pending'[s].t1, il, ih, rl, rh)
        BY <1>0, <2>2, <4>1, <4>2 DEF Readings
      <4> QED
        BY <4>3, <4>4
    <3> QED
      BY <3>1, <3>2 DEF Readings, Passed
  <2>4. \E more, next : Waiting(more, next, il, ih)'
    BY <1>0, <1>c, <1>d, <2>1, <2>2
  <2>5. Measured(il, ih, rl, rh)'
    BY <1>b, <2>1, <2>3, <2>4 DEF Measured
  <2> QED
    BY <2>5
<1>5. ASSUME NEW m \in net, OnRespFU(m)
      PROVE  \E jl, jh, ql, qh : Measured(jl, jh, ql, qh)'
  <2>1. UNCHANGED <<now, offset, adjusted, next_req, reused, net>>
    BY <1>5 DEF OnRespFU, ghosts
  <2> QED
    BY <1>5, <1>d, <1>e, <2>1, OnRespFUFacts
<1>6. ASSUME NEW i \in Nodes, NEW k \in Steps, Adjust(i, k)
      PROVE  \E jl, jh, ql, qh : Measured(jl, jh, ql, qh)'
  <2>1. k \in Int /\ Size(k) \in Nat
    BY PeerDelayAssumption DEF Size
  <2>2. /\ UNCHANGED <<now, next_req, pending, net, reused>> /\ adjusted <= adjusted'
    BY <1>6, <1>d, <2>1 DEF Adjust, session
  <2>3. PICK jl \in Int, jh \in Int, ql \in Int, qh \in Int :
          Stepped(jl, jh, ql, qh)' /\ jl <= il /\ ih <= jh /\ ql <= rl /\ rh <= qh
    BY <1>0, <1>6, <2>1, SteppedAdjust
  <2>4. Readings(jl, jh, ql, qh)'
    BY <1>0, <2>2, <2>3, ReadingsFewer
  <2>5. \E more, next : Waiting(more, next, jl, jh)'
    BY <1>c, <1>d, <2>2, <2>3
  <2>6. Measured(jl, jh, ql, qh)'
    BY <2>3, <2>4, <2>5 DEF Measured
  <2> QED
    BY <2>6
<1>7. CASE Restart
  <2>1. DOMAIN pending' = {} /\ net' = net /\ adjusted' = adjusted
    BY <1>7 DEF Restart
  <2>2. offset'["init"] = 0 /\ offset'["resp"] = offset["resp"]
    BY <1>7 DEF Restart, TypeOK, Nodes
  <2>3. Stepped(il, ih, rl, rh)'
    BY <1>0, <2>1, <2>2 DEF Stepped
  <2>4. Readings(il, ih, rl, rh)'
    BY <1>0, <2>1 DEF Readings
  <2>5. Waiting({}, 0, il, ih)'
    BY <2>1 DEF Waiting, Spaced
  <2>6. Measured(il, ih, rl, rh)'
    BY <2>3, <2>4, <2>5 DEF Measured
  <2> QED
    BY <2>6
<1>8. CASE Stop
  <2>1. UNCHANGED <<now, offset, adjusted, next_req, reused, net, pending>>
    BY <1>8 DEF Stop, ghosts
  <2> QED
    BY <1>d, <1>e, <2>1
<1>9. CASE Tick
  <2>1. UNCHANGED <<offset, adjusted, next_req, reused, pending>> /\ now <= now' /\ net' \subseteq net
    BY <1>9, <1>d DEF Tick, session, ghosts
  <2> QED
    BY <1>e, <2>1
<1>10. CASE UNCHANGED vars
  <2>1. UNCHANGED <<now, offset, adjusted, next_req, reused, net, pending>>
    BY <1>10 DEF vars, session, ghosts
  <2> QED
    BY <1>d, <1>e, <2>1
<1> QED
  BY <1>1, <1>2, <1>3, <1>4, <1>5, <1>6, <1>7, <1>8, <1>9, <1>10 DEF Next, Dispatch
-----------------------------------------------------------------------------
(***************************************************************************)
(* The samples.                                                            *)
(***************************************************************************)
\* One exchange measures the path twice, with clocks that may have been stepped.
LEMMA ExchangeFacts ==
  ASSUME NEW t1 \in Int, NEW t2 \in Int, NEW t3 \in Int, NEW t4 \in Int, NEW at \in Int, NEW o \in Int,
         NEW il \in Int, NEW ih \in Int, NEW rl \in Int, NEW rh \in Int, now \in Int, adjusted \in Int,
         Passed(t2 - t1, il, ih, rl, rh), t3 - Epoch - at \in rl .. rh,
         t4 = Epoch + now + o, o \in il .. ih, now - at \in MinDelay .. MaxDelay,
         (ih - il) + (rh - rl) <= adjusted
  PROVE  Plausible(MeasuredDelay(t1, t2, t3, t4))
<1>0. Epoch \in Int /\ MinDelay \in Int /\ MaxDelay \in Int
  BY PeerDelayAssumption
<1>1. t2 - t1 \in MinDelay + rl - ih .. MaxDelay + rh - il
  BY DEF Passed
<1>2. PICK x : x = (t4 - t1) - (t3 - t2)
  OBVIOUS
<1>3. x \in Int /\ x >= 2 * MinDelay - adjusted /\ x <= 2 * MaxDelay + adjusted
  BY <1>0, <1>1, <1>2
<1>4. x \div 2 \in Int /\ 2 * (x \div 2) <= x /\ x <= 2 * (x \div 2) + 1
  BY <1>3
<1>5. Plausible(x \div 2)
  BY <1>0, <1>3, <1>4 DEF Plausible
<1> QED
  BY <1>2, <1>5 DEF MeasuredDelay

\* What is plausible stays so: steps of the clocks only add up.
LEMMA StaysPlausible ==
  ASSUME TypeOK, TypeOK', adjusted <= adjusted'
  PROVE  \A d \in Int : Plausible(d) => Plausible(d)'
<1>1. MinDelay \in Int /\ MaxDelay \in Int /\ adjusted \in Int /\ adjusted' \in Int
  BY PeerDelayAssumption DEF TypeOK
<1>2. PICK a, b : a = adjusted /\ b = adjusted'
  OBVIOUS
<1>3. a \in Int /\ b \in Int /\ a <= b
  BY <1>1, <1>2
<1>4. \A d \in Int : /\ 2 * d >= 2 * MinDelay - a - 1 => 2 * d >= 2 * MinDelay - b - 1
                     /\ 2 * d <= 2 * MaxDelay + a => 2 * d <= 2 * MaxDelay + b
  BY <1>1, <1>3
<1> QED
  BY <1>2, <1>4 DEF Plausible

LEMMA SamplesStep ==
  ASSUME TypeOK, TypeOK', InFlight, SamplesGenuine,
         NEW il, NEW ih, NEW rl, NEW rh, Stepped(il, ih, rl, rh), Readings(il, ih, rl, rh), [Next]_vars
  PROVE  SamplesGenuine'
<1>0. /\ adjusted \in Nat /\ adjusted' \in Nat /\ now \in Nat
      /\ \A i \in DOMAIN samples : samples[i] \in Int
  <2>1. samples \in Seq(Nat \ {0}) /\ adjusted \in Nat /\ adjusted' \in Nat /\ now \in Nat
    BY DEF TypeOK
  <2>2. \A i \in DOMAIN samples : samples[i] \in Nat \ {0}
    BY <2>1, ElementOfSeq, LenProperties
  <2> QED
    BY <2>1, <2>2
<1>1. ASSUME UNCHANGED filter, reused \subseteq reused', adjusted <= adjusted'
      PROVE  SamplesGenuine'
  <2>1. samples' = samples /\ sources' = sources
    BY <1>1 DEF filter
  <2>2. ASSUME NEW i \in DOMAIN samples'
        PROVE  sources'[i] \in reused' \/ Plausible(samples[i])'
    <3>1. PICK d : d = samples[i]
      OBVIOUS
    <3>2. d \in Int /\ (sources[i] \in reused \/ Plausible(d))
      BY <1>0, <2>1, <3>1 DEF SamplesGenuine
    <3>3. sources'[i] \in reused' \/ Plausible(d)'
      BY <1>1, <2>1, <3>2, StaysPlausible
    <3> QED
      BY <2>1, <3>1, <3>3
  <2> QED
    BY <2>2 DEF SamplesGenuine
<1>2. CASE SendReq \/ SendFollowUp
  BY <1>0, <1>1, <1>2 DEF SendReq, SendFollowUp, ghosts
<1>3. ASSUME NEW m \in net, OnReq(m) \/ OnResp(m) PROVE SamplesGenuine'
  BY <1>0, <1>1, <1>3 DEF OnReq, OnResp, ghosts
<1>4. ASSUME NEW m \in net, OnRespFU(m) PROVE SamplesGenuine'
  <2>0. PICK e, q, t3, at : e = pending[m.seq] /\ q = m.seq /\ t3 = m.t /\ at = m.at
    OBVIOUS
  <2>1. /\ q \in DOMAIN pending /\ e.t2 # 0 /\ m.type = "fu" /\ now - at >= MinDelay
        /\ reused' = reused /\ adjusted' = adjusted
    BY <1>4, <2>0 DEF OnRespFU, Deliverable, ghosts
  <2>2. PICK d : /\ d = MeasuredDelay(e.t1, e.t2, t3, Clock("init"))
                 /\ samples' = Add(samples, d)
                 /\ sources' = IF d > 0 THEN Last(Append(sources, q), Window) ELSE sources
    BY <1>4, <2>0 DEF OnRespFU
  <2>3. /\ e.t1 \in Int /\ e.t2 \in Int /\ t3 \in Int /\ at \in Int /\ at \in now - MaxDelay .. now
        /\ q \in 0 .. SeqMod - 1
    <3>1. e \in [t1 : Nat \ {0}, t2 : Nat] /\ q \in 0 .. SeqMod - 1
      BY <2>0, <2>1 DEF TypeOK
    <3>2. t3 \in Nat /\ at \in Nat
      BY <2>0, MessageFacts
    <3>3. at \in now - MaxDelay .. now
      BY <2>0 DEF InFlight
    <3> QED
      BY <3>1, <3>2, <3>3
  <2>4. d \in Int
    <3>1. Clock("init") \in Int
      BY ClockFacts
    <3> QED
      BY <2>2, <2>3, <3>1 DEF MeasuredDelay
  <2>5. q \in reused \/ Plausible(d)
    <3>1. CASE q \notin reused
      <4>1. Passed(e.t2 - e.t1, il, ih, rl, rh) /\ t3 - Epoch - at \in rl .. rh
        BY <2>0, <2>1, <3>1 DEF Readings
      <4>2. PICK o, c : o = offset["init"] /\ c = Clock("init")
        OBVIOUS
      <4>3. /\ c = Epoch + now + o /\ c \in Int /\ o \in Int
        BY <4>2, ClockFacts
      <4>4. /\ o \in il .. ih /\ il \in Int /\ ih \in Int /\ rl \in Int /\ rh \in Int
            /\ (ih - il) + (rh - rl) <= adjusted
        BY <4>2 DEF Stepped
      <4>5. now - at \in MinDelay .. MaxDelay
        BY <1>0, <2>1, <2>3, PeerDelayAssumption
      <4> QED
        BY <1>0, <2>2, <2>3, <4>1, <4>2, <4>3, <4>4, <4>5, ExchangeFacts
    <3> QED
      BY <3>1
  <2>6. CASE d > 0
    <3>1. d \in Nat \ {0}
      BY <2>4, <2>6
    <3>2. PICK T : T = 0 .. SeqMod - 1
      OBVIOUS
    <3>3. /\ samples \in Seq(Nat \ {0}) /\ sources \in Seq(T) /\ q \in T
          /\ Len(samples) = Len(sources) /\ Len(samples) <= Window
      BY <2>3, <3>2 DEF TypeOK
    <3>4. PICK g, new :
            /\ g = Add(samples, d) /\ new = Last(Append(sources, q), Window)
            /\ Grown(g, new, samples, sources, d, q)
      BY <3>1, <3>3, AddFacts
    <3>5. \A i \in DOMAIN g : new[i] \in reused \/ Plausible(g[i])
      BY <2>5, <3>4 DEF SamplesGenuine, Grown
    <3>6. samples' = g /\ sources' = new
      BY <2>2, <2>6, <3>4
    <3> QED
      BY <2>1, <3>5, <3>6 DEF SamplesGenuine, Plausible
  <2>7. CASE ~ d > 0
    <3>1. samples' = samples /\ sources' = sources
      BY <2>2, <2>7 DEF Add
    <3> QED
      BY <2>1, <3>1 DEF SamplesGenuine, Plausible
  <2> QED
    BY <2>6, <2>7
<1>5. ASSUME NEW n \in Nodes, NEW k \in Steps, Adjust(n, k) PROVE SamplesGenuine'
  <2>1. k \in Int /\ Size(k) \in Nat
    BY PeerDelayAssumption DEF Size
  <2> QED
    BY <1>0, <1>1, <1>5, <2>1 DEF Adjust
<1>6. CASE Restart
  <2>1. samples' = << >> /\ DOMAIN samples' = {}
    BY <1>6, EmptySeq DEF Restart
  <2> QED
    BY <2>1 DEF SamplesGenuine
<1>7. CASE Stop \/ Tick
  BY <1>0, <1>1, <1>7 DEF Stop, Tick, ghosts
<1>8. CASE UNCHANGED vars
  BY <1>0, <1>1, <1>8 DEF vars, ghosts
<1> QED
  BY <1>2, <1>3, <1>4, <1>5, <1>6, <1>7, <1>8 DEF Next, Dispatch
-----------------------------------------------------------------------------
(***************************************************************************)
(* The estimate lies between the smallest and the largest sample.          *)
(***************************************************************************)
LEMMA OrderedStep ==
  ASSUME TypeOK, Ordered, NEW il, NEW ih, NEW rl, NEW rh, Stepped(il, ih, rl, rh), [Next]_vars
  PROVE  Ordered'
<1>1. ASSUME UNCHANGED filter PROVE Ordered'
  BY <1>1 DEF filter, Ordered
<1>2. ASSUME NEW m \in net, OnRespFU(m) PROVE Ordered'
  <2>1. PICK e, d : /\ e = pending[m.seq] /\ d = MeasuredDelay(e.t1, e.t2, m.t, Clock("init"))
                    /\ samples' = Add(samples, d)
    BY <1>2 DEF OnRespFU
  <2>2. d \in Int
    <3>1. e \in [t1 : Nat \ {0}, t2 : Nat] /\ m.t \in Nat /\ Clock("init") \in Nat
      BY <1>2, <2>1, ClockFacts, MessageFacts DEF OnRespFU, TypeOK
    <3> QED
      BY <2>1, <3>1 DEF MeasuredDelay
  <2>3. CASE ~ d > 0
    BY <2>1, <2>3 DEF Add, Ordered
  <2>4. CASE d > 0
    <3>1. d \in Nat \ {0}
      BY <2>2, <2>4
    <3>2. PICK T : T = 0 .. SeqMod - 1
      OBVIOUS
    <3>3. /\ samples \in Seq(Nat \ {0}) /\ sources \in Seq(T) /\ m.seq \in T
          /\ Len(samples) = Len(sources) /\ Len(samples) <= Window
      BY <3>2, MessageFacts DEF TypeOK
    <3>4. PICK g, new :
            /\ g = Add(samples, d) /\ new = Last(Append(sources, m.seq), Window)
            /\ g \in Seq(Nat \ {0}) /\ new \in Seq(T) /\ Len(g) = Len(new) /\ Len(g) <= Window
            /\ Grown(g, new, samples, sources, d, m.seq)
      BY <3>1, <3>3, AddFacts
    <3>5. samples' = g /\ Range(g) \subseteq Range(samples) \union {d}
      BY <2>1, <3>4 DEF Grown, Range
    <3>6. ASSUME NEW T2 \in SUBSET Range(g), T2 # {}
          PROVE  /\ \E x \in T2 : \A y \in T2 : x <= y
                 /\ \E x \in T2 : \A y \in T2 : y <= x
      <4>1. PICK R : R = T2 \ {d}
        OBVIOUS
      <4>2. R \in SUBSET Range(samples) /\ R \subseteq T2 /\ T2 \subseteq R \union {d}
        BY <3>5, <4>1
      <4>3. \A x \in Range(samples) : x \in Int
        BY ElementOfSeq DEF TypeOK, Range
      <4>4. CASE R = {}
        <5>1. T2 = {d}
          BY <3>6, <4>2, <4>4
        <5> QED
          BY <2>2, <5>1
      <4>5. CASE R # {}
        <5>1. PICK lo \in R : \A y \in R : lo <= y
          BY <4>2, <4>5 DEF Ordered
        <5>2. PICK hi \in R : \A y \in R : y <= hi
          BY <4>2, <4>5 DEF Ordered
        <5>3. \E x \in T2 : \A y \in T2 : x <= y
          <6>1. CASE d \in T2 /\ d < lo
            BY <2>2, <4>2, <4>3, <5>1, <6>1
          <6>2. CASE ~(d \in T2 /\ d < lo)
            BY <2>2, <4>2, <4>3, <5>1, <6>2
          <6> QED
            BY <6>1, <6>2
        <5>4. \E x \in T2 : \A y \in T2 : y <= x
          <6>1. CASE d \in T2 /\ d > hi
            BY <2>2, <4>2, <4>3, <5>2, <6>1
          <6>2. CASE ~(d \in T2 /\ d > hi)
            BY <2>2, <4>2, <4>3, <5>2, <6>2
          <6> QED
            BY <6>1, <6>2
        <5> QED
          BY <5>3, <5>4
      <4> QED
        BY <4>4, <4>5
    <3> QED
      BY <3>5, <3>6 DEF Ordered
  <2> QED
    BY <2>3, <2>4
<1>3. CASE Restart
  <2>1. samples' = << >> /\ Range(samples') = {}
    BY <1>3, EmptySeq DEF Restart, Range
  <2> QED
    BY <2>1 DEF Ordered
<1>4. CASE SendReq \/ SendFollowUp \/ Stop \/ Tick
  BY <1>1, <1>4 DEF SendReq, SendFollowUp, Stop, Tick
<1>5. ASSUME NEW m \in net, OnReq(m) \/ OnResp(m) PROVE Ordered'
  BY <1>1, <1>5 DEF OnReq, OnResp
<1>6. ASSUME NEW n \in Nodes, NEW k \in Steps, Adjust(n, k) PROVE Ordered'
  BY <1>1, <1>6 DEF Adjust
<1>7. CASE UNCHANGED vars
  BY <1>1, <1>7 DEF vars
<1> QED
  BY <1>2, <1>3, <1>4, <1>5, <1>6, <1>7 DEF Next, Dispatch

\* There is a k-th smallest sample: the smallest one with k or more at or below it.
LEMMA KthExists ==
  ASSUME TypeOK, Ordered, NEW k \in 1 .. Len(samples)
  PROVE  Kth(samples, k) \in Range(samples)
<1> DEFINE Below(x) == {i \in DOMAIN samples : samples[i] < x}
           UpTo(x) == {i \in DOMAIN samples : samples[i] <= x}
<1>1. PICK n : n = Len(samples)
  OBVIOUS
<1>2. n \in Nat /\ n # 0 /\ k \in Nat \ {0} /\ k <= n /\ DOMAIN samples = 1 .. n
  BY <1>1, LenProperties DEF TypeOK
<1>3. IsFiniteSet(1 .. n) /\ Cardinality(1 .. n) = n
  <2>1. IsFiniteSet(1 .. n) /\ Cardinality(1 .. n) = IF 1 > n THEN 0 ELSE n - 1 + 1
    BY <1>2, FS_Interval
  <2> QED
    BY <1>2, <2>1
<1>4. \A S \in SUBSET (1 .. n) : Cardinality(S) \in Nat
  BY <1>3, FS_Subset, FS_CardinalityType
<1>5. \A i \in 1 .. n : samples[i] \in Int /\ samples[i] \in Range(samples)
  <2>1. \A i \in 1 .. n : samples[i] \in Nat
    BY <1>1, <1>2, ElementOfSeq DEF TypeOK
  <2> QED
    BY <1>2, <2>1 DEF Range
<1>6. \A x \in Range(samples) : x \in Int /\ \E i \in 1 .. n : x = samples[i]
  BY <1>2, <1>5 DEF Range
<1>7. PICK U : U = {x \in Range(samples) : Cardinality(UpTo(x)) >= k}
  OBVIOUS
<1>8. U # {}
  <2>1. Range(samples) # {}
    BY <1>2, <1>5
  <2>2. PICK hi \in Range(samples) : \A y \in Range(samples) : y <= hi
    BY <2>1 DEF Ordered
  <2>3. UpTo(hi) = 1 .. n
    BY <1>2, <1>5, <2>2
  <2> QED
    BY <1>2, <1>3, <1>7, <2>2, <2>3
<1>9. PICK x \in U : \A y \in U : x <= y
  BY <1>7, <1>8 DEF Ordered
<1>10. x \in Range(samples) /\ Cardinality(UpTo(x)) >= k
  BY <1>7
<1>11. Cardinality(Below(x)) < k
  <2>1. PICK V : V = {y \in Range(samples) : y < x}
    OBVIOUS
  <2>2. CASE V = {}
    <3>1. Below(x) = {}
      BY <1>2, <1>5, <2>1, <2>2
    <3> QED
      BY <1>2, <3>1, FS_EmptySet, SMTT(30)
  <2>3. CASE V # {}
    <3>1. PICK hi \in V : \A y \in V : y <= hi
      BY <2>1, <2>3 DEF Ordered
    <3>2. hi \in Range(samples) /\ hi < x /\ hi \in Int /\ x \in Int
      BY <1>6, <1>10, <2>1
    <3>3. Below(x) = UpTo(hi)
      BY <1>2, <1>5, <2>1, <3>1, <3>2
    <3>4. hi \notin U
      BY <1>9, <3>2
    <3>5. ~ Cardinality(UpTo(hi)) >= k
      BY <1>7, <3>2, <3>4
    <3>6. PICK S : S = UpTo(hi)
      OBVIOUS
    <3>7. S \in SUBSET (1 .. n) /\ S = Below(x) /\ ~ Cardinality(S) >= k
      BY <1>2, <3>3, <3>5, <3>6
    <3>8. Cardinality(S) < k
      BY <1>2, <1>4, <3>7
    <3> QED
      BY <3>7, <3>8
  <2> QED
    BY <2>2, <2>3
<1> QED
  BY <1>10, <1>11 DEF Kth

LEMMA BestBetween ==
  ASSUME TypeOK, Ordered, samples # << >>
  PROVE  \E lo, hi \in Range(samples) : Best(samples) \in lo .. hi
<1>1. PICK n : n = Len(samples)
  OBVIOUS
<1>2. n \in Nat \ {0} /\ DOMAIN samples = 1 .. n
  BY <1>1, EmptySeq, LenProperties DEF TypeOK
<1>3. \A i \in 1 .. n : samples[i] \in Nat /\ samples[i] \in Range(samples)
  <2>1. \A i \in 1 .. n : samples[i] \in Nat
    BY <1>1, <1>2, ElementOfSeq DEF TypeOK
  <2> QED
    BY <1>2, <2>1 DEF Range
<1>4. Range(samples) # {} /\ \A x \in Range(samples) : x \in Nat
  BY <1>2, <1>3 DEF Range
<1>5. PICK lo \in Range(samples) : \A y \in Range(samples) : lo <= y
  BY <1>4 DEF Ordered
<1>6. PICK hi \in Range(samples) : \A y \in Range(samples) : y <= hi
  BY <1>4 DEF Ordered
<1>7. PICK a, b, c : a = Kth(samples, (n + 1) \div 2) /\ b = Kth(samples, n \div 2 + 1) /\ c = Minimum(samples)
  OBVIOUS
<1>8. a \in Range(samples) /\ b \in Range(samples)
  <2>1. (n + 1) \div 2 \in 1 .. n /\ n \div 2 + 1 \in 1 .. n
    BY <1>2
  <2> QED
    BY <1>1, <1>7, <2>1, KthExists
<1>9. c \in Range(samples)
  BY <1>5, <1>7 DEF Minimum, Min
<1>10. /\ a \in Nat /\ b \in Nat /\ c \in Nat /\ lo \in Nat /\ hi \in Nat
       /\ lo <= a /\ a <= hi /\ lo <= b /\ b <= hi /\ lo <= c /\ c <= hi
  BY <1>4, <1>5, <1>6, <1>8, <1>9
<1>11. PICK med : med = (a + b) \div 2
  OBVIOUS
<1>12. med \in Nat /\ lo <= med /\ med <= hi
  BY <1>10, <1>11
<1>13. (6 * c + 4 * med) \div 10 \in lo .. hi
  BY <1>10, <1>12
<1>14. Best(samples) = (6 * c + 4 * med) \div 10
  BY <1>1, <1>7, <1>11 DEF Best, Median
<1> QED
  BY <1>13, <1>14

LEMMA EstimateFollows ==
  ASSUME TypeOK, Ordered, SamplesGenuine
  PROVE  EstimateGenuine
<1>1. SUFFICES ASSUME reused = {}, Best(samples) # 0 PROVE Plausible(Best(samples))
  BY DEF EstimateGenuine
<1>2. samples # << >>
  BY <1>1 DEF Best
<1>3. PICK lo \in Range(samples), hi \in Range(samples) : Best(samples) \in lo .. hi
  BY <1>2, BestBetween
<1>4. \A x \in Range(samples) : x \in Int /\ Plausible(x)
  BY <1>1, ElementOfSeq, LenProperties DEF TypeOK, SamplesGenuine, Range
<1>5. PICK b : b = Best(samples)
  OBVIOUS
<1>6. lo \in Int /\ hi \in Int /\ Plausible(lo) /\ Plausible(hi) /\ b \in lo .. hi
  BY <1>3, <1>4, <1>5
<1>7. Plausible(b)
  <2>1. MinDelay \in Int /\ MaxDelay \in Int /\ adjusted \in Int
    BY PeerDelayAssumption DEF TypeOK
  <2> QED
    BY <1>6, <2>1 DEF Plausible
<1> QED
  BY <1>5, <1>7
-----------------------------------------------------------------------------
(***************************************************************************)
(* The theorems.                                                           *)
(***************************************************************************)
LEMMA InvInit == Init => Inv
<1>1. ASSUME Init PROVE Inv
  <2>1. TypeOK
    BY <1>1, TypesInit
  <2>2. net = {} /\ samples = << >> /\ DOMAIN samples = {} /\ Range(samples) = {}
    BY <1>1, EmptySeq DEF Init, Range
  <2>3. InFlight /\ SamplesGenuine /\ Ordered
    BY <2>2 DEF InFlight, SamplesGenuine, Ordered
  <2>4. Numbered(0)
    <3>1. seq_id = 0 /\ next_req = 0 /\ responder = NoRequest /\ 0 * Interval = 0 /\ SeqMod \in Nat
      BY <1>1, PeerDelayAssumption DEF Init
    <3> QED
      BY <2>2, <3>1 DEF Numbered
  <2>5. Measured(0, 0, 0, 0)
    BY <1>1, <2>1, MeasuredInit
  <2>6. \E n \in Nat : Numbered(n)
    BY <2>4
  <2>7. \E il, ih, rl, rh : Measured(il, ih, rl, rh)
    BY <2>5
  <2> QED
    BY <2>1, <2>3, <2>6, <2>7 DEF Inv
<1> QED
  BY <1>1

LEMMA InvStep == Inv /\ [Next]_vars => Inv'
<1>1. ASSUME Inv, [Next]_vars PROVE Inv'
  <2>1. TypeOK /\ InFlight /\ SamplesGenuine /\ Ordered
    BY <1>1 DEF Inv
  <2>2. PICK n \in Nat : Numbered(n)
    BY <1>1 DEF Inv
  <2>3. PICK il, ih, rl, rh : Measured(il, ih, rl, rh)
    BY <1>1 DEF Inv
  <2>4. Stepped(il, ih, rl, rh) /\ Readings(il, ih, rl, rh)
    BY <2>3 DEF Measured
  <2>5. TypeOK'
    BY <1>1, <2>1, <2>4, TypesStep
  <2>6. InFlight'
    BY <1>1, <2>1, <2>5, InFlightStep
  <2>7. SamplesGenuine'
    BY <1>1, <2>1, <2>4, <2>5, SamplesStep
  <2>8. Ordered'
    BY <1>1, <2>1, <2>4, OrderedStep
  <2>9. \E k \in Nat : Numbered(k)'
    BY <1>1, <2>1, <2>2, <2>5, NumberedStep
  <2>10. \E jl, jh, ql, qh : Measured(jl, jh, ql, qh)'
    BY <1>1, <2>1, <2>2, <2>3, <2>5, MeasuredStep
  <2> QED
    BY <2>5, <2>6, <2>7, <2>8, <2>9, <2>10 DEF Inv
<1> QED
  BY <1>1

LEMMA InvAlways == Spec => []Inv
  BY InvInit, InvStep, PTL DEF Spec

\* Few sends fit into the time an entry lives.
LEMMA FewFollows == Inv => PendingBounded
<1>1. ASSUME Inv PROVE PendingBounded
  <2>1. PICK il, ih, sends, last : Waiting(sends, last, il, ih)
    BY <1>1 DEF Inv, Measured
  <2>2. PendingLife \in Nat /\ adjusted \in Nat /\ Interval \in Nat \ {0} /\ last \in Int
    BY <1>1, <2>1, PeerDelayAssumption DEF Inv, TypeOK, Waiting
  <2>3. PICK W, base, i, S : /\ W = PendingLife + adjusted /\ base = last - PendingLife - adjusted
                             /\ i = Interval /\ S = DOMAIN pending
    OBVIOUS
  <2>4. W \in Nat /\ base \in Int /\ i \in Nat \ {0} /\ base + W = last
    BY <2>2, <2>3
  <2>5. Spaced(sends, i)
    BY <2>1, <2>3 DEF Waiting
  <2>6. \A s \in S : \E x \in sends : x.seq = s /\ x.at \in base .. base + W
    BY <2>1, <2>3, <2>4 DEF Waiting
  <2>7. Cardinality(S) <= W \div i + 1
    BY <2>4, <2>5, <2>6, WaitingCount
  <2> QED
    BY <2>3, <2>7 DEF PendingBounded
<1> QED
  BY <1>1

\* The state keeps its types: readings of the clocks are positive (t2 = 0 means "no
\* response yet"), and the samples and their sources have the window's length.
THEOREM TypeCorrect == Spec => []TypeOK
<1>1. Inv => TypeOK
  BY DEF Inv
<1> QED
  BY <1>1, InvAlways, PTL

\* Every sample in the window of on_resp_fu is a delay of the path, give or take half
\* of what the clocks were stepped, unless its number was in flight at a restart.
THEOREM SamplesMeasure == Spec => []SamplesGenuine
<1>1. Inv => SamplesGenuine
  BY DEF Inv
<1> QED
  BY <1>1, InvAlways, PTL

\* So is the estimate of get_delay, 0.6 of the minimum and 0.4 of the median.
THEOREM EstimateMeasures == Spec => []EstimateGenuine
<1>1. Inv => EstimateGenuine
  BY EstimateFollows DEF Inv
<1> QED
  BY <1>1, InvAlways, PTL

\* However many requests go unanswered, _send_req forgets the old ones: the pending
\* table holds no more than fit into their life.
THEOREM FewPending == Spec => []PendingBounded
<1>1. Inv => PendingBounded
  BY FewFollows
<1> QED
  BY <1>1, InvAlways, PTL

=============================================================================
