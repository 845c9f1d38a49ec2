--------------------------- MODULE CBSEngineProofs ---------------------------
(***************************************************************************)
(* Theorems about CBSEngine for every value of its constants: its types,   *)
(* its counters, its wake-ups, with CBSPort the egress contract, and the   *)
(* rate of a class.                                                        *)
(***************************************************************************)
EXTENDS CBSPort, FiniteSetTheorems, SequenceTheorems, TLAPS

\* The bound on the calls of check_and_send holds with those in progress.
Bounded == arrived + Cardinality(InCall) <= NumFrames

LEMMA ClassFacts == TC \subseteq Nat /\ -1 \notin TC /\ \A tc \in Nat : Clamp(tc) \in TC
  BY CBSAssumption DEF TC, Clamp

LEMMA InCallFinite == IsFiniteSet(InCall) /\ Cardinality(InCall) \in Nat
  BY CBSAssumption, FS_Subset, FS_CardinalityType DEF InCall

LEMMA ConfigFacts ==
  ASSUME NEW cfg \in Configs
  PROVE  /\ cfg.enabled \in BOOLEAN /\ cfg.port_speed_bps \in Nat \ {0}
         /\ \A tc \in TC : /\ cfg.tc_configs[tc].enabled \in BOOLEAN
                           /\ cfg.tc_configs[tc].idle_slope_bps \in Nat
                           /\ cfg.tc_configs[tc].max_credit_bytes \in Nat
  BY CBSAssumption DEF Config, ClassConfig

LEMMA TypeInit == Init => TypeOK /\ Bounded
<1> SUFFICES ASSUME Init PROVE TypeOK /\ Bounded
  OBVIOUS
<1> USE ClassFacts, CBSAssumption DEF Init
<1>1. 0 \in TC
  BY DEF TC
<1>2. PortType /\ QueueType /\ CreditType
  BY DEF PortType, QueueType, CreditType
<1>3. CallerType
  BY <1>1 DEF CallerType, NoCall, CallStates
<1>4. DrainType
  <2>1. NoItem \in ItemType /\ config.port_speed_bps \in Nat
    BY <1>1, ConfigFacts DEF NoItem, ItemType
  <2> QED
    BY <2>1 DEF DrainType, DrainStates
<1>5. StatsType /\ HistoryType /\ event \in BOOLEAN
  <2> DEFINE zero == [tc \in TC |-> 0]
  <2>2. stats = [sent |-> zero, queued |-> zero, dropped |-> zero] /\ zero \in [TC -> Nat]
    OBVIOUS
  <2>3. StatsType
    BY <2>2 DEF StatsType
  <2>4. /\ arrived = 0 /\ out = << >> /\ dropped = {} /\ event = FALSE
        /\ NumFrames \in Nat
    OBVIOUS
  <2>5. HistoryType
    <3>1. arrived \in 0 .. NumFrames
      BY ONLY <2>4
    <3>2. out \in Seq([frame : Nat, tc : TC, held : BOOLEAN])
      BY ONLY <2>4
    <3> QED
      BY <2>4, <3>1, <3>2 DEF HistoryType
  <2> QED
    BY <2>3, <2>4, <2>5
<1>6. Bounded
  <2>1. InCall = {}
    BY DEF InCall, NoCall
  <2> QED
    BY <2>1, FS_EmptySet DEF Bounded
<1> QED
  BY <1>2, <1>3, <1>4, <1>5, <1>6 DEF TypeOK

\* What an action leaves alone keeps its type.
LEMMA Unchanged ==
  ASSUME TypeOK
  PROVE  /\ UNCHANGED port => PortType'
         /\ UNCHANGED queues => QueueType'
         /\ UNCHANGED caller => CallerType' /\ InCall' = InCall
         /\ UNCHANGED drain => DrainType'
         /\ UNCHANGED <<credits, level, elapsed>> => CreditType'
         /\ UNCHANGED stats => StatsType'
         /\ UNCHANGED history => HistoryType'
         /\ UNCHANGED event => event' \in BOOLEAN
<1> USE DEF TypeOK
<1>1. UNCHANGED port => PortType'
  BY DEF PortType, port
<1>2. UNCHANGED queues => QueueType'
  BY DEF QueueType
<1>3. UNCHANGED caller => CallerType' /\ InCall' = InCall
  BY DEF CallerType, InCall
<1>4. UNCHANGED drain => DrainType'
  BY DEF DrainType
<1>5. UNCHANGED <<credits, level, elapsed>> => CreditType'
  BY DEF CreditType
<1>6. UNCHANGED stats => StatsType'
  BY DEF StatsType
<1>7. UNCHANGED history => HistoryType'
  BY DEF HistoryType, history
<1> QED
  BY <1>1, <1>2, <1>3, <1>4, <1>5, <1>6, <1>7

LEMMA RecordSentType ==
  ASSUME StatsType, NEW tc \in TC, NEW q \in BOOLEAN, RecordSent(tc, q)
  PROVE  /\ StatsType'
         /\ stats'.queued = IF q THEN [stats.queued EXCEPT ![tc] = @ + 1] ELSE stats.queued
<1>1. stats.sent[tc] + 1 \in Nat /\ stats.queued[tc] + 1 \in Nat
  BY DEF StatsType
<1>2. stats' = [sent |-> [stats.sent EXCEPT ![tc] = @ + 1],
                queued |-> [stats.queued EXCEPT ![tc] = IF q THEN @ + 1 ELSE @],
                dropped |-> stats.dropped]
  BY DEF StatsType, RecordSent
<1> QED
  BY <1>1, <1>2 DEF StatsType

LEMMA SendType ==
  ASSUME TypeOK, NEW i \in ItemType, NEW h \in BOOLEAN, NEW speed \in Nat, Send(i, h, speed)
  PROVE  /\ out' \in Seq([frame : Nat, tc : TC, held : BOOLEAN])
         /\ level' \in [TC -> Nat]
<1>1. [frame |-> i.frame, tc |-> i.tc, held |-> h] \in [frame : Nat, tc : TC, held : BOOLEAN]
  BY DEF ItemType
<1>2. out' \in Seq([frame : Nat, tc : TC, held : BOOLEAN])
  BY <1>1, AppendProperties DEF Send, TypeOK, HistoryType
<1>3. \A x \in Nat : x + speed * i.ticks \in Nat
  BY DEF ItemType
<1>4. level' \in [TC -> Nat]
  BY <1>3 DEF Send, TypeOK, CreditType, ItemType
<1> QED
  BY <1>2, <1>4

\* A caller's step that assigns a record of the right type.
LEMMA SetCaller ==
  ASSUME CallerType, NEW c \in Callers, NEW r \in [pc : CallStates, tc : TC, ticks : Nat],
         caller' = [caller EXCEPT ![c] = r]
  PROVE  /\ CallerType'
         /\ r.pc \in {"idle", "signal"} => InCall' = InCall \ {c}
         /\ r.pc \in {"check", "bypass", "shaped"} => InCall' = InCall \union {c}
  BY DEF CallerType, InCall, CallStates

LEMMA CallerFacts ==
  ASSUME CallerType, NEW c \in Callers
  PROVE  caller[c] \in [pc : CallStates, tc : TC, ticks : Nat]
  BY DEF CallerType

LEMMA TypeCall ==
  ASSUME TypeOK, Bounded, NEW c \in Callers,
         \/ \E tc \in RawTC, ticks \in Sizes : CallStart(c, tc, ticks)
         \/ CallRest(c)
  PROVE  TypeOK' /\ Bounded'
<1> USE DEF TypeOK
<1>f. /\ caller[c] \in [pc : CallStates, tc : TC, ticks : Nat]
      /\ IsFiniteSet(InCall) /\ Cardinality(InCall) \in Nat
      /\ NoCall \in [pc : CallStates, tc : TC, ticks : Nat]
      /\ arrived \in Nat /\ NumFrames \in Nat
  <2>1. 0 \in TC
    BY CBSAssumption DEF TC
  <2> QED
    BY <2>1, CallerFacts, InCallFinite, CBSAssumption DEF NoCall, CallStates, HistoryType
\* A caller that was in progress and is no longer.
<1>d. ASSUME c \in InCall, InCall' = InCall \ {c}
      PROVE  Cardinality(InCall') = Cardinality(InCall) - 1
  BY <1>d, <1>f, FS_RemoveElement
<1>1. ASSUME NEW tc \in RawTC, NEW ticks \in Sizes, CallStart(c, tc, ticks)
      PROVE  TypeOK' /\ Bounded'
  <2> DEFINE r == [tc |-> Clamp(tc), ticks |-> ticks,
                   pc |-> IF config.tc_configs[Clamp(tc)].enabled THEN "check" ELSE "bypass"]
  <2>1. r \in [pc : CallStates, tc : TC, ticks : Nat] /\ r.pc \in {"check", "bypass", "shaped"}
    BY ClassFacts, CBSAssumption DEF CallStates
  <2>2. caller' = [caller EXCEPT ![c] = r] /\ arrived + Cardinality(InCall) < NumFrames
    BY <1>1 DEF CallStart
  <2> HIDE DEF r
  <2>3. CallerType' /\ InCall' = InCall \union {c}
    BY <2>1, <2>2, SetCaller
  <2>4. c \notin InCall
    BY <1>1 DEF CallStart, InCall
  <2>5. Cardinality(InCall') = Cardinality(InCall) + 1
    BY <2>3, <2>4, <1>f, FS_AddElement
  <2>6. Bounded'
    <3>1. arrived' = arrived
      BY <1>1 DEF CallStart, history
    <3> QED
      BY <2>2, <2>5, <3>1, <1>f DEF Bounded
  <2> QED
    BY <1>1, <2>3, <2>6, Unchanged DEF CallStart
<1>2. CASE CallCheck(c)
  <2> DEFINE r == [caller[c] EXCEPT !.pc = IF config.enabled THEN "shaped" ELSE "bypass"]
  <2>1. r \in [pc : CallStates, tc : TC, ticks : Nat] /\ r.pc \in {"check", "bypass", "shaped"}
    BY <1>f DEF CallStates
  <2>2. caller' = [caller EXCEPT ![c] = r]
    BY <1>2 DEF CallCheck
  <2> HIDE DEF r
  <2>3. CallerType' /\ InCall' = InCall \union {c}
    BY <2>1, <2>2, SetCaller
  <2>4. c \in InCall
    BY <1>2 DEF CallCheck, InCall
  <2>5. InCall' = InCall /\ arrived' = arrived
    BY <1>2, <2>3, <2>4 DEF CallCheck, history
  <2> QED
    BY <1>2, <2>3, <2>5, Unchanged DEF CallCheck, Bounded
<1>3. CASE CallBypass(c)
  <2> DEFINE i == [frame |-> arrived + 1, tc |-> caller[c].tc, ticks |-> caller[c].ticks]
  <2>1. i \in ItemType
    BY <1>f DEF ItemType
  <2>2. Send(i, FALSE, 0) /\ arrived' = arrived + 1
    BY <1>3 DEF CallBypass
  <2> HIDE DEF i
  <2>3. out' \in Seq([frame : Nat, tc : TC, held : BOOLEAN]) /\ level' \in [TC -> Nat]
    BY <2>1, <2>2, SendType
  <2>4. caller' = [caller EXCEPT ![c] = NoCall] /\ NoCall.pc = "idle"
    BY <1>3 DEF CallBypass, NoCall
  <2>5. CallerType' /\ InCall' = InCall \ {c}
    BY <2>4, <1>f, SetCaller
  <2>6. Bounded' /\ arrived' \in 0 .. NumFrames
    <3>1. c \in InCall
      BY <1>3 DEF CallBypass, InCall
    <3>2. Cardinality(InCall') = Cardinality(InCall) - 1
      BY <1>d, <2>5, <3>1
    <3>3. Cardinality(InCall') \in Nat
      BY <2>5, <1>f, FS_RemoveElement, FS_CardinalityType
    <3> QED
      BY <2>2, <3>2, <3>3, <1>f DEF Bounded
  <2>7. StatsType'
    BY <1>3, <1>f, RecordSentType DEF CallBypass
  <2>8. HistoryType' /\ CreditType'
    BY <1>3, <2>3, <2>6 DEF CallBypass, HistoryType, CreditType
  <2> QED
    BY <1>3, <2>5, <2>6, <2>7, <2>8, Unchanged DEF CallBypass
<1>4. CASE CallRefuse(c)
  <2>1. caller' = [caller EXCEPT ![c] = NoCall] /\ NoCall.pc = "idle" /\ arrived' = arrived + 1
    BY <1>4 DEF CallRefuse, NoCall
  <2>2. CallerType' /\ InCall' = InCall \ {c}
    BY <2>1, <1>f, SetCaller
  <2>3. Bounded' /\ arrived' \in 0 .. NumFrames
    <3>1. c \in InCall
      BY <1>4 DEF CallRefuse, InCall
    <3>2. Cardinality(InCall') = Cardinality(InCall) - 1
      BY <1>d, <2>2, <3>1
    <3>3. Cardinality(InCall') \in Nat
      BY <2>2, <1>f, FS_RemoveElement, FS_CardinalityType
    <3> QED
      BY <2>1, <3>2, <3>3, <1>f DEF Bounded
  <2>4. StatsType'
    <3>1. stats.dropped[caller[c].tc] + 1 \in Nat
      BY <1>f DEF StatsType
    <3>2. stats' = [sent |-> stats.sent, queued |-> stats.queued,
                    dropped |-> [stats.dropped EXCEPT ![caller[c].tc] = @ + 1]]
      BY <1>4 DEF CallRefuse, StatsType
    <3> QED
      BY <3>1, <3>2 DEF StatsType
  <2>5. HistoryType'
    BY <1>4, <2>3, <1>f DEF CallRefuse, HistoryType
  <2> QED
    BY <1>4, <2>2, <2>3, <2>4, <2>5, Unchanged DEF CallRefuse
<1>5. CASE CallAppend(c)
  <2> DEFINE i == [frame |-> arrived + 1, tc |-> caller[c].tc, ticks |-> caller[c].ticks]
             r == [caller[c] EXCEPT !.pc = "signal"]
             tc == caller[c].tc
  <2>1. i \in ItemType /\ i.tc = tc /\ tc \in TC
    BY <1>f DEF ItemType
  <2>2. r \in [pc : CallStates, tc : TC, ticks : Nat] /\ r.pc = "signal"
    BY <1>f DEF CallStates
  <2>3. /\ queues' = [queues EXCEPT ![tc] = Append(@, i)]
        /\ caller' = [caller EXCEPT ![c] = r]
        /\ arrived' = arrived + 1
    BY <1>5 DEF CallAppend
  <2> HIDE DEF i, r, tc
  <2>4. QueueType'
    <3>1. queues[tc] \in Seq(ItemType)
      BY <2>1 DEF QueueType
    <3>2. /\ Append(queues[tc], i) \in Seq(ItemType)
          /\ Len(Append(queues[tc], i)) = Len(queues[tc]) + 1
          /\ \A k \in 1 .. Len(queues[tc]) : Append(queues[tc], i)[k] = queues[tc][k]
          /\ Append(queues[tc], i)[Len(queues[tc]) + 1] = i
      BY <2>1, <3>1, AppendProperties
    <3>3. \A k \in DOMAIN Append(queues[tc], i) : Append(queues[tc], i)[k].tc = tc
      BY <2>1, <3>1, <3>2 DEF QueueType
    <3> QED
      BY <2>1, <2>3, <3>2, <3>3 DEF QueueType
  <2>5. CallerType' /\ InCall' = InCall \ {c}
    BY <2>2, <2>3, SetCaller
  <2>6. Bounded' /\ arrived' \in 0 .. NumFrames
    <3>1. c \in InCall
      BY <1>5 DEF CallAppend, InCall
    <3>2. Cardinality(InCall') = Cardinality(InCall) - 1
      BY <1>d, <2>5, <3>1
    <3>3. Cardinality(InCall') \in Nat
      BY <2>5, <1>f, FS_RemoveElement, FS_CardinalityType
    <3> QED
      BY <2>3, <3>2, <3>3, <1>f DEF Bounded
  <2>7. HistoryType'
    BY <1>5, <2>6 DEF CallAppend, HistoryType
  <2> QED
    BY <1>5, <2>4, <2>5, <2>6, <2>7, Unchanged DEF CallAppend
<1>6. CASE CallSignal(c)
  <2>1. caller' = [caller EXCEPT ![c] = NoCall] /\ NoCall.pc = "idle"
    BY <1>6 DEF CallSignal, NoCall
  <2>2. CallerType' /\ InCall' = InCall \ {c}
    BY <2>1, <1>f, SetCaller
  <2>3. c \notin InCall /\ arrived' = arrived
    BY <1>6 DEF CallSignal, InCall, history
  <2>4. Bounded'
    BY <2>2, <2>3 DEF Bounded
  <2>5. StatsType'
    BY <1>6, <1>f, RecordSentType DEF CallSignal
  <2> QED
    BY <1>6, <2>2, <2>4, <2>5, Unchanged DEF CallSignal
<1> QED
  BY <1>1, <1>2, <1>3, <1>4, <1>5, <1>6 DEF CallRest

LEMMA ChargedType ==
  ASSUME TypeOK
  PROVE  Charged \in [TC -> Int] /\ Replenished \in [TC -> Int]
<1> USE DEF TypeOK
<1>1. Charged \in [TC -> Int]
  <2>1. CASE drain.pending_tc < 0
    BY <2>1 DEF Charged, CreditType
  <2>2. CASE ~(drain.pending_tc < 0)
    <3>1. drain.pending_tc \in TC /\ drain.pending_drain \in Int
      BY <2>2 DEF DrainType
    <3>2. config.tc_configs[drain.pending_tc].max_credit_bytes \in Nat
      BY <3>1, ConfigFacts DEF PortType
    <3>3. credits[drain.pending_tc] + drain.pending_drain \in Int
      BY <3>1 DEF CreditType
    <3> QED
      BY <2>2, <3>1, <3>2, <3>3 DEF Charged, CreditType, AtLeast
  <2> QED
    BY <2>1, <2>2
<1>2. ASSUME NEW tc \in TC
      PROVE  Replenished[tc] \in Int
  <2>1. /\ config.tc_configs[tc].idle_slope_bps \in Nat
        /\ config.tc_configs[tc].max_credit_bytes \in Nat
    BY ConfigFacts DEF PortType
  <2>2. Charged[tc] \in Int /\ drain.elapsed \in Nat
    BY <1>1 DEF DrainType
  <2>3. Charged[tc] + config.tc_configs[tc].idle_slope_bps * drain.elapsed \in Int
    BY <2>1, <2>2
  <2> QED
    BY <2>1, <2>2, <2>3 DEF Replenished, AtMost
<1>3. Replenished \in [TC -> Int]
  BY <1>2 DEF Replenished
<1> QED
  BY <1>1, <1>3

LEMMA TypeDrain ==
  ASSUME TypeOK, Bounded, DrainLoop
  PROVE  TypeOK' /\ Bounded'
<1> USE DEF TypeOK
<1>f. drain \in [pc : DrainStates, speed : Nat, elapsed : Nat, pending_tc : TC \union {-1},
                 pending_drain : Int, exclude_tc : TC \union {-1}, item : ItemType, left : Nat]
  BY DEF DrainType
<1>n. NoItem \in ItemType
  BY CBSAssumption DEF NoItem, ItemType, TC
<1>1. CASE DrainWake
  <2>1. DrainType'
    BY <1>1, <1>f DEF DrainWake, DrainType, DrainStates
  <2> QED
    BY <1>1, <2>1, Unchanged DEF DrainWake, Bounded, history
<1>2. CASE DrainClear
  <2>1. DrainType'
    BY <1>2, <1>f DEF DrainClear, DrainType, DrainStates
  <2> QED
    BY <1>2, <2>1, Unchanged DEF DrainClear, Bounded, history
<1>3. CASE PassSample
  <2>1. elapsed \in Nat /\ elapsed' \in 0 .. ElapsedCap
    BY <1>3, CBSAssumption DEF CreditType, PassSample
  <2>2. DrainType'
    BY <1>3, <1>f, <2>1 DEF PassSample, DrainType, DrainStates
  <2>3. CreditType'
    BY <1>3, <2>1 DEF PassSample, CreditType
  <2> QED
    BY <1>3, <2>2, <2>3, Unchanged DEF PassSample, Bounded, history
<1>4. ASSUME NEW tc \in TC, PassSelect(tc)
      PROVE  TypeOK' /\ Bounded'
  <2>1. queues[tc] \in Seq(ItemType) /\ queues[tc] # << >>
    BY <1>4 DEF PassSelect, Eligible, QueueType
  <2>2. /\ Head(queues[tc]) \in ItemType /\ Tail(queues[tc]) \in Seq(ItemType)
        /\ Len(Tail(queues[tc])) = Len(queues[tc]) - 1
        /\ \A k \in 1 .. Len(Tail(queues[tc])) : Tail(queues[tc])[k] = queues[tc][k + 1]
    BY <2>1, HeadTailProperties
  <2>3. DrainType'
    <3>1. drain' = [pc |-> "send", speed |-> drain.speed, elapsed |-> 0, pending_tc |-> -1,
                    pending_drain |-> 0, exclude_tc |-> -1, item |-> Head(queues[tc]),
                    left |-> drain.left]
      BY <1>4, <1>f DEF PassSelect
    <3> QED
      BY <1>f, <2>2, <3>1 DEF DrainType, DrainStates
  <2>4. QueueType'
    <3>1. queues' = [queues EXCEPT ![tc] = Tail(queues[tc])]
      BY <1>4 DEF PassSelect
    <3>2. \A k \in DOMAIN Tail(queues[tc]) : Tail(queues[tc])[k].tc = tc
      BY <2>1, <2>2 DEF QueueType
    <3> QED
      BY <2>2, <3>1, <3>2 DEF QueueType
  <2>5. CreditType'
    BY <1>4, ChargedType DEF PassSelect, CreditType
  <2> QED
    BY <1>4, <2>3, <2>4, <2>5, Unchanged DEF PassSelect, Bounded, history
<1>5. CASE PassIdle
  <2>1. DrainType'
    <3>1. drain' = [pc |-> IF AnyQueued THEN "pass" ELSE "wait", speed |-> drain.speed,
                    elapsed |-> 0, pending_tc |-> -1, pending_drain |-> 0,
                    exclude_tc |-> -1, item |-> drain.item, left |-> drain.left]
      BY <1>5, <1>f DEF PassIdle
    <3> QED
      BY <1>f, <3>1 DEF DrainType, DrainStates
  <2>2. CreditType'
    BY <1>5, ChargedType DEF PassIdle, CreditType
  <2> QED
    BY <1>5, <2>1, <2>2, Unchanged DEF PassIdle, Bounded, history
<1>6. CASE DrainSend
  <2>1. drain.item \in ItemType /\ drain.speed \in Nat
    BY <1>f
  <2>2. out' \in Seq([frame : Nat, tc : TC, held : BOOLEAN]) /\ level' \in [TC -> Nat]
    BY <1>6, <2>1, SendType DEF DrainSend
  <2>3. SendSlope(config.tc_configs[drain.item.tc], drain.speed) * drain.item.ticks \in Int
    <3>1. drain.item.tc \in TC /\ drain.item.ticks \in Nat
      BY <2>1 DEF ItemType
    <3>2. config.tc_configs[drain.item.tc].idle_slope_bps \in Nat
      BY <3>1, ConfigFacts DEF PortType
    <3> QED
      BY <2>1, <3>1, <3>2 DEF SendSlope
  <2>4. DrainType'
    <3>1. drain.item.ticks \in Nat
      BY <2>1 DEF ItemType
    <3> QED
      BY <1>6, <1>f, <2>3, <3>1 DEF DrainSend, DrainType, DrainStates
  <2>5. CreditType' /\ HistoryType'
    BY <1>6, <2>2 DEF DrainSend, CreditType, HistoryType
  <2> QED
    BY <1>6, <2>4, <2>5, Unchanged DEF DrainSend, Bounded
<1>7. CASE DrainSent
  <2>1. drain.item.tc \in TC
    BY <1>f DEF ItemType
  <2>2. DrainType'
    BY <1>7, <1>f, <1>n, <2>1 DEF DrainSent, DrainType, DrainStates
  <2> QED
    BY <1>7, <2>2, Unchanged DEF DrainSent, Bounded, history
<1> QED
  BY <1>1, <1>2, <1>3, <1>4, <1>5, <1>6, <1>7 DEF DrainLoop

LEMMA TypeOther ==
  ASSUME TypeOK, Bounded,
         (\E cfg \in Configs : UpdateConfig(cfg)) \/ Stop \/ Tick \/ UNCHANGED vars
  PROVE  TypeOK' /\ Bounded'
<1> USE DEF TypeOK
<1>1. ASSUME NEW cfg \in Configs, UpdateConfig(cfg)
      PROVE  TypeOK' /\ Bounded'
  <2>1. PortType'
    BY <1>1, CBSAssumption DEF UpdateConfig, PortType
  <2> QED
    BY <1>1, <2>1, Unchanged DEF UpdateConfig, Bounded, history
<1>2. CASE Stop
  <2>1. PortType'
    BY <1>2 DEF Stop, PortType
  <2> QED
    BY <1>2, <2>1, Unchanged DEF Stop, Bounded, history
<1>3. CASE Tick
  <2>1. DrainType'
    BY <1>3 DEF Tick, DrainType, AtLeast
  <2>2. CreditType'
    <3>1. elapsed' \in 0 .. ElapsedCap
      BY <1>3, CBSAssumption DEF Tick, CreditType, AtMost
    <3>2. \A tc \in TC : level[tc] \in Nat /\ config.tc_configs[tc].idle_slope_bps \in Nat
      BY ConfigFacts DEF CreditType, PortType
    <3>3. level' \in [TC -> Nat]
      BY <1>3, <3>2 DEF Tick, AtLeast
    <3> QED
      BY <1>3, <3>1, <3>3 DEF Tick, CreditType
  <2> QED
    BY <1>3, <2>1, <2>2, Unchanged DEF Tick, Bounded, history
<1>4. CASE UNCHANGED vars
  BY <1>4, Unchanged DEF vars, Bounded, history
<1> QED
  BY <1>1, <1>2, <1>3, <1>4

\* Every variable of the engine keeps its type, whatever the interleaving of the
\* callers, _drain_loop, update_config and stop; in particular a frame only ever
\* waits in the queue of the class it was filed under.
THEOREM TypeCorrect == Spec => []TypeOK
<1>1. TypeOK /\ Bounded /\ [Next]_vars => TypeOK' /\ Bounded'
  BY TypeCall, TypeDrain, TypeOther DEF Next
<1> QED
  BY <1>1, TypeInit, PTL DEF Spec

-----------------------------------------------------------------------------
(***************************************************************************)
(* The counters.                                                           *)
(***************************************************************************)
LEMMA SignallingFinite ==
  \A tc \in TC : IsFiniteSet(Signalling(tc)) /\ Cardinality(Signalling(tc)) \in Nat
  BY CBSAssumption, FS_Subset, FS_CardinalityType DEF Signalling

LEMMA SentHeldFinite ==
  ASSUME TypeOK
  PROVE  \A tc \in TC : IsFiniteSet(SentHeld(tc)) /\ Cardinality(SentHeld(tc)) \in Nat
<1>1. IsFiniteSet(1 .. Len(out)) /\ DOMAIN out = 1 .. Len(out)
  BY FS_Interval DEF TypeOK, HistoryType
<1> QED
  BY <1>1, FS_Subset, FS_CardinalityType DEF SentHeld

\* What an action that leaves the terms of the balance alone keeps.
LEMMA BalanceUnchanged ==
  ASSUME StatsBalance,
         stats'.queued = stats.queued,
         \A tc \in TC : Signalling(tc)' = Signalling(tc),
         \A tc \in TC : Len(queues'[tc]) + OnPort(tc)' = Len(queues[tc]) + OnPort(tc),
         \A tc \in TC : SentHeld(tc)' = SentHeld(tc)
  PROVE  StatsBalance'
  BY DEF StatsBalance

\* One more call of send_fn for frame i.
LEMMA SentHeldSend ==
  ASSUME TypeOK, NEW i \in ItemType, NEW h \in BOOLEAN, NEW speed \in Nat, Send(i, h, speed),
         NEW tc \in TC
  PROVE  Cardinality(SentHeld(tc)')
           = Cardinality(SentHeld(tc)) + (IF h /\ i.tc = tc THEN 1 ELSE 0)
<1> DEFINE e == [frame |-> i.frame, tc |-> i.tc, held |-> h]
           S == [frame : Nat, tc : TC, held : BOOLEAN]
<1>1. e \in S /\ out \in Seq(S) /\ out' = Append(out, e) /\ e.held = h /\ e.tc = i.tc
  BY DEF TypeOK, HistoryType, Send, ItemType
<1> HIDE DEF e
<1>2. /\ DOMAIN out = 1 .. Len(out) /\ Len(out) \in Nat
      /\ DOMAIN out' = 1 .. Len(out) + 1
      /\ \A k \in 1 .. Len(out) : out'[k] = out[k]
      /\ out'[Len(out) + 1] = e
  BY <1>1, AppendProperties
<1>3. Len(out) + 1 \notin SentHeld(tc)
  BY <1>2 DEF SentHeld
<1>4. SentHeld(tc)' = IF h /\ i.tc = tc THEN SentHeld(tc) \union {Len(out) + 1}
                                          ELSE SentHeld(tc)
  BY <1>1, <1>2 DEF SentHeld
<1>5. IsFiniteSet(SentHeld(tc)) /\ Cardinality(SentHeld(tc)) \in Nat
  BY SentHeldFinite
<1>6. Cardinality(SentHeld(tc) \union {Len(out) + 1}) = Cardinality(SentHeld(tc)) + 1
  BY <1>3, <1>5, FS_AddElement
<1>7. CASE h /\ i.tc = tc
  BY <1>4, <1>6, <1>7
<1>8. CASE ~(h /\ i.tc = tc)
  BY <1>4, <1>5, <1>8
<1> QED
  BY <1>7, <1>8

LEMMA BalanceCall ==
  ASSUME TypeOK, StatsBalance, NEW c \in Callers,
         \/ \E tc \in RawTC, ticks \in Sizes : CallStart(c, tc, ticks)
         \/ CallRest(c)
  PROVE  StatsBalance'
<1> USE DEF TypeOK
<1>f. caller[c].tc \in TC /\ caller[c].ticks \in Nat /\ arrived \in Nat
  BY CallerFacts DEF HistoryType
\* A step between two states that are not "signal".
<1>s. ASSUME caller[c].pc # "signal", caller'[c].pc # "signal",
             \A d \in Callers : d # c => caller'[d] = caller[d]
      PROVE  \A tc \in TC : Signalling(tc)' = Signalling(tc)
  BY <1>s DEF Signalling
<1>1. ASSUME NEW tc \in RawTC, NEW ticks \in Sizes, CallStart(c, tc, ticks)
      PROVE  StatsBalance'
  <2>1. \A d \in TC : Signalling(d)' = Signalling(d)
    BY <1>1, <1>s DEF CallStart, CallerType
  <2> QED
    BY <1>1, <2>1, BalanceUnchanged DEF CallStart, history, OnPort, SentHeld
<1>2. CASE CallCheck(c)
  <2>1. \A d \in TC : Signalling(d)' = Signalling(d)
    BY <1>2, <1>s DEF CallCheck, CallerType
  <2> QED
    BY <1>2, <2>1, BalanceUnchanged DEF CallCheck, history, OnPort, SentHeld
<1>3. CASE CallBypass(c)
  <2>1. \A d \in TC : Signalling(d)' = Signalling(d)
    BY <1>3, <1>s DEF CallBypass, CallerType, NoCall
  <2> DEFINE i == [frame |-> arrived + 1, tc |-> caller[c].tc, ticks |-> caller[c].ticks]
  <2>1a. i \in ItemType
    BY <1>f DEF ItemType
  <2>1b. Send(i, FALSE, 0)
    BY <1>3 DEF CallBypass
  <2>2. i \in ItemType /\ Send(i, FALSE, 0)
    BY <2>1a, <2>1b
  <2> HIDE DEF i
  <2>3. \A d \in TC : Cardinality(SentHeld(d)') = Cardinality(SentHeld(d))
    <3>1. ASSUME NEW d \in TC PROVE Cardinality(SentHeld(d)') = Cardinality(SentHeld(d))
      <4>1. Cardinality(SentHeld(d)')
              = Cardinality(SentHeld(d)) + (IF FALSE /\ i.tc = d THEN 1 ELSE 0)
        BY <2>2, SentHeldSend
      <4>2. Cardinality(SentHeld(d)) \in Nat
        BY SentHeldFinite
      <4> QED
        BY <4>1, <4>2
    <3> QED
      BY <3>1
  <2>4. stats'.queued = stats.queued
    BY <1>3, <1>f, RecordSentType DEF CallBypass
  <2> QED
    BY <1>3, <2>1, <2>3, <2>4 DEF CallBypass, StatsBalance, OnPort
<1>4. CASE CallRefuse(c)
  <2>1. \A d \in TC : Signalling(d)' = Signalling(d)
    BY <1>4, <1>s DEF CallRefuse, CallerType, NoCall
  <2>2. stats'.queued = stats.queued
    BY <1>4 DEF CallRefuse, StatsType
  <2> QED
    BY <1>4, <2>1, <2>2, BalanceUnchanged DEF CallRefuse, OnPort, SentHeld
\* The frame is in the queue before it is counted...
<1>5. CASE CallAppend(c)
  <2> DEFINE i == [frame |-> arrived + 1, tc |-> caller[c].tc, ticks |-> caller[c].ticks]
  <2>q. PICK q \in TC : q = caller[c].tc
    BY <1>f
  <2>1. i \in ItemType /\ q \in TC /\ queues' = [queues EXCEPT ![q] = Append(@, i)]
    BY <1>5, <1>f, <2>q DEF CallAppend, ItemType
  <2> HIDE DEF i
  <2>2. \A d \in TC : Len(queues'[d]) = Len(queues[d]) + (IF d = q THEN 1 ELSE 0)
    BY <2>1, AppendProperties DEF QueueType
  <2>3. c \notin Signalling(q)
    BY <1>5, <2>q DEF CallAppend, Signalling
  <2>4. \A d \in TC : Signalling(d)' = IF d = q THEN Signalling(d) \union {c}
                                                  ELSE Signalling(d)
    BY <1>5, <1>f, <2>q DEF CallAppend, CallerType, Signalling
  <2>5. stats' = stats
    BY <1>5 DEF CallAppend
  <2> SUFFICES ASSUME NEW d \in TC
               PROVE  stats'.queued[d] + Cardinality(Signalling(d)')
                        = Len(queues'[d]) + OnPort(d)' + Cardinality(SentHeld(d)')
    BY DEF StatsBalance
  <2>6. stats.queued[d] + Cardinality(Signalling(d))
          = Len(queues[d]) + OnPort(d) + Cardinality(SentHeld(d))
    BY DEF StatsBalance
  <2>7. /\ stats.queued[d] \in Nat /\ Len(queues[d]) \in Nat /\ OnPort(d) \in Nat
        /\ Cardinality(Signalling(d)) \in Nat /\ Cardinality(SentHeld(d)) \in Nat
    BY SignallingFinite, SentHeldFinite DEF StatsType, QueueType, OnPort
  <2>10. OnPort(d)' = OnPort(d) /\ SentHeld(d)' = SentHeld(d)
    BY <1>5 DEF CallAppend, OnPort, SentHeld
  <2>8. Len(queues'[d]) = Len(queues[d]) + (IF d = q THEN 1 ELSE 0)
    BY <2>2
  <2>9. Cardinality(Signalling(d)')
          = Cardinality(Signalling(d)) + (IF d = q THEN 1 ELSE 0)
    <3>1. CASE d = q
      BY <2>1, <2>3, <2>4, <3>1, SignallingFinite, FS_AddElement
    <3>2. CASE d # q
      BY <2>4, <2>7, <3>2
    <3> QED
      BY <3>1, <3>2
  <2>11. stats'.queued[d] = stats.queued[d]
    BY <2>5
  <2> DEFINE one == IF d = q THEN 1 ELSE 0
  <2>12. stats.queued[d] + (Cardinality(Signalling(d)) + one)
           = (Len(queues[d]) + one) + OnPort(d) + Cardinality(SentHeld(d))
    <3> DEFINE a == stats.queued[d]
               b == Cardinality(Signalling(d))
               x == Len(queues[d])
               y == OnPort(d)
               z == Cardinality(SentHeld(d))
    <3>1. one \in Nat /\ a \in Nat /\ b \in Nat /\ x \in Nat /\ y \in Nat /\ z \in Nat
      BY <2>7
    <3>2. a + b = x + y + z
      BY <2>6
    <3> HIDE DEF one, a, b, x, y, z
    <3>3. a + (b + one) = (x + one) + y + z
      BY <3>1, <3>2
    <3> QED
      BY <3>3 DEF a, b, x, y, z
  <2> QED
    BY <2>8, <2>9, <2>10, <2>11, <2>12
\* ... and counted when the caller signals.
<1>6. CASE CallSignal(c)
  <2> DEFINE q == caller[c].tc
  <2>1. stats'.queued = [stats.queued EXCEPT ![q] = @ + 1]
    BY <1>6, <1>f, RecordSentType DEF CallSignal
  <2>2. \A d \in TC : Signalling(d)' = IF d = q THEN Signalling(d) \ {c}
                                                  ELSE Signalling(d)
    BY <1>6, <1>f DEF CallSignal, CallerType, Signalling, NoCall
  <2>3. c \in Signalling(q)
    BY <1>6 DEF CallSignal, Signalling
  <2>4. \A d \in TC : Cardinality(Signalling(d)')
                         = Cardinality(Signalling(d)) - (IF d = q THEN 1 ELSE 0)
    BY <1>f, <2>2, <2>3, SignallingFinite, FS_RemoveElement
  <2>5. \A d \in TC : /\ stats.queued[d] \in Nat /\ Len(queues[d]) \in Nat
                         /\ OnPort(d) \in Nat /\ OnPort(d)' = OnPort(d)
                         /\ Cardinality(Signalling(d)) \in Nat
                         /\ Cardinality(SentHeld(d)) \in Nat
    BY <1>6, SignallingFinite, SentHeldFinite DEF CallSignal, StatsType, QueueType, OnPort
  <2>6. queues' = queues /\ \A d \in TC : SentHeld(d)' = SentHeld(d)
    BY <1>6 DEF CallSignal, history, SentHeld
  <2>7. \A d \in TC : stats'.queued[d] = stats.queued[d] + (IF d = q THEN 1 ELSE 0)
    <3>1. DOMAIN stats.queued = TC
      BY DEF StatsType
    <3> HIDE DEF q
    <3> QED
      BY <2>1, <2>5, <3>1
  <2> HIDE DEF q
  <2>8. ASSUME NEW d \in TC
        PROVE  stats'.queued[d] + Cardinality(Signalling(d)')
                 = Len(queues'[d]) + OnPort(d)' + Cardinality(SentHeld(d)')
    <3>1. stats.queued[d] + Cardinality(Signalling(d)) = Len(queues[d]) + OnPort(d) + Cardinality(SentHeld(d))
      BY DEF StatsBalance
    <3>2. PICK k \in Int : k = IF d = q THEN 1 ELSE 0
      OBVIOUS
    <3>3. /\ stats'.queued[d] = stats.queued[d] + k
          /\ Cardinality(Signalling(d)') = Cardinality(Signalling(d)) - k
      BY <2>4, <2>7, <3>2
    <3>4. Len(queues'[d]) = Len(queues[d]) /\ Cardinality(SentHeld(d)') = Cardinality(SentHeld(d))
      BY <2>6
    <3>5. PICK a, b, l, o, h :
            /\ a = stats.queued[d] /\ b = Cardinality(Signalling(d)) /\ l = Len(queues[d])
            /\ o = OnPort(d) /\ h = Cardinality(SentHeld(d))
      OBVIOUS
    <3>6. a \in Int /\ b \in Int /\ l \in Int /\ o \in Int /\ h \in Int /\ OnPort(d)' = o
      BY <2>5, <3>5
    <3>7. a + b = l + o + h
      BY <3>1, <3>5
    <3>8. (a + k) + (b - k) = l + o + h
      BY <3>6, <3>7
    <3> QED
      BY <3>3, <3>4, <3>5, <3>6, <3>8
  <2> QED
    BY <2>8 DEF StatsBalance
<1> QED
  BY <1>1, <1>2, <1>3, <1>4, <1>5, <1>6 DEF CallRest

LEMMA BalanceDrain ==
  ASSUME TypeOK, StatsBalance, DrainLoop
  PROVE  StatsBalance'
<1> USE DEF TypeOK
<1>f. drain \in [pc : DrainStates, speed : Nat, elapsed : Nat, pending_tc : TC \union {-1},
                 pending_drain : Int, exclude_tc : TC \union {-1}, item : ItemType, left : Nat]
  BY DEF DrainType
<1>1. CASE DrainWake \/ DrainClear \/ PassSample \/ PassIdle \/ DrainSent
  <2>1. drain.pc # "send" /\ drain'.pc # "send"
    BY <1>1, <1>f DEF DrainWake, DrainClear, PassSample, PassIdle, DrainSent
  <2>2. UNCHANGED <<stats, queues, caller, out>>
    BY <1>1 DEF DrainWake, DrainClear, PassSample, PassIdle, DrainSent, history
  <2> QED
    BY <2>1, <2>2, BalanceUnchanged DEF Signalling, OnPort, SentHeld, QueueType
\* A frame moves from its queue to the port...
<1>2. ASSUME NEW tc \in TC, PassSelect(tc)
      PROVE  StatsBalance'
  <2>1. queues[tc] \in Seq(ItemType) /\ queues[tc] # << >>
    BY <1>2 DEF PassSelect, Eligible, QueueType
  <2>2. Len(Tail(queues[tc])) = Len(queues[tc]) - 1 /\ Len(queues[tc]) \in Nat
    BY <2>1, HeadTailProperties
  <2>3. Head(queues[tc]).tc = tc
    BY <2>1, HeadTailProperties DEF QueueType
  <2>4. drain.pc = "locked" /\ drain'.pc = "send" /\ drain'.item = Head(queues[tc])
    BY <1>2, <1>f DEF PassSelect
  <2>5. \A d \in TC : OnPort(d) = 0 /\ OnPort(d)' = IF d = tc THEN 1 ELSE 0
    BY <2>3, <2>4 DEF OnPort
  <2>6. \A d \in TC : Len(queues'[d]) = Len(queues[d]) - (IF d = tc THEN 1 ELSE 0)
    BY <1>2, <2>2 DEF PassSelect, QueueType
  <2>7. \A d \in TC : Len(queues'[d]) + OnPort(d)' = Len(queues[d]) + OnPort(d)
    <3> SUFFICES ASSUME NEW d \in TC
                 PROVE  Len(queues'[d]) + OnPort(d)' = Len(queues[d]) + OnPort(d)
      OBVIOUS
    <3>1. Len(queues[d]) \in Nat
      BY DEF QueueType
    <3>2. OnPort(d) = 0 /\ OnPort(d)' = IF d = tc THEN 1 ELSE 0
      BY <2>5
    <3>3. Len(queues'[d]) = Len(queues[d]) - (IF d = tc THEN 1 ELSE 0)
      BY <2>6
    <3> QED
      BY <3>1, <3>2, <3>3
  <2> QED
    BY <1>2, <2>7, BalanceUnchanged DEF PassSelect, Signalling, SentHeld, history
\* ... and from the port to the wire.
<1>3. CASE DrainSend
  <2>1. drain.item \in ItemType /\ drain.speed \in Nat /\ Send(drain.item, TRUE, drain.speed)
    BY <1>3, <1>f DEF DrainSend
  <2>2. drain.pc = "send" /\ drain'.pc = "busy"
    BY <1>3, <1>f DEF DrainSend
  <2>3. \A d \in TC : OnPort(d) = (IF drain.item.tc = d THEN 1 ELSE 0) /\ OnPort(d)' = 0
    BY <2>2 DEF OnPort
  <2>4. \A d \in TC : Cardinality(SentHeld(d)')
                         = Cardinality(SentHeld(d)) + (IF drain.item.tc = d THEN 1 ELSE 0)
    BY <2>1, SentHeldSend
  <2>5. UNCHANGED <<stats, queues>> /\ \A d \in TC : Signalling(d)' = Signalling(d)
    BY <1>3 DEF DrainSend, Signalling
  <2>6. \A d \in TC : /\ stats.queued[d] \in Nat /\ Len(queues[d]) \in Nat
                         /\ Cardinality(Signalling(d)) \in Nat
                         /\ Cardinality(SentHeld(d)) \in Nat
    BY SignallingFinite, SentHeldFinite DEF StatsType, QueueType
  <2> QED
    BY <2>3, <2>4, <2>5, <2>6 DEF StatsBalance
<1> QED
  BY <1>1, <1>2, <1>3 DEF DrainLoop

LEMMA BalanceOther ==
  ASSUME TypeOK, StatsBalance,
         (\E cfg \in Configs : UpdateConfig(cfg)) \/ Stop \/ Tick \/ UNCHANGED vars
  PROVE  StatsBalance'
<1>1. UNCHANGED <<stats, queues, caller, out>>
  BY DEF UpdateConfig, Stop, Tick, vars, history
<1>2. drain'.pc = drain.pc /\ drain'.item = drain.item
  BY DEF UpdateConfig, Stop, Tick, vars, TypeOK, DrainType
<1> QED
  BY <1>1, <1>2, BalanceUnchanged DEF Signalling, OnPort, SentHeld, TypeOK, QueueType

LEMMA BalanceInit == Init => StatsBalance
<1> SUFFICES ASSUME Init, NEW tc \in TC
             PROVE  stats.queued[tc] + Cardinality(Signalling(tc))
                      = Len(queues[tc]) + OnPort(tc) + Cardinality(SentHeld(tc))
  BY DEF StatsBalance
<1>1. Signalling(tc) = {} /\ SentHeld(tc) = {}
  BY DEF Init, Signalling, SentHeld, NoCall
<1>2. OnPort(tc) = 0 /\ Len(queues[tc]) = 0 /\ stats.queued[tc] = 0
  BY DEF Init, OnPort
<1> QED
  BY <1>1, <1>2, FS_EmptySet

\* The dashboard's counters tell the truth at every moment, with any number of
\* callers: check_and_send counts a frame only after it released the lock, so the
\* drain loop may have sent it by then, and what is missing from the counter is
\* exactly the calls between the two.
THEOREM CountersBalance == Spec => []StatsBalance
<1>1. TypeOK /\ StatsBalance /\ [Next]_vars => StatsBalance'
  BY BalanceCall, BalanceDrain, BalanceOther DEF Next
<1> QED
  BY <1>1, BalanceInit, TypeCorrect, PTL DEF Spec

-----------------------------------------------------------------------------
(***************************************************************************)
(* The wake-ups.  NoLostWakeup is inductive as long as the configuration   *)
(* stays: AnyQueued becomes true in CallAppend only, whose caller has the  *)
(* event still to set, and the loop goes to sleep only in a pass, under    *)
(* the lock, that found nothing queued.                                    *)
(***************************************************************************)
LEMMA WakeupCall ==
  ASSUME TypeOK, NoLostWakeup, NEW c \in Callers,
         \/ \E tc \in RawTC, ticks \in Sizes : CallStart(c, tc, ticks)
         \/ CallRest(c)
  PROVE  NoLostWakeup'
<1> USE DEF TypeOK
<1> SUFFICES ASSUME drain'.pc = "wait", AnyQueued'
             PROVE  event' \/ \E d \in Callers : caller'[d].pc = "signal"
  BY DEF NoLostWakeup
<1>u. UNCHANGED <<drain, config>>
  BY DEF CallStart, CallRest, CallCheck, CallBypass, CallRefuse, CallAppend, CallSignal, port
<1>1. ASSUME UNCHANGED <<queues, event>>,
             caller[c].pc # "signal", \A d \in Callers : d # c => caller'[d] = caller[d]
      PROVE  event' \/ \E d \in Callers : caller'[d].pc = "signal"
  <2>1. drain.pc = "wait" /\ AnyQueued
    BY <1>1, <1>u DEF AnyQueued
  <2> QED
    BY <1>1, <2>1 DEF NoLostWakeup
<1>2. CASE \/ \E tc \in RawTC, ticks \in Sizes : CallStart(c, tc, ticks)
           \/ CallCheck(c) \/ CallBypass(c) \/ CallRefuse(c)
  <2>1. UNCHANGED <<queues, event>> /\ caller[c].pc # "signal"
    BY <1>2 DEF CallStart, CallCheck, CallBypass, CallRefuse
  <2>2. \A d \in Callers : d # c => caller'[d] = caller[d]
    BY <1>2 DEF CallStart, CallCheck, CallBypass, CallRefuse, CallerType
  <2> QED
    BY <1>1, <2>1, <2>2
<1>3. CASE CallAppend(c)
  <2>1. caller'[c].pc = "signal"
    BY <1>3, CallerFacts DEF CallAppend, CallerType
  <2> QED
    BY <2>1
<1>4. CASE CallSignal(c)
  BY <1>4 DEF CallSignal
<1> QED
  BY <1>2, <1>3, <1>4 DEF CallRest

LEMMA WakeupDrain ==
  ASSUME TypeOK, NoLostWakeup, DrainLoop
  PROVE  NoLostWakeup'
<1> USE DEF TypeOK
<1>f. drain \in [pc : DrainStates, speed : Nat, elapsed : Nat, pending_tc : TC \union {-1},
                 pending_drain : Int, exclude_tc : TC \union {-1}, item : ItemType, left : Nat]
  BY DEF DrainType
<1>1. CASE \/ DrainWake \/ DrainClear \/ PassSample \/ DrainSend \/ DrainSent
           \/ \E tc \in TC : PassSelect(tc)
  <2>1. drain'.pc # "wait"
    BY <1>1, <1>f DEF DrainWake, DrainClear, PassSample, DrainSend, DrainSent, PassSelect
  <2> QED
    BY <2>1 DEF NoLostWakeup
<1>2. CASE PassIdle
  <2>1. drain'.pc = "wait" => ~AnyQueued
    BY <1>2, <1>f DEF PassIdle
  <2>2. AnyQueued' = AnyQueued
    BY <1>2 DEF PassIdle, AnyQueued, port
  <2> QED
    BY <2>1, <2>2 DEF NoLostWakeup
<1> QED
  BY <1>1, <1>2 DEF DrainLoop

LEMMA WakeupOther ==
  ASSUME TypeOK, NoLostWakeup, Stop \/ Tick \/ UNCHANGED vars
  PROVE  NoLostWakeup'
<1>1. CASE Stop
  BY <1>1 DEF Stop, NoLostWakeup
<1>2. CASE Tick \/ UNCHANGED vars
  <2>1. drain'.pc = drain.pc /\ UNCHANGED <<config, queues, event, caller>>
    BY <1>2 DEF Tick, vars, port, TypeOK, DrainType
  <2>2. AnyQueued' = AnyQueued
    BY <2>1 DEF AnyQueued
  <2> QED
    BY <2>1, <2>2 DEF NoLostWakeup
<1> QED
  BY <1>1, <1>2

\* Only update_config can strand a frame: it does not set the event, so a frame
\* that waits in a class it enables goes out at the next timeout of wait().
Stranding == \E cfg \in Configs : UpdateConfig(cfg)

\* No interleaving of check_and_send, of any number of callers, with _drain_loop
\* and stop loses a wake-up: the only step that can end in a sleeping loop with a
\* frame queued and nobody about to wake it is a call of update_config.
THEOREM OnlyUpdatesStrand == Spec => [][NoLostWakeup /\ ~NoLostWakeup' => Stranding]_vars
<1>1. TypeOK /\ [Next]_vars => (NoLostWakeup /\ ~NoLostWakeup' => Stranding)
  BY WakeupCall, WakeupDrain, WakeupOther DEF Next, Stranding
<1>2. TypeOK /\ [Next]_vars => [NoLostWakeup /\ ~NoLostWakeup' => Stranding]_vars
  BY <1>1
<1> QED
  BY <1>2, TypeCorrect, PTL DEF Spec

LEMMA PortKept ==
  ASSUME TypeOK, [Next]_vars, updates' = 0
  PROVE  updates = 0 /\ UNCHANGED config /\ ~Stranding
<1>1. CASE Stranding
  <2>1. updates' = updates + 1 /\ updates \in Nat
    BY <1>1, CBSAssumption DEF Stranding, UpdateConfig, TypeOK, PortType
  <2> QED
    BY <2>1
<1>2. CASE ~Stranding
  <2>1. UNCHANGED <<config, updates>>
    BY <1>2 DEF Stranding, Next, CallStart, CallRest, CallCheck, CallBypass, CallRefuse,
       CallAppend, CallSignal, DrainLoop, DrainWake, DrainClear, PassSample, PassSelect,
       PassIdle, DrainSend, DrainSent, Stop, Tick, vars, port
  <2> QED
    BY <1>2, <2>1
<1> QED
  BY <1>1, <1>2

\* As long as the port keeps the configuration it started with, no wake-up is lost.
THEOREM WakeupsKept == Spec => [](updates = 0 => NoLostWakeup)
<1> DEFINE Kept == updates = 0 => NoLostWakeup
<1>1. Init => Kept
  BY DEF Init, NoLostWakeup, AnyQueued
<1>2. TypeOK /\ Kept /\ [Next]_vars => Kept'
  BY PortKept, WakeupCall, WakeupDrain, WakeupOther DEF Next, Stranding
<1> QED
  BY <1>1, <1>2, TypeCorrect, PTL DEF Spec

-----------------------------------------------------------------------------
(***************************************************************************)
(* The egress contract.  The invariant the step simulation rests on: the   *)
(* frames of a class are queued in the order of their numbers, and the one *)
(* on the port is older than all of them.                                  *)
(***************************************************************************)
QueueOrdered ==
  \A tc \in TC : \A j, k \in DOMAIN queues[tc] :
    j < k => queues[tc][j].frame < queues[tc][k].frame

Numbered == \A tc \in TC : \A k \in DOMAIN queues[tc] : queues[tc][k].frame <= arrived

PortFirst ==
  drain.pc = "send" =>
    /\ drain.item.frame <= arrived
    /\ \A k \in DOMAIN queues[drain.item.tc] :
         drain.item.frame < queues[drain.item.tc][k].frame

Ordered == QueueOrdered /\ Numbered /\ PortFirst

LEMMA QueueItems ==
  ASSUME TypeOK, NEW tc \in TC
  PROVE  /\ queues[tc] \in Seq(ItemType)
         /\ \A k \in DOMAIN queues[tc] : queues[tc][k].frame \in Nat /\ queues[tc][k].tc = tc
<1>1. queues[tc] \in Seq(ItemType)
  BY DEF TypeOK, QueueType
<1>2. \A k \in DOMAIN queues[tc] : queues[tc][k] \in ItemType
  BY <1>1
<1> QED
  BY <1>1, <1>2 DEF TypeOK, QueueType, ItemType

LEMMA OrderedAppend ==
  ASSUME TypeOK, Ordered, NEW c \in Callers, CallAppend(c)
  PROVE  Ordered'
<1> USE DEF TypeOK
<1>q. PICK q \in TC : q = caller[c].tc
  BY CallerFacts
<1> DEFINE i == [frame |-> arrived + 1, tc |-> caller[c].tc, ticks |-> caller[c].ticks]
<1>1. i \in ItemType /\ i.frame = arrived + 1 /\ arrived \in Nat
  BY CallerFacts DEF ItemType, HistoryType
<1>2. queues' = [queues EXCEPT ![q] = Append(@, i)] /\ arrived' = arrived + 1 /\ drain' = drain
  BY <1>q DEF CallAppend
<1> HIDE DEF i
<1> DEFINE s == queues[q]
<1>3. s \in Seq(ItemType) /\ \A tc \in TC : queues'[tc] = IF tc = q THEN Append(s, i) ELSE queues[tc]
  BY <1>2 DEF QueueType
<1>4. /\ DOMAIN s = 1 .. Len(s) /\ DOMAIN Append(s, i) = 1 .. Len(s) + 1 /\ Len(s) \in Nat
      /\ \A k \in 1 .. Len(s) : Append(s, i)[k] = s[k]
      /\ Append(s, i)[Len(s) + 1] = i
  BY <1>1, <1>3, AppendProperties
<1>5. \A k \in DOMAIN s : s[k].frame \in Nat /\ s[k].frame <= arrived
  BY QueueItems DEF Ordered, Numbered
<1>6. \A j, k \in DOMAIN s : j < k => s[j].frame < s[k].frame
  BY DEF Ordered, QueueOrdered
<1>7. \A tc \in TC : \A k \in DOMAIN queues[tc] : queues[tc][k].frame \in Nat
  BY QueueItems
<1> HIDE DEF s
<1>8. QueueOrdered'
  <2>1. \A j, k \in DOMAIN Append(s, i) : j < k => Append(s, i)[j].frame < Append(s, i)[k].frame
    BY <1>1, <1>4, <1>5, <1>6
  <2> QED
    BY <1>3, <2>1 DEF Ordered, QueueOrdered
<1>9. Numbered'
  <2>1. \A k \in DOMAIN Append(s, i) : Append(s, i)[k].frame <= arrived + 1
    BY <1>1, <1>4, <1>5
  <2>2. \A tc \in TC : \A k \in DOMAIN queues[tc] : queues[tc][k].frame <= arrived + 1
    BY <1>1, <1>7 DEF Ordered, Numbered
  <2> QED
    BY <1>2, <1>3, <2>1, <2>2, ZenonT(30) DEF Numbered
<1>10. PortFirst'
  <2> SUFFICES ASSUME drain.pc = "send"
               PROVE  /\ drain.item.frame <= arrived + 1
                      /\ \A k \in DOMAIN queues'[drain.item.tc] :
                           drain.item.frame < queues'[drain.item.tc][k].frame
    BY <1>2 DEF PortFirst
  <2>1. drain.item.frame \in Nat /\ drain.item.tc \in TC /\ drain.item.frame <= arrived
    BY DEF DrainType, ItemType, Ordered, PortFirst
  <2>2. CASE drain.item.tc = q
    <3>1. \A k \in DOMAIN s : drain.item.frame < s[k].frame
      BY <2>2 DEF Ordered, PortFirst, s
    <3>2. \A k \in DOMAIN Append(s, i) : drain.item.frame < Append(s, i)[k].frame
      BY <1>1, <1>4, <2>1, <3>1
    <3>3. queues'[drain.item.tc] = Append(s, i)
      BY <1>3, <2>2
    <3>4. drain.item.frame <= arrived + 1
      BY <1>1, <2>1
    <3> QED
      BY <3>2, <3>3, <3>4
  <2>3. CASE drain.item.tc # q
    BY <1>1, <1>3, <2>1, <2>3 DEF Ordered, PortFirst
  <2> QED
    BY <2>2, <2>3
<1> QED
  BY <1>8, <1>9, <1>10 DEF Ordered

LEMMA OrderedSelect ==
  ASSUME TypeOK, Ordered, NEW tc \in TC, PassSelect(tc)
  PROVE  Ordered'
<1> USE DEF TypeOK
<1> DEFINE s == queues[tc]
<1>1. s \in Seq(ItemType) /\ s # << >>
  BY DEF PassSelect, Eligible, QueueType
<1>2. /\ Len(s) \in Nat /\ DOMAIN s = 1 .. Len(s) /\ Head(s) = s[1] /\ 1 \in DOMAIN s
      /\ Tail(s) \in Seq(ItemType) /\ DOMAIN Tail(s) = 1 .. Len(s) - 1
      /\ \A k \in 1 .. Len(s) - 1 : Tail(s)[k] = s[k + 1]
  BY <1>1, HeadTailProperties
<1>3. \A k \in DOMAIN s : s[k].frame \in Nat /\ s[k].frame <= arrived /\ s[k].tc = tc
  BY QueueItems DEF Ordered, Numbered
<1>4. \A j, k \in DOMAIN s : j < k => s[j].frame < s[k].frame
  BY DEF Ordered, QueueOrdered
<1>5. \A d \in TC : queues'[d] = IF d = tc THEN Tail(s) ELSE queues[d]
  BY DEF PassSelect, QueueType
<1>6. drain'.pc = "send" /\ drain'.item = Head(s) /\ arrived' = arrived
  BY DEF PassSelect, DrainType, history
<1> HIDE DEF s
<1>7. QueueOrdered'
  <2>1. \A j, k \in DOMAIN Tail(s) : j < k => Tail(s)[j].frame < Tail(s)[k].frame
    BY <1>2, <1>4
  <2> QED
    BY <1>5, <2>1 DEF Ordered, QueueOrdered
<1>8. Numbered'
  <2>1. \A k \in DOMAIN Tail(s) : Tail(s)[k].frame <= arrived
    BY <1>2, <1>3
  <2> QED
    BY <1>5, <1>6, <2>1 DEF Ordered, Numbered
<1>9. PortFirst'
  <2>1. \A k \in DOMAIN Tail(s) : Head(s).frame < Tail(s)[k].frame
    BY <1>2, <1>4
  <2>2. Head(s).frame <= arrived /\ Head(s).tc = tc
    BY <1>2, <1>3
  <2> QED
    BY <1>5, <1>6, <2>1, <2>2 DEF PortFirst
<1> QED
  BY <1>7, <1>8, <1>9 DEF Ordered

\* A step that touches no queue and puts no frame on the port.
LEMMA OrderedKept ==
  ASSUME TypeOK, Ordered, UNCHANGED queues,
         arrived' \in {arrived, arrived + 1},
         drain'.pc = "send" => drain.pc = "send" /\ drain'.item = drain.item
  PROVE  Ordered'
<1> USE DEF TypeOK
<1>1. arrived \in Nat /\ drain.item.frame \in Nat
  BY DEF HistoryType, DrainType, ItemType
<1>2. \A tc \in TC : \A k \in DOMAIN queues[tc] : queues[tc][k].frame \in Nat
  BY QueueItems
<1>3. QueueOrdered'
  BY DEF Ordered, QueueOrdered
<1>4. Numbered'
  BY <1>1, <1>2 DEF Ordered, Numbered
<1>5. PortFirst'
  BY <1>1 DEF Ordered, PortFirst
<1> QED
  BY <1>3, <1>4, <1>5 DEF Ordered

LEMMA OrderedStep ==
  ASSUME TypeOK, Ordered, [Next]_vars
  PROVE  Ordered'
<1> USE DEF TypeOK
<1>1. ASSUME NEW c \in Callers, CallAppend(c)
      PROVE  Ordered'
  BY <1>1, OrderedAppend
<1>2. ASSUME NEW c \in Callers,
             \/ \E tc \in RawTC, ticks \in Sizes : CallStart(c, tc, ticks)
             \/ CallCheck(c) \/ CallBypass(c) \/ CallRefuse(c) \/ CallSignal(c)
      PROVE  Ordered'
  BY <1>2, OrderedKept
  DEF CallStart, CallCheck, CallBypass, CallRefuse, CallSignal, history
<1>3. ASSUME NEW tc \in TC, PassSelect(tc)
      PROVE  Ordered'
  BY <1>3, OrderedSelect
<1>4. CASE DrainWake \/ DrainClear \/ PassSample \/ PassIdle \/ DrainSend \/ DrainSent
  <2>1. drain'.pc # "send"
    BY <1>4 DEF DrainWake, DrainClear, PassSample, PassIdle, DrainSend, DrainSent, DrainType
  <2>2. UNCHANGED <<queues, arrived>>
    BY <1>4 DEF DrainWake, DrainClear, PassSample, PassIdle, DrainSend, DrainSent, history
  <2> QED
    BY <2>1, <2>2, OrderedKept
<1>5. CASE (\E cfg \in Configs : UpdateConfig(cfg)) \/ Stop \/ Tick \/ UNCHANGED vars
  <2>1. drain'.pc = drain.pc /\ drain'.item = drain.item
    BY <1>5 DEF UpdateConfig, Stop, Tick, vars, DrainType
  <2>2. UNCHANGED <<queues, arrived>>
    BY <1>5 DEF UpdateConfig, Stop, Tick, vars, history
  <2> QED
    BY <2>1, <2>2, OrderedKept
<1> QED
  BY <1>1, <1>2, <1>3, <1>4, <1>5 DEF Next, CallRest, DrainLoop

LEMMA OrderedInit == Init => Ordered
  BY DEF Init, Ordered, QueueOrdered, Numbered, PortFirst

\* The queue of a class is in order of arrival, and what has left it, or is in the
\* drain loop's hand, came before what is queued: check_and_send appends, the loop
\* pops from the left, and nothing is sent past a queue that was not empty.
THEOREM OrderKept == Spec => []Ordered
<1>1. TypeOK /\ Ordered /\ [Next]_vars => Ordered'
  BY OrderedStep
<1> QED
  BY <1>1, OrderedInit, TypeCorrect, PTL DEF Spec

LEMMA InQueue ==
  ASSUME NEW x
  PROVE  x \in QueueFrames <=> \E tc \in TC : \E k \in DOMAIN queues[tc] : x = Outer(queues[tc][k])
  BY DEF QueueFrames

LEMMA InsideKept ==
  ASSUME TypeOK, UNCHANGED queues, drain'.pc # "send", drain.pc # "send"
  PROVE  Inside' = Inside
  BY DEF Inside, QueueFrames, PortFrames

LEMMA SimulateAppend ==
  ASSUME TypeOK, NEW c \in Callers, CallAppend(c)
  PROVE  caller[c].tc \in TC /\ Port!Accept(caller[c].tc, TRUE)
<1> USE DEF TypeOK
<1>q. PICK q \in TC : q = caller[c].tc
  BY CallerFacts
<1> DEFINE i == [frame |-> arrived + 1, tc |-> caller[c].tc, ticks |-> caller[c].ticks]
           s == queues[q]
           f == [frame |-> arrived + 1, tc |-> q, held |-> TRUE]
<1>1. i \in ItemType /\ Outer(i) = f
  BY <1>q, CallerFacts DEF ItemType, HistoryType, Outer
<1>2. queues' = [queues EXCEPT ![q] = Append(@, i)]
  BY <1>q DEF CallAppend
<1> HIDE DEF i
<1>3. s \in Seq(ItemType) /\ \A tc \in TC : queues'[tc] = IF tc = q THEN Append(s, i) ELSE queues[tc]
  BY <1>2 DEF QueueType
<1>4. /\ DOMAIN s = 1 .. Len(s) /\ DOMAIN Append(s, i) = 1 .. Len(s) + 1 /\ Len(s) \in Nat
      /\ \A k \in 1 .. Len(s) : Append(s, i)[k] = s[k]
      /\ Append(s, i)[Len(s) + 1] = i
  BY <1>1, <1>3, AppendProperties
<1> HIDE DEF s, f
<1>5. ASSUME NEW x
      PROVE  (\E k \in DOMAIN Append(s, i) : x = Outer(Append(s, i)[k]))
               <=> (\E k \in DOMAIN s : x = Outer(s[k])) \/ x = f
  BY <1>1, <1>4
<1>6. QueueFrames' = QueueFrames \union {f}
  <2>1. ASSUME NEW x
        PROVE  x \in QueueFrames' <=> x \in QueueFrames \/ x = f
    <3>1. x \in QueueFrames'
            <=> \E tc \in TC : \E k \in DOMAIN queues'[tc] : x = Outer(queues'[tc][k])
      BY DEF QueueFrames
    <3>2. (\E k \in DOMAIN queues'[q] : x = Outer(queues'[q][k]))
            <=> (\E k \in DOMAIN queues[q] : x = Outer(queues[q][k])) \/ x = f
      BY <1>3, <1>5 DEF s
    <3>3. \A tc \in TC : tc # q => queues'[tc] = queues[tc]
      BY <1>3
    <3> QED
      BY <3>1, <3>2, <3>3, InQueue
  <2> QED
    BY <2>1
<1>7. PortFrames' = PortFrames
  BY DEF CallAppend, PortFrames
<1>8. Inside' = Inside \union {f}
  BY <1>6, <1>7 DEF Inside
<1>9. Port!Accept(q, TRUE)
  BY <1>8 DEF Port!Accept, CallAppend, f
<1> QED
  BY <1>q, <1>9

\* Selecting a frame moves it from the head of its queue to the port.
LEMMA SimulateSelect ==
  ASSUME TypeOK, NEW tc \in TC, PassSelect(tc)
  PROVE  Inside' = Inside
<1> USE DEF TypeOK
<1> DEFINE s == queues[tc]
<1>1. s \in Seq(ItemType) /\ s # << >>
  BY DEF PassSelect, Eligible, QueueType
<1>2. /\ Len(s) \in Nat /\ Len(s) > 0 /\ DOMAIN s = 1 .. Len(s) /\ Head(s) = s[1]
      /\ DOMAIN Tail(s) = 1 .. Len(s) - 1
      /\ \A k \in 1 .. Len(s) - 1 : Tail(s)[k] = s[k + 1]
  BY <1>1, HeadTailProperties
<1>3. \A d \in TC : queues'[d] = IF d = tc THEN Tail(s) ELSE queues[d]
  BY DEF PassSelect, QueueType
<1>4. drain.pc = "locked" /\ drain'.pc = "send" /\ drain'.item = Head(s)
  BY DEF PassSelect, DrainType
<1> HIDE DEF s
<1>5. ASSUME NEW x
      PROVE  (\E k \in DOMAIN s : x = Outer(s[k]))
               <=> (\E k \in DOMAIN Tail(s) : x = Outer(Tail(s)[k])) \/ x = Outer(Head(s))
  <2>1. \A k \in DOMAIN s : k = 1 \/ (k - 1 \in DOMAIN Tail(s) /\ Tail(s)[k - 1] = s[k])
    BY <1>2
  <2>2. \A k \in DOMAIN Tail(s) : k + 1 \in DOMAIN s /\ Tail(s)[k] = s[k + 1]
    BY <1>2
  <2>3. 1 \in DOMAIN s /\ Head(s) = s[1]
    BY <1>2
  <2> HIDE <1>2
  <2> QED
    BY <2>1, <2>2, <2>3
<1>6. QueueFrames = QueueFrames' \union {Outer(Head(s))}
  <2>1. ASSUME NEW x
        PROVE  x \in QueueFrames <=> x \in QueueFrames' \/ x = Outer(Head(s))
    <3>1. x \in QueueFrames'
            <=> \E d \in TC : \E k \in DOMAIN queues'[d] : x = Outer(queues'[d][k])
      BY DEF QueueFrames
    <3>2. (\E k \in DOMAIN queues[tc] : x = Outer(queues[tc][k]))
            <=> (\E k \in DOMAIN queues'[tc] : x = Outer(queues'[tc][k])) \/ x = Outer(Head(s))
      BY <1>3, <1>5 DEF s
    <3>3. \A d \in TC : d # tc => queues'[d] = queues[d]
      BY <1>3
    <3> QED
      BY <3>1, <3>2, <3>3, InQueue
  <2> QED
    BY <2>1
<1>7. PortFrames = {} /\ PortFrames' = {Outer(Head(s))}
  BY <1>4 DEF PortFrames
<1> QED
  BY <1>6, <1>7 DEF Inside

\* The frame on the port leaves: nothing of its class that is inside is older.
LEMMA SimulateSend ==
  ASSUME TypeOK, Ordered, DrainSend
  PROVE  LET f == Outer(drain.item)
         IN  f \in Inside /\ Port!Depart(f) /\ Port!Ahead(f) = {}
<1> USE DEF TypeOK
<1> DEFINE f == Outer(drain.item)
           q == drain.item.tc
<1>1. drain.pc = "send" /\ drain'.pc = "busy" /\ UNCHANGED <<queues, arrived, dropped>>
  BY DEF DrainSend, DrainType
<1>2. /\ drain.item \in ItemType /\ q \in TC
      /\ f = [frame |-> drain.item.frame, tc |-> q, held |-> TRUE]
  BY DEF DrainType, ItemType, Outer
<1>3. out' = Append(out, f)
  BY DEF DrainSend, Send, Outer
<1>4. Inside = QueueFrames \union {f} /\ Inside' = QueueFrames
  <2>1. QueueFrames' = QueueFrames /\ PortFrames = {f} /\ PortFrames' = {}
    BY <1>1 DEF QueueFrames, PortFrames
  <2> QED
    BY <2>1 DEF Inside
<1>5. ASSUME NEW g \in QueueFrames, g.tc = q
      PROVE  drain.item.frame < g.frame /\ g.frame \in Nat
  <2>1. PICK tc \in TC : \E k \in DOMAIN queues[tc] : g = Outer(queues[tc][k])
    BY <1>5, InQueue
  <2>2. PICK k \in DOMAIN queues[tc] : g = Outer(queues[tc][k])
    BY <2>1
  <2>3. g.tc = queues[tc][k].tc /\ g.frame = queues[tc][k].frame
    BY <2>2 DEF Outer
  <2>4. tc = q
    BY <1>5, <2>3, QueueItems
  <2> QED
    BY <1>1, <2>3, <2>4, QueueItems DEF Ordered, PortFirst
<1>6. f \notin QueueFrames
  BY <1>2, <1>5 DEF ItemType
<1>7. Port!Ahead(f) = {}
  <2> SUFFICES ASSUME NEW g \in Inside, g.tc = f.tc, g.frame < f.frame
               PROVE  FALSE
    BY DEF Port!Ahead
  <2>1. f.tc = q /\ f.frame = drain.item.frame /\ drain.item.frame \in Nat
    BY <1>2 DEF ItemType
  <2>2. CASE g = f
    BY <2>1, <2>2
  <2>3. CASE g \in QueueFrames
    BY <1>5, <2>1, <2>3
  <2> QED
    BY <1>4, <2>2, <2>3
<1>8. Inside' = Inside \ {f}
  BY <1>4, <1>6
<1>9. Port!Depart(f)
  BY <1>1, <1>3, <1>4, <1>7, <1>8 DEF Port!Depart
<1> QED
  BY <1>4, <1>7, <1>9

\* Every step of the engine is a step of the port, or leaves it unchanged.
LEMMA Simulation ==
  ASSUME TypeOK, Ordered, [Next]_vars
  PROVE  [Port!Next]_(Port!vars)
<1> USE DEF TypeOK
<1>s. ASSUME Inside' = Inside, UNCHANGED <<arrived, out, dropped>>
      PROVE  UNCHANGED Port!vars
  BY <1>s DEF Port!vars
<1>1. ASSUME NEW c \in Callers,
             \/ \E tc \in RawTC, ticks \in Sizes : CallStart(c, tc, ticks)
             \/ CallCheck(c) \/ CallSignal(c)
      PROVE  UNCHANGED Port!vars
  <2>1. UNCHANGED <<queues, drain, arrived, out, dropped>>
    BY <1>1 DEF CallStart, CallCheck, CallSignal, history
  <2>2. Inside' = Inside
    BY <2>1 DEF Inside, QueueFrames, PortFrames
  <2> QED
    BY <2>1, <2>2, <1>s
<1>2. ASSUME NEW c \in Callers, CallBypass(c)
      PROVE  Port!Next
  <2>1. caller[c].tc \in TC
    BY CallerFacts
  <2>2. Inside' = Inside
    BY <1>2 DEF CallBypass, Inside, QueueFrames, PortFrames
  <2>3. Port!Pass(caller[c].tc)
    BY <1>2, <2>2 DEF CallBypass, Send, Port!Pass
  <2> QED
    BY <2>1, <2>3 DEF Port!Next
<1>3. ASSUME NEW c \in Callers, CallRefuse(c)
      PROVE  Port!Next
  <2>1. Inside' = Inside
    BY <1>3 DEF CallRefuse, Inside, QueueFrames, PortFrames
  <2> QED
    BY <1>3, <2>1 DEF CallRefuse, Port!Next, Port!Refuse
<1>4. ASSUME NEW c \in Callers, CallAppend(c)
      PROVE  Port!Next
  BY <1>4, SimulateAppend DEF Port!Next
<1>5. ASSUME NEW tc \in TC, PassSelect(tc)
      PROVE  UNCHANGED Port!vars
  BY <1>5, <1>s, SimulateSelect DEF PassSelect, history
<1>6. CASE DrainSend
  BY <1>6, SimulateSend DEF Port!Next
<1>7. CASE DrainWake \/ DrainClear \/ PassSample \/ PassIdle \/ DrainSent
  <2>1. drain.pc # "send" /\ drain'.pc # "send"
    BY <1>7 DEF DrainWake, DrainClear, PassSample, PassIdle, DrainSent, DrainType
  <2>2. UNCHANGED <<queues, arrived, out, dropped>>
    BY <1>7 DEF DrainWake, DrainClear, PassSample, PassIdle, DrainSent, history
  <2> QED
    BY <2>1, <2>2, <1>s, InsideKept
<1>8. CASE (\E cfg \in Configs : UpdateConfig(cfg)) \/ Stop \/ Tick \/ UNCHANGED vars
  <2>1. drain'.pc = drain.pc /\ drain'.item = drain.item
    BY <1>8 DEF UpdateConfig, Stop, Tick, vars, DrainType
  <2>2. UNCHANGED <<queues, arrived, out, dropped>>
    BY <1>8 DEF UpdateConfig, Stop, Tick, vars, history
  <2>3. Inside' = Inside
    BY <2>1, <2>2 DEF Inside, QueueFrames, PortFrames
  <2> QED
    BY <2>2, <2>3, <1>s
<1> QED
  BY <1>1, <1>2, <1>3, <1>4, <1>5, <1>6, <1>7, <1>8 DEF Next, CallRest, DrainLoop

\* The engine is an egress port: with any number of callers, whatever the config-
\* uration is and becomes, a frame given to check_and_send leaves exactly once or
\* is refused, never both, and the held frames of a class leave in their order.
THEOREM CBSIsPort == Spec => PortSpec
<1>1. Init => Port!Init
  BY DEF Init, Port!Init, Inside, QueueFrames, PortFrames
<1>2. TypeOK /\ Ordered /\ [Next]_vars => [Port!Next]_(Port!vars)
  BY Simulation
<1> QED
  BY <1>1, <1>2, TypeCorrect, OrderKept, PTL DEF Spec, PortSpec, Port!Spec

-----------------------------------------------------------------------------
(***************************************************************************)
(* RateConforms, on a port that keeps the configuration it started with.   *)
(***************************************************************************)
Idle(tc) == config.tc_configs[tc].idle_slope_bps
MaxCredit(tc) == config.tc_configs[tc].max_credit_bytes
Enabled(tc) == config.tc_configs[tc].enabled

\* max_credit_bytes covers the charge of every frame: nothing of a charge is
\* forgotten at the floor.  (That the idle slope is within the port speed is what
\* validate() checks of the sum of all of them.)
Covers ==
  \A tc \in TC : Enabled(tc) =>
    /\ Idle(tc) <= drain.speed
    /\ \A ticks \in Sizes : (drain.speed - Idle(tc)) * ticks <= MaxCredit(tc)

\* Frames have the length they were submitted with.
Sized ==
  /\ \A tc \in TC : \A k \in DOMAIN queues[tc] : queues[tc][k].ticks \in Sizes
  /\ \A c \in Callers : caller[c].pc # "idle" => caller[c].ticks \in Sizes
  /\ drain.pc \in {"send", "busy"} => drain.item.ticks \in Sizes

\* A charge waits for the pass after its transmission, and time measured for the
\* pass under the lock.
Charging ==
  /\ drain.exclude_tc = drain.pending_tc
  /\ drain.pc \notin {"pass", "locked"} => drain.pending_tc = -1
  /\ drain.pc # "locked" => drain.elapsed = 0
  /\ drain.pc \in {"send", "busy"} => Enabled(drain.item.tc)

\* The class has a transmission going on; the class has one to be charged for.
Sending(tc) == drain.pc = "busy" /\ drain.item.tc = tc
Owing(tc) == drain.pending_tc = tc

\* Credits are within the ceiling, and below zero by at most one charge.
CreditBounded(tc) ==
  /\ credits[tc] <= MaxCredit(tc)
  /\ \E ticks \in Sizes : credits[tc] >= -((drain.speed - Idle(tc)) * ticks)

\* What a class may have sent beyond its rate: what its credit is short of the
\* ceiling, less what it gained since, plus what it is not charged for yet.
Conforming(tc) ==
  /\ drain.pc = "send" /\ drain.item.tc = tc => credits[tc] >= 0
  /\ Sending(tc) =>
       /\ credits[tc] >= 0
       /\ drain.left <= drain.item.ticks
       /\ drain.pending_drain = -((drain.speed - Idle(tc)) * drain.item.ticks)
       /\ level[tc] <= MaxCredit(tc) - credits[tc] - drain.pending_drain + Idle(tc) * drain.left
  /\ Owing(tc) =>
       /\ credits[tc] >= 0
       /\ \E ticks \in Sizes : drain.pending_drain = -((drain.speed - Idle(tc)) * ticks)
       /\ drain.pc = "pass" => level[tc] <= MaxCredit(tc) - credits[tc] - drain.pending_drain
       /\ drain.pc = "locked" =>
            level[tc] <= AtLeast(MaxCredit(tc) - credits[tc] - drain.pending_drain
                                   - Idle(tc) * elapsed, 0)
  /\ ~Sending(tc) /\ ~Owing(tc) =>
       level[tc] <= AtLeast(MaxCredit(tc) - credits[tc]
                              - Idle(tc) * (elapsed + drain.elapsed), 0)

Rated ==
  /\ drain.speed = config.port_speed_bps
  /\ Charging
  /\ Covers => \A tc \in TC : Enabled(tc) => CreditBounded(tc) /\ Conforming(tc)

-----------------------------------------------------------------------------
(***************************************************************************)
(* Arithmetic.                                                             *)
(***************************************************************************)
LEMMA Distribute ==
  ASSUME NEW s \in Int, NEW a \in Int, NEW b \in Int
  PROVE  s * (a + b) = s * a + s * b /\ s * a \in Int /\ s * b \in Int
  OBVIOUS

LEMMA MonoTimes ==
  ASSUME NEW s \in Nat, NEW a \in Int, NEW b \in Int, a <= b
  PROVE  s * a <= s * b
<1>1. s * (b - a) >= 0
  OBVIOUS
<1>2. s * (b - a) = s * b - s * a
  OBVIOUS
<1> QED
  BY <1>1, <1>2

\* A tick lowers what was sent in excess by the idle slope, and what is due by no
\* more than that.
LEMMA TickDue ==
  ASSUME NEW l \in Nat, NEW b \in Int, NEW s \in Nat, NEW e \in Nat, NEW f \in Nat,
         l <= AtLeast(b - s * e, 0), f <= e + 1
  PROVE  AtLeast(l - s, 0) <= AtLeast(b - s * f, 0)
<1>1. s * f <= s * (e + 1)
  BY MonoTimes
<1>2. s * (e + 1) = s * e + s /\ s * e \in Int /\ s * f \in Int
  OBVIOUS
<1> DEFINE x == s * e
           y == s * f
<1>3. x \in Int /\ y \in Int /\ y <= x + s /\ l <= AtLeast(b - x, 0)
  BY <1>1, <1>2
<1> HIDE DEF x, y
<1>4. AtLeast(l - s, 0) <= AtLeast(b - y, 0)
  BY <1>3 DEF AtLeast
<1> QED
  BY <1>4 DEF y

\* During a transmission it falls with the time left.
LEMMA TickBusy ==
  ASSUME NEW l \in Nat, NEW b \in Nat, NEW s \in Nat, NEW left \in Nat,
         l <= b + s * left
  PROVE  AtLeast(l - s, 0) <= b + s * AtLeast(left - 1, 0)
<1>1. CASE left = 0
  <2>1. s * left = 0 /\ AtLeast(left - 1, 0) = 0
    BY <1>1 DEF AtLeast
  <2> QED
    BY <2>1 DEF AtLeast
<1>2. CASE left > 0
  <2>1. AtLeast(left - 1, 0) = left - 1 /\ left - 1 \in Nat
    BY <1>2 DEF AtLeast
  <2>2. s * (left - 1) = s * left - s /\ s * (left - 1) >= 0 /\ s * left \in Int
    BY <2>1
  <2> DEFINE x == s * left
             y == s * (left - 1)
  <2>3. x \in Int /\ y \in Int /\ y = x - s /\ y >= 0 /\ l <= b + x
    BY <2>2
  <2> HIDE DEF x, y
  <2>4. AtLeast(l - s, 0) <= b + y
    BY <2>3 DEF AtLeast
  <2> QED
    BY <2>1, <2>4 DEF y
<1> QED
  BY <1>1, <1>2

-----------------------------------------------------------------------------
LEMMA RateFacts ==
  ASSUME TypeOK, NEW tc \in TC
  PROVE  /\ Idle(tc) \in Nat /\ MaxCredit(tc) \in Nat /\ Enabled(tc) \in BOOLEAN
         /\ credits[tc] \in Int /\ level[tc] \in Nat /\ elapsed \in Nat
         /\ drain.speed \in Nat /\ drain.elapsed \in Nat /\ drain.left \in Nat
         /\ drain.pending_drain \in Int
         /\ drain.item.ticks \in Nat /\ drain.item.tc \in TC
<1>1. Idle(tc) \in Nat /\ MaxCredit(tc) \in Nat /\ Enabled(tc) \in BOOLEAN
  BY ConfigFacts DEF TypeOK, PortType, Idle, MaxCredit, Enabled
<1>2. credits[tc] \in Int /\ level[tc] \in Nat /\ elapsed \in Nat
  BY CBSAssumption DEF TypeOK, CreditType
<1> QED
  BY <1>1, <1>2 DEF TypeOK, DrainType, ItemType

\* What the port is configured with, and therefore what the hypothesis says.
LEMMA SameRates ==
  ASSUME UNCHANGED config
  PROVE  \A tc \in TC : /\ Idle(tc)' = Idle(tc) /\ MaxCredit(tc)' = MaxCredit(tc)
                        /\ Enabled(tc)' = Enabled(tc)
  BY DEF Idle, MaxCredit, Enabled

\* The charge of a frame of an enabled class.
LEMMA ChargeFacts ==
  ASSUME TypeOK, Covers, NEW tc \in TC, Enabled(tc), NEW ticks \in Sizes
  PROVE  /\ (drain.speed - Idle(tc)) * ticks \in Nat
         /\ (drain.speed - Idle(tc)) * ticks <= MaxCredit(tc)
         /\ (drain.speed - Idle(tc)) * ticks = drain.speed * ticks - Idle(tc) * ticks
         /\ drain.speed * ticks \in Nat /\ Idle(tc) * ticks \in Nat
<1>1. /\ drain.speed \in Nat /\ Idle(tc) \in Nat /\ MaxCredit(tc) \in Nat /\ ticks \in Nat
      /\ Idle(tc) <= drain.speed /\ (drain.speed - Idle(tc)) * ticks <= MaxCredit(tc)
  BY RateFacts, CBSAssumption DEF Covers
<1> DEFINE s == drain.speed
           i == Idle(tc)
<1>2. s \in Nat /\ i \in Nat /\ i <= s /\ ticks \in Nat
  BY <1>1
<1> HIDE DEF s, i
<1>3. /\ (s - i) * ticks \in Nat /\ (s - i) * ticks = s * ticks - i * ticks
      /\ s * ticks \in Nat /\ i * ticks \in Nat
  BY <1>2
<1> QED
  BY <1>1, <1>3 DEF s, i

\* A step that leaves the credits, the levels, the drain loop and the clock alone.
LEMMA RatedKept ==
  ASSUME Rated, UNCHANGED <<config, credits, level, drain, elapsed>>
  PROVE  Rated'
  BY DEF Rated, Charging, Covers, CreditBounded, Conforming, Sending, Owing, Idle, MaxCredit,
         Enabled

-----------------------------------------------------------------------------
(***************************************************************************)
(* A pass charges the class that sent and credits the others, and keeps    *)
(* what the class may have sent in excess within what its credit is short  *)
(* of the ceiling.                                                         *)
(***************************************************************************)
LEMMA ChargedOwing ==
  ASSUME TypeOK, Rated, Covers, NEW tc \in TC, Enabled(tc), Owing(tc)
  PROVE  /\ Replenished[tc] = credits[tc] + drain.pending_drain
         /\ drain.pending_drain <= 0
         /\ \E ticks \in Sizes : Replenished[tc] >= -((drain.speed - Idle(tc)) * ticks)
<1>1. drain.pending_tc = tc /\ ~(drain.pending_tc < 0) /\ drain.exclude_tc = tc
  BY ClassFacts DEF Owing, Rated, Charging, TC
<1>2. credits[tc] >= 0
  BY DEF Rated, Conforming
<1>3. PICK ticks \in Sizes : drain.pending_drain = -((drain.speed - Idle(tc)) * ticks)
  BY DEF Rated, Conforming
<1> DEFINE charge == (drain.speed - Idle(tc)) * ticks
<1>4. charge \in Nat /\ charge <= MaxCredit(tc)
  BY ChargeFacts
<1>5. drain.pending_drain = -charge
  BY <1>3
<1> HIDE DEF charge
<1>6. Charged[tc] = AtLeast(credits[tc] + drain.pending_drain, -MaxCredit(tc))
  BY <1>1 DEF Charged, MaxCredit, TypeOK, CreditType
<1>7. Replenished[tc] = Charged[tc]
  BY <1>1 DEF Replenished
<1>8. credits[tc] + drain.pending_drain >= -MaxCredit(tc) /\ credits[tc] + drain.pending_drain \in Int
  BY <1>2, <1>4, <1>5, RateFacts
<1>9. Replenished[tc] = credits[tc] + drain.pending_drain
  BY <1>6, <1>7, <1>8 DEF AtLeast
<1>10. Replenished[tc] >= -charge
  BY <1>2, <1>4, <1>5, <1>9, RateFacts
<1> QED
  BY <1>4, <1>5, <1>9, <1>10 DEF charge

LEMMA Gained ==
  ASSUME TypeOK, Rated, NEW tc \in TC, Enabled(tc), ~Owing(tc)
  PROVE  /\ Replenished[tc] <= AtLeast(credits[tc], MaxCredit(tc))
         /\ Replenished[tc] >= AtMost(credits[tc], 0)
         /\ Replenished[tc] <= credits[tc] + Idle(tc) * drain.elapsed
<1>1. drain.exclude_tc # tc /\ drain.pending_tc # tc
  BY DEF Owing, Rated, Charging
<1>2. Charged[tc] = credits[tc]
  BY <1>1 DEF Charged, TypeOK, CreditType
<1> DEFINE gain == Idle(tc) * drain.elapsed
           cap == IF queues[tc] = << >> THEN 0 ELSE MaxCredit(tc)
           credit == credits[tc]
<1>3. gain \in Nat /\ cap \in Nat /\ cap <= MaxCredit(tc) /\ credit \in Int /\ MaxCredit(tc) \in Nat
  <2>1. Idle(tc) \in Nat /\ drain.elapsed \in Nat
    BY RateFacts
  <2>2. gain \in Nat
    BY <2>1
  <2> QED
    BY <2>2, RateFacts
<1>4. Replenished[tc] = IF credit < 0 THEN AtMost(credit + gain, cap)
                        ELSE IF queues[tc] = << >> THEN 0 ELSE credit
  BY <1>1, <1>2 DEF Replenished, Enabled, Idle, MaxCredit
<1> HIDE DEF gain, cap, credit
<1>5. /\ Replenished[tc] <= AtLeast(credit, MaxCredit(tc))
      /\ Replenished[tc] >= AtMost(credit, 0)
      /\ Replenished[tc] <= credit + gain
  BY <1>3, <1>4 DEF AtMost, AtLeast
<1> QED
  BY <1>5 DEF gain, credit

LEMMA PassRated ==
  ASSUME TypeOK, Rated, Covers, drain.pc = "locked", NEW tc \in TC, Enabled(tc)
  PROVE  /\ Replenished[tc] <= MaxCredit(tc)
         /\ \E ticks \in Sizes : Replenished[tc] >= -((drain.speed - Idle(tc)) * ticks)
         /\ level[tc] <= AtLeast(MaxCredit(tc) - Replenished[tc] - Idle(tc) * elapsed, 0)
<1>f. /\ Idle(tc) \in Nat /\ MaxCredit(tc) \in Nat /\ credits[tc] \in Int /\ level[tc] \in Nat
      /\ elapsed \in Nat /\ drain.elapsed \in Nat /\ drain.pending_drain \in Int
      /\ Replenished[tc] \in Int
      /\ credits[tc] <= MaxCredit(tc)
  BY RateFacts, ChargedType DEF Rated, CreditBounded
<1> DEFINE due == Idle(tc) * elapsed
           gain == Idle(tc) * drain.elapsed
<1>g. /\ due \in Nat /\ gain \in Nat
      /\ Idle(tc) * (elapsed + drain.elapsed) = due + gain
  BY <1>f
<1>1. CASE Owing(tc)
  <2>1. level[tc] <= AtLeast(MaxCredit(tc) - credits[tc] - drain.pending_drain - due, 0)
    BY <1>1 DEF Rated, Conforming
  <2>2. /\ Replenished[tc] = credits[tc] + drain.pending_drain
        /\ drain.pending_drain <= 0
        /\ \E ticks \in Sizes : Replenished[tc] >= -((drain.speed - Idle(tc)) * ticks)
    BY <1>1, ChargedOwing
  <2> HIDE DEF due, gain
  <2>3. /\ Replenished[tc] <= MaxCredit(tc)
        /\ level[tc] <= AtLeast(MaxCredit(tc) - Replenished[tc] - due, 0)
    BY <1>f, <1>g, <2>1, <2>2
  <2> QED
    BY <2>2, <2>3 DEF due
<1>2. CASE ~Owing(tc)
  <2>1. level[tc] <= AtLeast(MaxCredit(tc) - credits[tc] - (due + gain), 0)
    <3>1. ~Sending(tc)
      BY DEF Sending
    <3> QED
      BY <1>2, <1>g, <3>1 DEF Rated, Conforming
  <2>2. /\ Replenished[tc] <= AtLeast(credits[tc], MaxCredit(tc))
        /\ Replenished[tc] >= AtMost(credits[tc], 0)
        /\ Replenished[tc] <= credits[tc] + gain
    BY <1>2, Gained
  <2>3. PICK ticks \in Sizes : credits[tc] >= -((drain.speed - Idle(tc)) * ticks)
    BY DEF Rated, CreditBounded
  <2> DEFINE charge == (drain.speed - Idle(tc)) * ticks
  <2>4. charge \in Nat
    BY ChargeFacts
  <2> HIDE DEF due, gain, charge
  <2>5. Replenished[tc] >= -charge
    BY <1>f, <2>2, <2>3, <2>4 DEF AtMost, charge
  <2>6. /\ Replenished[tc] <= MaxCredit(tc)
        /\ level[tc] <= AtLeast(MaxCredit(tc) - Replenished[tc] - due, 0)
    BY <1>f, <1>g, <2>1, <2>2 DEF AtLeast
  <2> QED
    BY <2>5, <2>6 DEF due, charge
<1> QED
  BY <1>1, <1>2

\* After a pass no charge is pending and all time measured is credited.
LEMMA RatedPass ==
  ASSUME TypeOK, Rated, drain.pc = "locked", UNCHANGED <<config, level, elapsed>>,
         credits' = Replenished,
         drain'.speed = drain.speed, drain'.elapsed = 0,
         drain'.pending_tc = -1, drain'.exclude_tc = -1,
         drain'.pc \in {"send", "pass", "wait"},
         drain'.pc = "send" => /\ drain'.item.tc \in TC /\ Enabled(drain'.item.tc)
                               /\ Replenished[drain'.item.tc] >= 0
  PROVE  Rated'
<1>1. drain'.speed = config'.port_speed_bps
  BY DEF Rated
<1>2. Charging'
  BY DEF Charging, Enabled
<1>3. ASSUME Covers', NEW tc \in TC, Enabled(tc)'
      PROVE  CreditBounded(tc)' /\ Conforming(tc)'
  <2>1. Covers /\ Enabled(tc)
    BY <1>3 DEF Covers, Enabled, Idle, MaxCredit
  <2>2. /\ Idle(tc)' = Idle(tc) /\ MaxCredit(tc)' = MaxCredit(tc)
        /\ credits'[tc] = Replenished[tc]
    BY SameRates
  <2>3. CreditBounded(tc)'
    BY <2>1, <2>2, PassRated DEF CreditBounded
  <2>4. ~Sending(tc)' /\ ~Owing(tc)'
    BY ClassFacts DEF Sending, Owing
  <2>5. level'[tc] <= AtLeast(MaxCredit(tc)' - credits'[tc]
                                - Idle(tc)' * (elapsed' + drain'.elapsed), 0)
    <3>1. elapsed' + drain'.elapsed = elapsed
      BY RateFacts
    <3> QED
      BY <2>1, <2>2, <3>1, PassRated
  <2>6. drain'.pc = "send" /\ drain'.item.tc = tc => credits'[tc] >= 0
    BY <2>2
  <2> QED
    BY <2>3, <2>4, <2>5, <2>6 DEF Conforming
<1> QED
  BY <1>1, <1>2, <1>3 DEF Rated

LEMMA RatedSample ==
  ASSUME TypeOK, Rated, PassSample
  PROVE  Rated'
<1>1. /\ drain.pc = "pass" /\ drain'.pc = "locked" /\ elapsed' = 0 /\ drain'.elapsed = elapsed
      /\ drain'.speed = drain.speed /\ drain'.pending_tc = drain.pending_tc
      /\ drain'.exclude_tc = drain.exclude_tc /\ drain'.pending_drain = drain.pending_drain
      /\ UNCHANGED <<config, credits, level>> /\ drain.elapsed = 0
  BY DEF PassSample, TypeOK, DrainType, port, Rated, Charging
<1>2. drain'.speed = config'.port_speed_bps /\ Charging'
  BY <1>1 DEF Rated, Charging
<1>3. ASSUME Covers', NEW tc \in TC, Enabled(tc)'
      PROVE  CreditBounded(tc)' /\ Conforming(tc)'
  <2>1. Covers /\ Enabled(tc)
    BY <1>1, <1>3 DEF Covers, Enabled, Idle, MaxCredit
  <2>2. Idle(tc)' = Idle(tc) /\ MaxCredit(tc)' = MaxCredit(tc)
    BY <1>1, SameRates
  <2>3. CreditBounded(tc) /\ Conforming(tc)
    BY <2>1 DEF Rated
  <2>4. CreditBounded(tc)'
    BY <1>1, <2>2, <2>3 DEF CreditBounded
  <2>5. Owing(tc)' = Owing(tc) /\ ~Sending(tc)' /\ ~Sending(tc)
    BY <1>1 DEF Owing, Sending
  <2>6. Idle(tc) * elapsed' = 0 /\ elapsed' + drain'.elapsed = elapsed + drain.elapsed
    BY <1>1, RateFacts
  <2>7. CASE Owing(tc)
    <3>1. level[tc] <= MaxCredit(tc) - credits[tc] - drain.pending_drain
      BY <1>1, <2>3, <2>7 DEF Conforming
    <3>2. level[tc] <= AtLeast(MaxCredit(tc) - credits[tc] - drain.pending_drain - 0, 0)
      BY <3>1, RateFacts DEF AtLeast
    <3>3. /\ credits[tc] >= 0
          /\ \E ticks \in Sizes : drain.pending_drain = -((drain.speed - Idle(tc)) * ticks)
      BY <2>3, <2>7 DEF Conforming
    <3>4. level'[tc] <= AtLeast(MaxCredit(tc)' - credits'[tc] - drain'.pending_drain
                                  - Idle(tc)' * elapsed', 0)
      BY <1>1, <2>2, <2>6, <3>2
    <3>5. /\ credits'[tc] >= 0
          /\ \E ticks \in Sizes : drain'.pending_drain = -((drain'.speed - Idle(tc)') * ticks)
      BY <1>1, <2>2, <3>3
    <3> QED
      BY <1>1, <2>4, <2>7, <3>4, <3>5 DEF Conforming, Owing, Sending
  <2>8. CASE ~Owing(tc)
    <3>1. level[tc] <= AtLeast(MaxCredit(tc) - credits[tc]
                                 - Idle(tc) * (elapsed + drain.elapsed), 0)
      BY <2>3, <2>5, <2>8 DEF Conforming
    <3>2. level'[tc] <= AtLeast(MaxCredit(tc)' - credits'[tc]
                                  - Idle(tc)' * (elapsed' + drain'.elapsed), 0)
      BY <1>1, <2>2, <2>6, <3>1
    <3> QED
      BY <1>1, <2>4, <2>8, <3>2 DEF Conforming, Owing, Sending
  <2> QED
    BY <2>4, <2>7, <2>8
<1> QED
  BY <1>2, <1>3 DEF Rated

\* _event.wait() and clear() move only the program counter, with no charge pending.
LEMMA RatedWait ==
  ASSUME TypeOK, Rated, DrainWake \/ DrainClear
  PROVE  Rated'
<1>1. /\ drain.pc \in {"wait", "clear"} /\ drain'.pc \in {"clear", "pass"}
      /\ drain'.speed = drain.speed /\ drain'.pending_tc = drain.pending_tc
      /\ drain'.exclude_tc = drain.exclude_tc /\ drain'.elapsed = drain.elapsed
      /\ UNCHANGED <<config, credits, level, elapsed>>
      /\ drain.elapsed = 0 /\ drain.pending_tc = -1
  BY DEF DrainWake, DrainClear, TypeOK, DrainType, port, Rated, Charging
<1>2. drain'.speed = config'.port_speed_bps /\ Charging'
  BY <1>1 DEF Rated, Charging
<1>3. ASSUME Covers', NEW tc \in TC, Enabled(tc)'
      PROVE  CreditBounded(tc)' /\ Conforming(tc)'
  <2>1. Covers /\ Enabled(tc)
    BY <1>1, <1>3 DEF Covers, Enabled, Idle, MaxCredit
  <2>2. Idle(tc)' = Idle(tc) /\ MaxCredit(tc)' = MaxCredit(tc)
    BY <1>1, SameRates
  <2>3. CreditBounded(tc) /\ Conforming(tc)
    BY <2>1 DEF Rated
  <2>4. ~Owing(tc)' /\ ~Owing(tc) /\ ~Sending(tc)' /\ ~Sending(tc)
    BY <1>1, ClassFacts DEF Owing, Sending
  <2> QED
    BY <1>1, <2>2, <2>3, <2>4 DEF Conforming, CreditBounded
<1> QED
  BY <1>2, <1>3 DEF Rated

\* send_fn: the class, with a credit of at least zero, goes over its rate by the
\* frame; what it will be charged and the idle slope it gains meanwhile cover that.
LEMMA RatedSend ==
  ASSUME TypeOK, Sized, Rated, DrainSend
  PROVE  Rated'
<1>1. /\ drain.pc = "send" /\ drain'.pc = "busy"
      /\ drain'.speed = drain.speed /\ drain'.pending_tc = drain.pending_tc
      /\ drain'.exclude_tc = drain.exclude_tc /\ drain'.elapsed = drain.elapsed
      /\ drain'.item = drain.item /\ drain'.left = drain.item.ticks
      /\ drain'.pending_drain
           = SendSlope(config.tc_configs[drain.item.tc], drain.speed) * drain.item.ticks
      /\ UNCHANGED <<config, credits, elapsed>>
      /\ drain.elapsed = 0 /\ drain.pending_tc = -1 /\ drain.item.ticks \in Sizes
  BY DEF DrainSend, TypeOK, DrainType, port, Rated, Charging, Sized
<1>2. \A tc \in TC : level'[tc] = IF tc = drain.item.tc
                                  THEN level[tc] + drain.speed * drain.item.ticks ELSE level[tc]
  BY DEF DrainSend, Send, TypeOK, CreditType
<1>3. drain'.speed = config'.port_speed_bps /\ Charging'
  BY <1>1 DEF Rated, Charging, Enabled
<1>4. ASSUME Covers', NEW tc \in TC, Enabled(tc)'
      PROVE  CreditBounded(tc)' /\ Conforming(tc)'
  <2>1. Covers /\ Enabled(tc)
    BY <1>1, <1>4 DEF Covers, Enabled, Idle, MaxCredit
  <2>2. Idle(tc)' = Idle(tc) /\ MaxCredit(tc)' = MaxCredit(tc)
    BY <1>1, SameRates
  <2>3. CreditBounded(tc) /\ Conforming(tc)
    BY <2>1 DEF Rated
  <2>4. CreditBounded(tc)'
    BY <1>1, <2>2, <2>3 DEF CreditBounded
  <2>5. ~Owing(tc)' /\ ~Owing(tc) /\ ~Sending(tc)
    BY <1>1, ClassFacts DEF Owing, Sending
  <2>6. level[tc] <= AtLeast(MaxCredit(tc) - credits[tc]
                               - Idle(tc) * (elapsed + drain.elapsed), 0)
    BY <2>3, <2>5 DEF Conforming
  <2>7. CASE tc = drain.item.tc
    <3> DEFINE ticks == drain.item.ticks
               charge == (drain.speed - Idle(tc)) * ticks
               gain == Idle(tc) * ticks
               whole == drain.speed * ticks
               due == Idle(tc) * (elapsed + drain.elapsed)
    <3>1. charge \in Nat /\ gain \in Nat /\ whole \in Nat /\ charge = whole - gain
      BY <1>1, <2>1, ChargeFacts
    <3>2. due \in Nat
      <4>1. Idle(tc) \in Nat /\ elapsed + drain.elapsed \in Nat
        BY RateFacts
      <4> QED
        BY <4>1
    <3>3. drain'.pending_drain = -charge
      <4>1. drain'.pending_drain = (Idle(tc) - drain.speed) * ticks
        BY <1>1, <2>7 DEF SendSlope, Idle
      <4> QED
        BY <4>1, RateFacts
    <3>4. /\ credits[tc] >= 0 /\ credits[tc] <= MaxCredit(tc)
          /\ credits[tc] \in Int /\ MaxCredit(tc) \in Nat /\ level[tc] \in Nat
      BY <1>1, <2>3, <2>7, RateFacts DEF Conforming, CreditBounded
    <3>5. level'[tc] = level[tc] + whole /\ level[tc] <= AtLeast(MaxCredit(tc) - credits[tc] - due, 0)
      BY <1>2, <2>6, <2>7
    <3>6. drain'.left = ticks /\ drain'.item.ticks = ticks /\ ticks \in Nat
      BY <1>1, RateFacts
    <3>7. drain'.pending_drain = -((drain'.speed - Idle(tc)') * drain'.item.ticks)
      BY <1>1, <2>2, <3>3
    <3>8. Idle(tc)' * drain'.left = gain
      BY <2>2, <3>6
    <3> HIDE DEF charge, gain, whole, due, ticks
    <3>9. level'[tc] <= MaxCredit(tc) - credits[tc] - drain'.pending_drain + gain
      BY <3>1, <3>2, <3>3, <3>4, <3>5 DEF AtLeast
    <3>10. level'[tc] <= MaxCredit(tc)' - credits'[tc] - drain'.pending_drain
                           + Idle(tc)' * drain'.left
      BY <1>1, <2>2, <3>8, <3>9
    <3>11. drain'.left <= drain'.item.ticks /\ credits'[tc] >= 0 /\ Sending(tc)'
      BY <1>1, <2>7, <3>4, <3>6 DEF Sending
    <3> QED
      BY <1>1, <2>4, <2>5, <3>7, <3>10, <3>11 DEF Conforming
  <2>8. CASE tc # drain.item.tc
    <3>1. ~Sending(tc)'
      BY <1>1, <2>8 DEF Sending
    <3>2. level'[tc] <= AtLeast(MaxCredit(tc)' - credits'[tc]
                                  - Idle(tc)' * (elapsed' + drain'.elapsed), 0)
      BY <1>1, <1>2, <2>2, <2>6, <2>8
    <3> QED
      BY <1>1, <2>4, <2>5, <3>1, <3>2 DEF Conforming
  <2> QED
    BY <2>7, <2>8
<1> QED
  BY <1>3, <1>4 DEF Rated

\* The transmission time is over: the charge is due in the next pass.
LEMMA RatedSent ==
  ASSUME TypeOK, Sized, Rated, DrainSent
  PROVE  Rated'
<1>1. /\ drain.pc = "busy" /\ drain'.pc = "pass" /\ drain.left = 0
      /\ drain'.speed = drain.speed /\ drain'.pending_tc = drain.item.tc
      /\ drain'.exclude_tc = drain.item.tc /\ drain'.elapsed = drain.elapsed
      /\ drain'.pending_drain = drain.pending_drain
      /\ UNCHANGED <<config, credits, level, elapsed>>
      /\ drain.elapsed = 0 /\ drain.pending_tc = -1 /\ drain.item.ticks \in Sizes
  BY DEF DrainSent, TypeOK, DrainType, port, Rated, Charging, Sized
<1>2. drain'.speed = config'.port_speed_bps /\ Charging'
  BY <1>1 DEF Rated, Charging
<1>3. ASSUME Covers', NEW tc \in TC, Enabled(tc)'
      PROVE  CreditBounded(tc)' /\ Conforming(tc)'
  <2>1. Covers /\ Enabled(tc)
    BY <1>1, <1>3 DEF Covers, Enabled, Idle, MaxCredit
  <2>2. Idle(tc)' = Idle(tc) /\ MaxCredit(tc)' = MaxCredit(tc)
    BY <1>1, SameRates
  <2>3. CreditBounded(tc) /\ Conforming(tc)
    BY <2>1 DEF Rated
  <2>4. CreditBounded(tc)'
    BY <1>1, <2>2, <2>3 DEF CreditBounded
  <2>5. ~Sending(tc)' /\ ~Owing(tc)
    BY <1>1, ClassFacts DEF Owing, Sending
  <2>6. CASE tc = drain.item.tc
    <3>1. Sending(tc) /\ Owing(tc)'
      BY <1>1, <2>6 DEF Sending, Owing
    <3>2. /\ credits[tc] >= 0
          /\ drain.pending_drain = -((drain.speed - Idle(tc)) * drain.item.ticks)
          /\ level[tc] <= MaxCredit(tc) - credits[tc] - drain.pending_drain + Idle(tc) * drain.left
      BY <2>3, <3>1 DEF Conforming
    <3>3. Idle(tc) * drain.left = 0
      BY <1>1, RateFacts
    <3>4. level[tc] <= MaxCredit(tc) - credits[tc] - drain.pending_drain
      BY <3>2, <3>3, RateFacts
    <3>5. \E ticks \in Sizes : drain'.pending_drain = -((drain'.speed - Idle(tc)') * ticks)
      BY <1>1, <2>2, <3>2
    <3>6. credits'[tc] >= 0 /\ level'[tc] <= MaxCredit(tc)' - credits'[tc] - drain'.pending_drain
      BY <1>1, <2>2, <3>2, <3>4
    <3> QED
      BY <1>1, <2>4, <2>5, <3>1, <3>5, <3>6 DEF Conforming
  <2>7. CASE tc # drain.item.tc
    <3>1. ~Sending(tc) /\ ~Owing(tc)'
      BY <1>1, <2>7 DEF Sending, Owing
    <3>2. level'[tc] <= AtLeast(MaxCredit(tc)' - credits'[tc]
                                  - Idle(tc)' * (elapsed' + drain'.elapsed), 0)
      BY <1>1, <2>2, <2>3, <2>5, <3>1 DEF Conforming
    <3> QED
      BY <1>1, <2>4, <2>5, <3>1, <3>2 DEF Conforming
  <2> QED
    BY <2>6, <2>7
<1> QED
  BY <1>2, <1>3 DEF Rated

LEMMA RatedTick ==
  ASSUME TypeOK, Sized, Rated, Tick
  PROVE  Rated'
<1>1. /\ drain' = [drain EXCEPT !.left = AtLeast(drain.left - 1, 0)]
      /\ drain'.pc = drain.pc /\ drain'.item = drain.item
      /\ drain'.speed = drain.speed /\ drain'.pending_tc = drain.pending_tc
      /\ drain'.exclude_tc = drain.exclude_tc /\ drain'.elapsed = drain.elapsed
      /\ drain'.pending_drain = drain.pending_drain /\ drain'.left = AtLeast(drain.left - 1, 0)
      /\ UNCHANGED <<config, credits>>
  BY DEF Tick, TypeOK, DrainType, port
<1>2. elapsed' \in Nat /\ elapsed' <= elapsed + 1
  BY CBSAssumption DEF Tick, TypeOK, CreditType, AtMost
<1>3. \A tc \in TC : level'[tc] = AtLeast(level[tc] - Idle(tc), 0)
  BY DEF Tick, Idle
<1>4. drain'.speed = config'.port_speed_bps /\ Charging'
  BY <1>1 DEF Rated, Charging, Enabled
<1>5. ASSUME Covers', NEW tc \in TC, Enabled(tc)'
      PROVE  CreditBounded(tc)' /\ Conforming(tc)'
  <2>1. Covers /\ Enabled(tc)
    BY <1>1, <1>5 DEF Covers, Enabled, Idle, MaxCredit
  <2>2. Idle(tc)' = Idle(tc) /\ MaxCredit(tc)' = MaxCredit(tc)
    BY <1>1, SameRates
  <2>3. CreditBounded(tc) /\ Conforming(tc)
    BY <2>1 DEF Rated
  <2>4. CreditBounded(tc)'
    BY <1>1, <2>2, <2>3 DEF CreditBounded
  <2>f. /\ Idle(tc) \in Nat /\ MaxCredit(tc) \in Nat /\ credits[tc] \in Int /\ level[tc] \in Nat
        /\ elapsed \in Nat /\ drain.elapsed \in Nat /\ drain.left \in Nat
        /\ drain.pending_drain \in Int /\ credits[tc] <= MaxCredit(tc)
        /\ drain.item.ticks \in Nat
    BY <2>3, RateFacts DEF CreditBounded
  <2>5. drain'.pc = "send" /\ drain'.item.tc = tc => credits'[tc] >= 0
    BY <1>1, <2>3 DEF Conforming
  <2>6. (Sending(tc)' <=> Sending(tc)) /\ (Owing(tc)' <=> Owing(tc)) /\ ~(Sending(tc) /\ Owing(tc))
    BY <1>1, ClassFacts DEF Sending, Owing, Rated, Charging
  <2>7. CASE Sending(tc)
    <3> DEFINE b == MaxCredit(tc) - credits[tc] - drain.pending_drain
    <3>1. /\ credits[tc] >= 0 /\ drain.left <= drain.item.ticks
          /\ drain.pending_drain = -((drain.speed - Idle(tc)) * drain.item.ticks)
          /\ level[tc] <= b + Idle(tc) * drain.left
      BY <2>3, <2>7 DEF Conforming
    <3>2. (drain.speed - Idle(tc)) * drain.item.ticks \in Nat
      BY <2>1, <2>7, ChargeFacts DEF Sized, Sending
    <3>3. b \in Nat
      BY <2>f, <3>1, <3>2
    <3>4. AtLeast(level[tc] - Idle(tc), 0) <= b + Idle(tc) * AtLeast(drain.left - 1, 0)
      <4> HIDE DEF b
      <4> QED
        BY <2>f, <3>1, <3>3, TickBusy
    <3>5. level'[tc] <= MaxCredit(tc)' - credits'[tc] - drain'.pending_drain
                          + Idle(tc)' * drain'.left
      BY <1>1, <1>3, <2>2, <3>4
    <3>6. drain'.left <= drain'.item.ticks
      BY <1>1, <2>f, <3>1 DEF AtLeast
    <3>7. /\ credits'[tc] >= 0
          /\ drain'.pending_drain = -((drain'.speed - Idle(tc)') * drain'.item.ticks)
      BY <1>1, <2>2, <3>1
    <3> QED
      BY <2>4, <2>5, <2>6, <2>7, <3>5, <3>6, <3>7 DEF Conforming
  <2>8. CASE Owing(tc)
    <3> DEFINE b == MaxCredit(tc) - credits[tc] - drain.pending_drain
    <3>1. /\ credits[tc] >= 0
          /\ \E ticks \in Sizes : drain.pending_drain = -((drain.speed - Idle(tc)) * ticks)
      BY <2>3, <2>8 DEF Conforming
    <3>2. /\ credits'[tc] >= 0
          /\ \E ticks \in Sizes : drain'.pending_drain = -((drain'.speed - Idle(tc)') * ticks)
      BY <1>1, <2>2, <3>1
    <3>3. drain.pc = "pass" => level'[tc] <= b
      <4>1. drain.pc = "pass" => level[tc] <= b
        BY <2>3, <2>8 DEF Conforming
      <4>2. b \in Nat
        <5>1. PICK ticks \in Sizes : drain.pending_drain = -((drain.speed - Idle(tc)) * ticks)
          BY <3>1
        <5>2. (drain.speed - Idle(tc)) * ticks \in Nat
          BY <2>1, ChargeFacts
        <5> QED
          BY <2>f, <3>1, <5>1, <5>2
      <4> HIDE DEF b
      <4> QED
        BY <1>3, <2>f, <4>1, <4>2 DEF AtLeast
    <3>4. drain.pc = "locked" => level'[tc] <= AtLeast(b - Idle(tc) * elapsed', 0)
      <4>1. drain.pc = "locked" => level[tc] <= AtLeast(b - Idle(tc) * elapsed, 0)
        BY <2>3, <2>8 DEF Conforming
      <4>2. b \in Int
        BY <2>f
      <4> HIDE DEF b
      <4> QED
        BY <1>2, <1>3, <2>f, <4>1, <4>2, TickDue
    <3>5. drain'.pc = "pass" => level'[tc] <= MaxCredit(tc)' - credits'[tc] - drain'.pending_drain
      BY <1>1, <2>2, <3>3
    <3>6. drain'.pc = "locked" =>
            level'[tc] <= AtLeast(MaxCredit(tc)' - credits'[tc] - drain'.pending_drain
                                    - Idle(tc)' * elapsed', 0)
      BY <1>1, <2>2, <3>4
    <3> QED
      BY <2>4, <2>5, <2>6, <2>8, <3>2, <3>5, <3>6 DEF Conforming
  <2>9. CASE ~Sending(tc) /\ ~Owing(tc)
    <3> DEFINE b == MaxCredit(tc) - credits[tc]
               e == elapsed + drain.elapsed
               f == elapsed' + drain.elapsed
    <3>1. level[tc] <= AtLeast(b - Idle(tc) * e, 0)
      BY <2>3, <2>9 DEF Conforming
    <3>2. b \in Int /\ e \in Nat /\ f \in Nat /\ f <= e + 1
      BY <1>2, <2>f
    <3>3. level'[tc] <= AtLeast(b - Idle(tc) * f, 0)
      <4> HIDE DEF b, e, f
      <4> QED
        BY <1>3, <2>f, <3>1, <3>2, TickDue
    <3>4. level'[tc] <= AtLeast(MaxCredit(tc)' - credits'[tc]
                                  - Idle(tc)' * (elapsed' + drain'.elapsed), 0)
      BY <1>1, <2>2, <3>3
    <3> QED
      BY <2>4, <2>5, <2>6, <2>9, <3>4 DEF Conforming
  <2> QED
    BY <2>7, <2>8, <2>9
<1> QED
  BY <1>4, <1>5 DEF Rated

-----------------------------------------------------------------------------
LEMMA SizedCall ==
  ASSUME TypeOK, Sized, NEW c \in Callers,
         \/ \E tc \in RawTC, ticks \in Sizes : CallStart(c, tc, ticks)
         \/ CallRest(c)
  PROVE  Sized'
<1>u. drain' = drain
  BY DEF CallStart, CallRest, CallCheck, CallBypass, CallRefuse, CallAppend, CallSignal
<1>1. \A d \in Callers : caller'[d].pc # "idle" => caller'[d].ticks \in Sizes
  <2>1. \A d \in Callers : d # c => caller'[d] = caller[d]
    BY DEF CallStart, CallRest, CallCheck, CallBypass, CallRefuse, CallAppend, CallSignal,
           TypeOK, CallerType
  <2>2. caller'[c].pc # "idle" => caller'[c].ticks \in Sizes
    <3>1. ASSUME NEW tc \in RawTC, NEW ticks \in Sizes, CallStart(c, tc, ticks)
          PROVE  caller'[c].ticks \in Sizes
      BY <3>1 DEF CallStart, TypeOK, CallerType
    <3>2. CASE CallCheck(c) \/ CallAppend(c)
      <4>1. caller[c] \in [pc : CallStates, tc : TC, ticks : Nat]
        BY CallerFacts DEF TypeOK
      <4>2. caller[c].ticks \in Sizes
        BY <3>2 DEF CallCheck, CallAppend, Sized
      <4>3. caller'[c].ticks = caller[c].ticks
        BY <3>2, <4>1 DEF CallCheck, CallAppend, TypeOK, CallerType
      <4> QED
        BY <4>2, <4>3
    <3>3. CASE CallBypass(c) \/ CallRefuse(c) \/ CallSignal(c)
      <4>1. caller' = [caller EXCEPT ![c] = NoCall]
        BY <3>3 DEF CallBypass, CallRefuse, CallSignal
      <4> QED
        BY <4>1 DEF NoCall, TypeOK, CallerType
    <3> QED
      BY <3>1, <3>2, <3>3 DEF CallRest
  <2> QED
    BY <2>1, <2>2 DEF Sized
<1>2. \A tc \in TC : \A k \in DOMAIN queues'[tc] : queues'[tc][k].ticks \in Sizes
  <2>1. CASE UNCHANGED queues
    BY <2>1 DEF Sized
  <2>2. CASE CallAppend(c)
    <3>q. PICK q \in TC : q = caller[c].tc
      BY CallerFacts DEF TypeOK
    <3> DEFINE i == [frame |-> arrived + 1, tc |-> caller[c].tc, ticks |-> caller[c].ticks]
    <3>0. caller[c].ticks \in Sizes /\ arrived \in Nat
      BY <2>2 DEF TypeOK, HistoryType, CallAppend, Sized
    <3>1. i \in ItemType /\ i.ticks \in Sizes
      BY <3>0, CallerFacts DEF ItemType, TypeOK
    <3>2. queues' = [queues EXCEPT ![q] = Append(@, i)]
      BY <2>2, <3>q DEF CallAppend
    <3> HIDE DEF i
    <3>3. queues[q] \in Seq(ItemType)
      BY QueueItems
    <3>4. /\ DOMAIN queues[q] = 1 .. Len(queues[q]) /\ Len(queues[q]) \in Nat
          /\ DOMAIN Append(queues[q], i) = 1 .. Len(queues[q]) + 1
          /\ \A k \in 1 .. Len(queues[q]) : Append(queues[q], i)[k] = queues[q][k]
          /\ Append(queues[q], i)[Len(queues[q]) + 1] = i
      BY <3>1, <3>3, AppendProperties
    <3>5. \A k \in DOMAIN queues[q] : queues[q][k].ticks \in Sizes
      BY DEF Sized
    <3>6. \A k \in DOMAIN Append(queues[q], i) : Append(queues[q], i)[k].ticks \in Sizes
      BY <3>1, <3>4, <3>5
    <3>7. \A tc \in TC : queues'[tc] = IF tc = q THEN Append(queues[q], i) ELSE queues[tc]
      BY <3>2 DEF TypeOK, QueueType
    <3> QED
      BY <3>6, <3>7 DEF Sized
  <2> QED
    BY <2>1, <2>2 DEF CallStart, CallRest, CallCheck, CallBypass, CallRefuse, CallSignal
<1> QED
  BY <1>u, <1>1, <1>2 DEF Sized

LEMMA SizedSelect ==
  ASSUME TypeOK, Sized, NEW tc \in TC, PassSelect(tc)
  PROVE  Sized'
<1>1. queues[tc] \in Seq(ItemType) /\ queues[tc] # << >>
  BY DEF PassSelect, Eligible, TypeOK, QueueType
<1>2. /\ Len(queues[tc]) \in Nat /\ DOMAIN queues[tc] = 1 .. Len(queues[tc])
      /\ 1 \in DOMAIN queues[tc] /\ Head(queues[tc]) = queues[tc][1]
      /\ DOMAIN Tail(queues[tc]) = 1 .. Len(queues[tc]) - 1
      /\ \A k \in 1 .. Len(queues[tc]) - 1 : Tail(queues[tc])[k] = queues[tc][k + 1]
  BY <1>1, HeadTailProperties
<1>3. \A k \in DOMAIN queues[tc] : queues[tc][k].ticks \in Sizes
  BY DEF Sized
<1>4. \A k \in DOMAIN Tail(queues[tc]) : Tail(queues[tc])[k].ticks \in Sizes
  BY <1>2, <1>3
<1>5. Head(queues[tc]).ticks \in Sizes
  BY <1>2, <1>3
<1>6. \A d \in TC : queues'[d] = IF d = tc THEN Tail(queues[tc]) ELSE queues[d]
  BY DEF PassSelect, TypeOK, QueueType
<1>7. drain'.item = Head(queues[tc]) /\ caller' = caller
  BY DEF PassSelect, TypeOK, DrainType
<1> QED
  BY <1>4, <1>5, <1>6, <1>7 DEF Sized

LEMMA SizedStep ==
  ASSUME TypeOK, Sized, [Next]_vars
  PROVE  Sized'
<1>1. CASE \/ DrainWake \/ DrainClear \/ PassSample \/ PassIdle \/ DrainSend \/ DrainSent
           \/ (\E cfg \in Configs : UpdateConfig(cfg)) \/ Stop \/ Tick \/ UNCHANGED vars
  <2>1. UNCHANGED <<queues, caller>>
    BY <1>1 DEF DrainWake, DrainClear, PassSample, PassIdle, DrainSend, DrainSent,
       UpdateConfig, Stop, Tick, vars
  <2>2. drain'.pc \in {"send", "busy"} => drain.pc \in {"send", "busy"} /\ drain'.item = drain.item
    BY <1>1 DEF DrainWake, DrainClear, PassSample, PassIdle, DrainSend, DrainSent,
       UpdateConfig, Stop, Tick, vars, TypeOK, DrainType
  <2> QED
    BY <2>1, <2>2 DEF Sized
<1> QED
  BY <1>1, SizedCall, SizedSelect DEF Next, DrainLoop

\* While the port keeps its configuration, every step keeps the account.
LEMMA RatedStep ==
  ASSUME TypeOK, Sized, Rated, [Next]_vars, UNCHANGED config, ~Stranding
  PROVE  Rated'
<1> USE DEF TypeOK
<1>1. ASSUME NEW c \in Callers,
             \/ \E tc \in RawTC, ticks \in Sizes : CallStart(c, tc, ticks)
             \/ CallRest(c)
      PROVE  Rated'
  <2>1. level' = level
    <3>1. CASE CallBypass(c)
      <4>1. caller[c].tc \in TC /\ caller[c].ticks \in Nat
        BY CallerFacts
      <4>2. level' = [level EXCEPT ![caller[c].tc] = @ + 0 * caller[c].ticks]
        BY <3>1 DEF CallBypass, Send
      <4>3. level[caller[c].tc] + 0 * caller[c].ticks = level[caller[c].tc]
        BY <4>1 DEF CreditType
      <4> QED
        BY <4>1, <4>2, <4>3 DEF CreditType
    <3> QED
      BY <1>1, <3>1 DEF CallStart, CallRest, CallCheck, CallRefuse, CallAppend, CallSignal
  <2>2. UNCHANGED <<credits, drain, elapsed>>
    BY <1>1 DEF CallStart, CallRest, CallCheck, CallBypass, CallRefuse, CallAppend, CallSignal
  <2> QED
    BY <2>1, <2>2, RatedKept
<1>2. ASSUME NEW tc \in TC, PassSelect(tc)
      PROVE  Rated'
  <2>1. Head(queues[tc]).tc = tc
    <3>1. queues[tc] \in Seq(ItemType) /\ queues[tc] # << >>
      BY <1>2 DEF PassSelect, Eligible, QueueType
    <3> QED
      BY <3>1, HeadTailProperties DEF QueueType
  <2>2. Enabled(tc) /\ Replenished[tc] >= 0
    BY <1>2 DEF PassSelect, Eligible, Enabled
  <2>3. /\ drain.pc = "locked" /\ UNCHANGED <<level, elapsed>> /\ credits' = Replenished
        /\ drain'.speed = drain.speed /\ drain'.elapsed = 0 /\ drain'.pending_tc = -1
        /\ drain'.exclude_tc = -1 /\ drain'.pc = "send" /\ drain'.item = Head(queues[tc])
    BY <1>2 DEF PassSelect, DrainType
  <2> QED
    BY <2>1, <2>2, <2>3, RatedPass
<1>3. CASE PassIdle
  <2>1. /\ drain.pc = "locked" /\ UNCHANGED <<level, elapsed>> /\ credits' = Replenished
        /\ drain'.speed = drain.speed /\ drain'.elapsed = 0 /\ drain'.pending_tc = -1
        /\ drain'.exclude_tc = -1 /\ drain'.pc \in {"pass", "wait"}
    BY <1>3 DEF PassIdle, DrainType
  <2> QED
    BY <2>1, RatedPass
<1>4. CASE DrainLoop
  BY <1>2, <1>3, <1>4, RatedWait, RatedSample, RatedSend, RatedSent DEF DrainLoop
<1>5. CASE Stop \/ UNCHANGED vars
  BY <1>5, RatedKept DEF Stop, vars
<1> QED
  BY <1>1, <1>4, <1>5, RatedTick DEF Next, Stranding

LEMMA RatedInit == Init => Sized /\ Rated
<1> SUFFICES ASSUME Init PROVE Sized /\ Rated
  OBVIOUS
<1>t. TypeOK
  BY TypeInit
<1>1. Sized
  BY DEF Init, Sized, NoCall
<1>2. drain.speed = config.port_speed_bps /\ Charging
  BY DEF Init, Charging
<1>3. ASSUME Covers, NEW tc \in TC, Enabled(tc)
      PROVE  CreditBounded(tc) /\ Conforming(tc)
  <2>1. /\ credits[tc] = 0 /\ level[tc] = 0 /\ drain.pc = "wait" /\ drain.pending_tc = -1
    BY DEF Init
  <2>2. CreditBounded(tc)
    <3>1. PICK ticks \in Sizes : TRUE
      BY CBSAssumption
    <3>2. (drain.speed - Idle(tc)) * ticks \in Nat
      BY <1>t, <1>3, ChargeFacts
    <3>3. MaxCredit(tc) \in Nat
      BY <1>t, RateFacts
    <3> QED
      BY <2>1, <3>2, <3>3 DEF CreditBounded
  <2>3. ~Sending(tc) /\ ~Owing(tc)
    BY <2>1, ClassFacts DEF Sending, Owing
  <2>4. level[tc] <= AtLeast(MaxCredit(tc) - credits[tc]
                               - Idle(tc) * (elapsed + drain.elapsed), 0)
    <3>1. Idle(tc) * (elapsed + drain.elapsed) \in Int /\ MaxCredit(tc) \in Nat
      <4>1. Idle(tc) \in Nat /\ elapsed + drain.elapsed \in Nat
        BY <1>t, RateFacts
      <4> QED
        BY <1>t, <4>1, RateFacts
    <3> QED
      BY <2>1, <3>1 DEF AtLeast
  <2> QED
    BY <2>1, <2>2, <2>3, <2>4 DEF Conforming
<1> QED
  BY <1>1, <1>2, <1>3 DEF Rated

\* The account bounds what the class may be over its rate by one credit and one frame.
LEMMA RatedConforms ==
  ASSUME TypeOK, Sized, Rated, Covers
  PROVE  RateConforms
<1> SUFFICES ASSUME NEW tc \in TC, Enabled(tc)
             PROVE  \E ticks \in Sizes : level[tc] <= MaxCredit(tc) + drain.speed * ticks
  BY DEF RateConforms, Enabled, MaxCredit
<1>f. /\ MaxCredit(tc) \in Nat /\ credits[tc] \in Int /\ level[tc] \in Nat
      /\ CreditBounded(tc) /\ Conforming(tc) /\ drain.pending_drain \in Int
  BY RateFacts DEF Rated
<1>1. CASE Sending(tc)
  <2> DEFINE ticks == drain.item.ticks
             charge == (drain.speed - Idle(tc)) * ticks
             whole == drain.speed * ticks
             gain == Idle(tc) * ticks
             more == Idle(tc) * drain.left
  <2>1. ticks \in Sizes
    BY <1>1 DEF Sending, Sized
  <2>2. charge \in Nat /\ whole \in Nat /\ gain \in Nat /\ charge = whole - gain
    BY <2>1, ChargeFacts
  <2>3. more <= gain /\ more \in Int
    <3>1. drain.left <= ticks /\ Idle(tc) \in Nat /\ drain.left \in Nat /\ ticks \in Nat
      BY <1>1, <1>f, RateFacts DEF Conforming
    <3> HIDE DEF ticks
    <3> QED
      BY <3>1, MonoTimes
  <2>4. credits[tc] >= 0 /\ level[tc] <= MaxCredit(tc) - credits[tc] + charge + more
    <3>1. /\ credits[tc] >= 0 /\ drain.pending_drain = -charge
          /\ level[tc] <= MaxCredit(tc) - credits[tc] - drain.pending_drain + more
      BY <1>1, <1>f DEF Conforming
    <3> HIDE DEF charge, more
    <3> QED
      BY <1>f, <2>2, <2>3, <3>1
  <2> HIDE DEF charge, whole, gain, more
  <2>5. level[tc] <= MaxCredit(tc) + whole
    BY <1>f, <2>2, <2>3, <2>4
  <2> QED
    BY <2>1, <2>5 DEF whole
<1>2. CASE Owing(tc)
  <2>1. PICK ticks \in Sizes : drain.pending_drain = -((drain.speed - Idle(tc)) * ticks)
    BY <1>2, <1>f DEF Conforming
  <2> DEFINE charge == (drain.speed - Idle(tc)) * ticks
             whole == drain.speed * ticks
             due == Idle(tc) * elapsed
  <2>2. charge \in Nat /\ whole \in Nat /\ charge <= whole
    BY ChargeFacts
  <2>3. due \in Nat
    <3>1. Idle(tc) \in Nat /\ elapsed \in Nat
      BY RateFacts
    <3> QED
      BY <3>1
  <2>4. drain.pc \in {"pass", "locked"}
    BY <1>2, ClassFacts DEF Owing, Rated, Charging
  <2>5. /\ credits[tc] >= 0 /\ drain.pending_drain = -charge
        /\ \/ level[tc] <= MaxCredit(tc) - credits[tc] - drain.pending_drain
           \/ level[tc] <= AtLeast(MaxCredit(tc) - credits[tc] - drain.pending_drain - due, 0)
    BY <1>2, <1>f, <2>1, <2>4 DEF Conforming
  <2> HIDE DEF charge, whole, due
  <2>6. level[tc] <= MaxCredit(tc) + whole
    BY <1>f, <2>2, <2>3, <2>5 DEF AtLeast
  <2> QED
    BY <2>6 DEF whole
<1>3. CASE ~Sending(tc) /\ ~Owing(tc)
  <2>1. PICK ticks \in Sizes : credits[tc] >= -((drain.speed - Idle(tc)) * ticks)
    BY <1>f DEF CreditBounded
  <2> DEFINE charge == (drain.speed - Idle(tc)) * ticks
             whole == drain.speed * ticks
             due == Idle(tc) * (elapsed + drain.elapsed)
  <2>2. charge \in Nat /\ whole \in Nat /\ charge <= whole
    BY ChargeFacts
  <2>3. due \in Nat
    <3>1. Idle(tc) \in Nat /\ elapsed + drain.elapsed \in Nat
      BY RateFacts
    <3> QED
      BY <3>1
  <2>4. level[tc] <= AtLeast(MaxCredit(tc) - credits[tc] - due, 0) /\ credits[tc] >= -charge
    BY <1>3, <1>f, <2>1 DEF Conforming
  <2> HIDE DEF charge, whole, due
  <2>5. level[tc] <= MaxCredit(tc) + whole
    BY <1>f, <2>2, <2>3, <2>4 DEF AtLeast
  <2> QED
    BY <2>5 DEF whole
<1> QED
  BY <1>1, <1>2, <1>3

\* The shaper keeps its promise for every port speed, slopes, ceilings, frame sizes,
\* callers and interleavings, as long as the port keeps the configuration it
\* started with and max_credit_bytes covers the charge of a frame: a class never
\* sends more than its idle slope allows by more than one credit and one frame.
\* (Run `readme` shows that the second condition is needed.)
THEOREM RateKept == Spec => [](updates = 0 /\ Covers => RateConforms)
<1> DEFINE Account == updates = 0 => Rated
<1>1. TypeOK /\ Sized /\ Account /\ [Next]_vars => Sized' /\ Account'
  <2> SUFFICES ASSUME TypeOK, Sized, Account, [Next]_vars
               PROVE  Sized' /\ Account'
    OBVIOUS
  <2>1. Sized'
    BY SizedStep
  <2>2. ASSUME updates' = 0 PROVE Rated'
    BY <2>2, PortKept, RatedStep
  <2> QED
    BY <2>1, <2>2
<1>2. Init => Sized /\ Account
  BY RatedInit
<1>3. TypeOK /\ Sized /\ Account => (updates = 0 /\ Covers => RateConforms)
  BY RatedConforms
<1> QED
  BY <1>1, <1>2, <1>3, TypeCorrect, PTL DEF Spec

=============================================================================
