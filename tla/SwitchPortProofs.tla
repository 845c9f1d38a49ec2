--------------------------- MODULE SwitchPortProofs ---------------------------
(***************************************************************************)
(* Theorems about SwitchPort for every value of its constants: it runs     *)
(* both engines as they are, so all that is proved of them holds here, and *)
(* the counters, the gates and the egress contract of the two in series.   *)
(***************************************************************************)
EXTENDS SwitchPort, TASProofs

\* The CBS engine with its theorems, called with the classes the TAS engine hands on.
CBSP == INSTANCE CBSEngineProofs WITH
  Configs <- CBSConfigs, Callers <- Threads, RawTC <- TC \union RawTC,
  config <- cbs_config, running <- cbs_running, updates <- cbs_updates,
  queues <- cbs_queues, drain <- cbs_drain, stats <- cbs_stats,
  arrived <- cbs_arrived, out <- sent, dropped <- refused

LEMMA SameNames ==
  /\ CBS!TC = TC /\ CBSP!TC = TC
  /\ \A tc : CBS!Clamp(tc) = Clamp(tc) /\ CBSP!Clamp(tc) = Clamp(tc)
  /\ \A S : CBS!Cardinality(S) = Cardinality(S) /\ CBSP!Cardinality(S) = Cardinality(S)
  /\ \A S : CBSP!IsFiniteSet(S) = IsFiniteSet(S)
<1>1. CBS!TC = TC /\ CBSP!TC = TC
  BY DEF TC, CBS!TC, CBSP!TC
<1>2. \A tc : CBS!Clamp(tc) = Clamp(tc) /\ CBSP!Clamp(tc) = Clamp(tc)
  BY DEF Clamp, CBS!Clamp, CBSP!Clamp
<1>3. \A S : CBS!Cardinality(S) = Cardinality(S) /\ CBSP!Cardinality(S) = Cardinality(S)
  BY DEF Cardinality, CBS!Cardinality, CBSP!Cardinality
<1>4. \A S : CBSP!IsFiniteSet(S) = IsFiniteSet(S)
  BY DEF IsFiniteSet, CBSP!IsFiniteSet
<1> QED
  BY <1>1, <1>2, <1>3, <1>4

LEMMA ClampKeeps == \A tc \in TC : Clamp(tc) = tc
  BY NumTCAssumption DEF Clamp, TC

LEMMA ThreadsFinite == IsFiniteSet(Threads)
<1>1. Threads = {"rx"} \union {"drain"} \union {"wire"}
  BY DEF Threads
<1> QED
  BY <1>1, FS_Singleton, FS_Union, Zenon

\* What CBSEngine assumes of its constants.
LEMMA Assumed ==
  /\ NumTC \in Nat \ {0}
  /\ MaxQueueDepth \in Nat
  /\ CBSConfigs \subseteq CBSP!Config
  /\ CBSP!IsFiniteSet(Threads)
  /\ TC \union RawTC \subseteq Nat
  /\ Sizes \subseteq Nat \ {0} /\ Sizes # {}
  /\ NumFrames \in Nat /\ ElapsedCap \in Nat /\ MaxUpdates \in Nat
  /\ MayStop \in BOOLEAN
  BY ThreadsFinite, SameNames, ShaperAssumption, NumTCAssumption, BoundsAssumption, ClassFacts
  DEF CBS!Config, CBSP!Config, CBS!ClassConfig, CBSP!ClassConfig, CBS!TC, CBSP!TC

LEMMA SameCalls ==
  ASSUME NEW t
  PROVE  /\ \A tc, ticks : CBS!CallStart(t, tc, ticks) = CBSP!CallStart(t, tc, ticks)
         /\ CBS!CallCheck(t) = CBSP!CallCheck(t)
         /\ CBS!CallBypass(t) = CBSP!CallBypass(t)
         /\ CBS!CallRefuse(t) = CBSP!CallRefuse(t)
         /\ CBS!CallAppend(t) = CBSP!CallAppend(t)
         /\ CBS!CallSignal(t) = CBSP!CallSignal(t)
<1> USE DEF CBS!port, CBSP!port, CBS!history, CBSP!history, CBS!NoCall, CBSP!NoCall,
            CBS!Send, CBSP!Send, CBS!RecordSent, CBSP!RecordSent
<1>1. \A tc, ticks : CBS!CallStart(t, tc, ticks) = CBSP!CallStart(t, tc, ticks)
  BY SameNames DEF CBS!CallStart, CBSP!CallStart, CBS!InCall, CBSP!InCall
<1>2. CBS!CallCheck(t) = CBSP!CallCheck(t)
  BY DEF CBS!CallCheck, CBSP!CallCheck
<1>3. CBS!CallBypass(t) = CBSP!CallBypass(t)
  BY DEF CBS!CallBypass, CBSP!CallBypass
<1>4. CBS!CallRefuse(t) = CBSP!CallRefuse(t)
  BY DEF CBS!CallRefuse, CBSP!CallRefuse
<1>5. CBS!CallAppend(t) = CBSP!CallAppend(t)
  BY DEF CBS!CallAppend, CBSP!CallAppend
<1>6. CBS!CallSignal(t) = CBSP!CallSignal(t)
  BY DEF CBS!CallSignal, CBSP!CallSignal
<1> QED
  BY <1>1, <1>2, <1>3, <1>4, <1>5, <1>6

LEMMA SameLoop ==
  /\ CBS!DrainWake = CBSP!DrainWake /\ CBS!DrainClear = CBSP!DrainClear
  /\ CBS!PassSample = CBSP!PassSample /\ CBS!PassIdle = CBSP!PassIdle
  /\ \A tc : CBS!PassSelect(tc) = CBSP!PassSelect(tc)
  /\ CBS!DrainSend = CBSP!DrainSend /\ CBS!DrainSent = CBSP!DrainSent
  /\ CBS!Tick = CBSP!Tick
<1> USE DEF CBS!port, CBSP!port, CBS!history, CBSP!history, CBS!Charged, CBSP!Charged,
            CBS!Eligible, CBSP!Eligible, CBS!Replenished, CBSP!Replenished,
            CBS!AtMost, CBSP!AtMost, CBS!AtLeast, CBSP!AtLeast, CBS!NoItem, CBSP!NoItem
<1>1. CBS!DrainWake = CBSP!DrainWake /\ CBS!DrainClear = CBSP!DrainClear
  BY DEF CBS!DrainWake, CBSP!DrainWake, CBS!DrainClear, CBSP!DrainClear
<1>2. CBS!PassSample = CBSP!PassSample
  BY DEF CBS!PassSample, CBSP!PassSample
<1>3. CBS!PassIdle = CBSP!PassIdle
  BY SameNames DEF CBS!PassIdle, CBSP!PassIdle, CBS!AnyQueued, CBSP!AnyQueued
<1>4. \A tc : CBS!PassSelect(tc) = CBSP!PassSelect(tc)
  BY SameNames DEF CBS!PassSelect, CBSP!PassSelect
<1>5. CBS!DrainSend = CBSP!DrainSend
  BY DEF CBS!DrainSend, CBSP!DrainSend, CBS!Send, CBSP!Send, CBS!SendSlope, CBSP!SendSlope
<1>6. CBS!DrainSent = CBSP!DrainSent
  BY DEF CBS!DrainSent, CBSP!DrainSent
<1>7. CBS!Tick = CBSP!Tick
  BY SameNames DEF CBS!Tick, CBSP!Tick
<1> QED
  BY <1>1, <1>2, <1>3, <1>4, <1>5, <1>6, <1>7

-----------------------------------------------------------------------------
(***************************************************************************)
(* Every step of the port is a step of each engine or leaves it alone.     *)
(***************************************************************************)
LEMMA TASStep ==
  ASSUME [PortNext]_portvars
  PROVE  [Next]_vars
<1>1. CASE Rx
  BY <1>1 DEF Rx, Next
<1>2. CASE Drain
  BY <1>2 DEF Drain, Next
<1>3. CASE Wire
  BY <1>3 DEF Wire, Next
<1>4. CASE \E t \in Threads : Call(t)
  BY <1>4 DEF Call
<1>5. CASE CBSDrain
  BY <1>5 DEF CBSDrain
<1>6. CASE PortTick
  BY <1>6 DEF PortTick, Next
<1>7. CASE UNCHANGED portvars
  BY <1>7 DEF portvars
<1> QED
  BY <1>1, <1>2, <1>3, <1>4, <1>5, <1>6, <1>7 DEF PortNext

\* Thread t hands a frame over and starts the call, or calls nobody.
LEMMA HandedOver ==
  ASSUME NEW t \in Threads, HandOver(t)
  PROVE  \/ UNCHANGED <<out, cbsvars, hand, relayed>>
         \/ /\ out' # out /\ hand' = [hand EXCEPT ![t] = Last(out')] /\ UNCHANGED relayed
            /\ \E ticks \in Sizes : CBSP!CallStart(t, Last(out').tc, ticks)
<1>1. CASE out' = out
  BY <1>1 DEF HandOver
<1>2. CASE out' # out
  <2>1. PICK ticks \in Sizes : CBS!CallStart(t, Last(out').tc, ticks)
    BY <1>2 DEF HandOver
  <2>2. CBSP!CallStart(t, Last(out').tc, ticks)
    BY <2>1, SameCalls
  <2> QED
    BY <1>2, <2>2 DEF HandOver
<1> QED
  BY <1>1, <1>2

\* The steps, by what they do to the engines.
LEMMA PortSteps ==
  ASSUME [PortNext]_portvars
  PROVE  \/ \E t \in Threads : Free(t) /\ HandOver(t)
              /\ \/ t = "rx" /\ (Arrival \/ EnqueueRest)
                 \/ t = "drain" /\ DrainLoop
                 \/ t = "wire" /\ WireLoop
         \/ \E t \in Threads :
              /\ \/ CBSP!CallCheck(t) \/ CBSP!CallBypass(t) \/ CBSP!CallRefuse(t)
                 \/ CBSP!CallAppend(t) \/ CBSP!CallSignal(t)
              /\ relayed' = IF cbs_arrived' > cbs_arrived THEN Append(relayed, hand[t]) ELSE relayed
              /\ UNCHANGED <<vars, hand>>
         \/ CBSP!DrainLoop /\ UNCHANGED <<vars, hand, relayed>>
         \/ Tick /\ CBSP!Tick /\ (Prompt => \A t \in Threads : Free(t)) /\ UNCHANGED <<hand, relayed>>
         \/ UNCHANGED portvars
<1>1. "rx" \in Threads /\ "drain" \in Threads /\ "wire" \in Threads
  BY DEF Threads
<1>2. CASE Rx
  BY <1>1, <1>2 DEF Rx
<1>3. CASE Drain
  BY <1>1, <1>3 DEF Drain
<1>4. CASE Wire
  BY <1>1, <1>4 DEF Wire
<1>5. ASSUME NEW t \in Threads, Call(t)
      PROVE  \/ CBSP!CallCheck(t) \/ CBSP!CallBypass(t) \/ CBSP!CallRefuse(t)
             \/ CBSP!CallAppend(t) \/ CBSP!CallSignal(t)
  BY <1>5, SameCalls DEF Call, CBS!CallRest
<1>6. CASE CBSDrain
  <2>1. CBS!DrainLoop = CBSP!DrainLoop
    BY SameNames, SameLoop DEF CBS!DrainLoop, CBSP!DrainLoop
  <2> QED
    BY <1>6, <2>1 DEF CBSDrain
<1>7. CASE PortTick
  BY <1>7, SameLoop DEF PortTick
<1> QED
  BY <1>2, <1>3, <1>4, <1>5, <1>6, <1>7 DEF PortNext, Call

LEMMA RunsTAS == SwitchSpec => Spec
<1>1. PortInit => Init
  BY DEF PortInit
<1>2. [PortNext]_portvars => [Next]_vars
  BY TASStep
<1> QED
  BY <1>1, <1>2, PTL DEF SwitchSpec, Spec

\* Neither engine is stopped or given another configuration.
LEMMA StaysSo ==
  ASSUME [PortNext]_portvars
  PROVE  UNCHANGED <<config, running, updates, CBSP!port>>
<1>1. ASSUME NEW t, NEW tc, NEW ticks, CBSP!CallStart(t, tc, ticks)
      PROVE  UNCHANGED CBSP!port
  BY <1>1 DEF CBSP!CallStart
<1>2. ASSUME NEW t, \/ CBSP!CallCheck(t) \/ CBSP!CallBypass(t) \/ CBSP!CallRefuse(t)
                    \/ CBSP!CallAppend(t) \/ CBSP!CallSignal(t)
      PROVE  UNCHANGED CBSP!port
  BY <1>2 DEF CBSP!CallCheck, CBSP!CallBypass, CBSP!CallRefuse, CBSP!CallAppend, CBSP!CallSignal
<1>3. ASSUME CBSP!DrainLoop \/ CBSP!Tick
      PROVE  UNCHANGED CBSP!port
  BY <1>3 DEF CBSP!DrainLoop, CBSP!DrainWake, CBSP!DrainClear, CBSP!PassSample, CBSP!PassIdle,
              CBSP!PassSelect, CBSP!DrainSend, CBSP!DrainSent, CBSP!Tick
<1>4. ASSUME UNCHANGED cbsvars \/ UNCHANGED portvars
      PROVE  UNCHANGED CBSP!port
  BY <1>4 DEF cbsvars, portvars, CBSP!port
<1>5. UNCHANGED CBSP!port
  BY <1>1, <1>2, <1>3, <1>4, HandedOver, PortSteps
<1>6. ASSUME Arrival \/ EnqueueRest
      PROVE  UNCHANGED port
  BY <1>6 DEF Arrival, EnqueueRest, EnqueueBypass, EnqueueSample, EnqueueJudge, EnqueueSend,
     EnqueueHold, EnqueueCount, EnqueueLoadSeq, WireAppend, BumpLoad, BumpStore, Counted
<1>7. ASSUME DrainLoop
      PROVE  UNCHANGED port
  BY <1>7 DEF DrainLoop, DrainSample, DrainScan, DrainDone, DrainSend, DrainLoadSeq, WireAppend,
     BumpLoad, BumpStore, Counted
<1>8. ASSUME WireLoop \/ Tick
      PROVE  UNCHANGED port
  BY <1>8 DEF WireLoop, WireSample, WireSkip, WireOffset, WireJudge, WireTake, WireNothing, WireSend,
     Tick
<1>9. ASSUME UNCHANGED vars \/ UNCHANGED portvars
      PROVE  UNCHANGED port
  BY <1>9 DEF vars, portvars
<1>10. UNCHANGED port
  BY <1>6, <1>7, <1>8, <1>9, PortSteps
<1> QED
  BY <1>5, <1>10 DEF port

-----------------------------------------------------------------------------
(***************************************************************************)
(* What each thread of the TAS engine hands over.                          *)
(***************************************************************************)
Given == TypeOK /\ Kept /\ Waiting /\ Led /\ OneMode
Confined == (\A i \in BusyItems : i.tc \in TC) /\ (~config.enabled => Items = {})

Handed == [frame : Nat, tc : TC \union RawTC, held : BOOLEAN]

\* Thread t may have handed over the frame o.
From(t, o) ==
  /\ o \in Handed
  /\ config.enabled => o.tc \in TC
  /\ t = "rx" => o.frame = arrived /\ ~o.held /\ ~(config.enabled /\ config.port_speed_bps > 0)
  /\ t = "drain" => o.held /\ config.port_speed_bps = 0
  /\ t = "wire" => config.enabled /\ config.port_speed_bps > 0

LEMMA AlwaysGiven == Spec => []Given
  BY TypeCorrect, AllKept, AllWaiting, AllLed, AllOneMode, PTL DEF Given

\* Whatever enters an engine without shaping leaves it in the same step.
LEMMA StaysEmpty ==
  ASSUME Given, ~config.enabled, Items = {}, UNCHANGED updates, [Next]_vars
  PROVE  Items' = {}
<1>1. Inside = {}
  BY DEF Inside
<1>2. [Port!Next]_(Port!vars)
  BY Simulation DEF Given
<1>3. ASSUME NEW tc, NEW held, Port!Accept(tc, held)
      PROVE  FALSE
  <2>1. arrived' # arrived /\ out' = out
    BY <1>3, ItemTypes DEF Port!Accept, Given
  <2>2. PICK c \in RawTC : EnqueueBypass(c) \/ EnqueueSample(c)
    <3>1. CASE EnqueueJudge \/ EnqueueSend \/ EnqueueHold \/ \E t \in Producers : WireAppend(t)
      BY <2>1, <3>1 DEF EnqueueJudge, EnqueueSend, EnqueueHold, WireAppend
    <3>2. CASE DrainScan \/ (\E i \in batch.ready : DrainSend(i) \/ DrainLoadSeq(i)) \/ WireTake \/ WireSend
      BY <2>1, <3>2 DEF DrainScan, DrainSend, DrainLoadSeq, WireTake, WireSend
    <3>3. CASE Still
      BY <2>1, <3>3, StillEffect DEF Given
    <3> QED
      BY <3>1, <3>2, <3>3, Steps
  <2>3. CASE EnqueueBypass(c)
    <3>1. out' = Append(out, [frame |-> arrived + 1, tc |-> c, held |-> FALSE])
      BY <2>3, BypassEffect DEF Given
    <3>2. Len(out') = Len(out) + 1 /\ Len(out) \in Nat
      BY <3>1 DEF Given, TypeOK, HistoryType
    <3> QED
      BY <2>1, <3>2
  <2>4. CASE EnqueueSample(c)
    BY <2>4 DEF EnqueueSample
  <2> QED
    BY <2>2, <2>3, <2>4
<1>4. Inside' = {}
  BY <1>1, <1>2, <1>3
  DEF Port!Next, Port!Pass, Port!Refuse, Port!Hold, Port!Depart, Port!Discard, Port!Reconfigure, Port!vars
<1> QED
  BY <1>4 DEF Inside

LEMMA ConfinedStep ==
  ASSUME Given, Confined, UNCHANGED <<updates, config>>, [Next]_vars
  PROVE  Confined'
<1>1. ASSUME NEW i \in BusyItems'
      PROVE  i.tc \in TC
  <2>1. CASE WireTake
    <3> DEFINE s == wire_queues[wire.best]
    <3>1. wire.best \in TC /\ s # << >> /\ s \in Seq([item : Item, seq : Nat]) /\ i = Head(s).item
      BY <1>1, <2>1, TakeEffect DEF Given
    <3>2. Head(s) = s[1] /\ 1 \in DOMAIN s
      BY <3>1
    <3> QED
      BY <3>1, <3>2 DEF Given, TypeOK, WireQueueType
  <2>2. CASE Still
    BY <1>1, <2>2, StillEffect DEF Given, Confined
  <2>3. CASE WireSend
    BY <1>1, <2>3, WireSendEffect DEF Given
  <2>4. CASE \/ \E tc \in RawTC : EnqueueBypass(tc) \/ EnqueueSample(tc)
             \/ EnqueueJudge \/ EnqueueSend \/ EnqueueHold
             \/ \E t \in Producers : WireAppend(t)
             \/ DrainScan \/ \E j \in batch.ready : DrainSend(j) \/ DrainLoadSeq(j)
    <3>1. UNCHANGED wire
      BY <2>4 DEF EnqueueBypass, EnqueueSample, EnqueueJudge, EnqueueSend, EnqueueHold, WireAppend,
         DrainScan, DrainSend, DrainLoadSeq, locals
    <3> QED
      BY <1>1, <3>1 DEF BusyItems, Confined
  <2> QED
    BY <2>1, <2>2, <2>3, <2>4, Steps
<1>2. ~config'.enabled => Items' = {}
  BY StaysEmpty DEF Confined
<1> QED
  BY <1>1, <1>2 DEF Confined

\* Only these steps call send_fn.
LEMMA Callers ==
  /\ (Arrival \/ EnqueueRest) /\ out' # out
       => EnqueueSend \/ \E tc \in RawTC : EnqueueBypass(tc)
  /\ DrainLoop /\ out' # out => \E i \in batch.ready : DrainSend(i)
  /\ WireLoop /\ out' # out => WireSend
<1>1. (Arrival \/ EnqueueRest) /\ out' # out
        => EnqueueSend \/ \E tc \in RawTC : EnqueueBypass(tc)
  BY DEF Arrival, EnqueueRest, EnqueueSample, EnqueueJudge, EnqueueHold, EnqueueCount, EnqueueLoadSeq,
         WireAppend, BumpLoad, BumpStore, Counted
<1>2. DrainLoop /\ out' # out => \E i \in batch.ready : DrainSend(i)
  BY DEF DrainLoop, DrainSample, DrainScan, DrainDone, DrainLoadSeq, WireAppend, BumpLoad,
         BumpStore, Counted
<1>3. WireLoop /\ out' # out => WireSend
  BY DEF WireLoop, WireSample, WireSkip, WireOffset, WireJudge, WireTake, WireNothing
<1> QED
  BY <1>1, <1>2, <1>3

LEMMA HandsOn ==
  ASSUME Given, Confined, updates = 0, NEW t \in Threads, out' # out,
         \/ t = "rx" /\ (Arrival \/ EnqueueRest)
         \/ t = "drain" /\ DrainLoop
         \/ t = "wire" /\ WireLoop
  PROVE  \E o : out' = Append(out, o) /\ From(t, o)'
<1>1. /\ config.port_speed_bps = 0 => Wireless
      /\ thread["drain"].pc # "idle" => (batch.use_wire <=> config.port_speed_bps > 0)
      /\ config.port_speed_bps \in Nat
  BY ConfigsAssumption DEF Given, OneMode, ModeTaken, TypeOK, PortType
<1>2. ASSUME NEW i \in Item, i.tc \in TC
      PROVE  /\ Outer(i) \in Handed /\ Outer(i).tc \in TC
             /\ Outer(i).frame = i.frame /\ Outer(i).held = i.held
  BY <1>2 DEF Outer, Handed, Item
<1>3. CASE t = "rx" /\ \E tc \in RawTC : EnqueueBypass(tc)
  <2>1. PICK tc \in RawTC : EnqueueBypass(tc)
    BY <1>3
  <2>o. PICK o : o = [frame |-> arrived + 1, tc |-> tc, held |-> FALSE]
    OBVIOUS
  <2>2. out' = Append(out, o) /\ arrived' = arrived + 1 /\ UNCHANGED config /\ ~config.enabled
    BY <2>1, <2>o, BypassEffect DEF Given, EnqueueBypass
  <2>3. o \in Handed
    BY <2>o, ItemTypes DEF Handed, Given
  <2>4. From(t, o)'
    BY <1>3, <2>o, <2>2, <2>3 DEF From
  <2> QED
    BY <2>2, <2>4
<1>4. CASE t = "rx" /\ EnqueueSend
  <2>1. PICK i \in Item :
          /\ Hand("rx") = {i} /\ out' = Append(out, Outer(i)) /\ config.port_speed_bps = 0
          /\ UNCHANGED <<arrived, config>>
    BY <1>4, EnqueueSendEffect DEF Given
  <2>2. i.tc \in TC /\ i.frame = arrived /\ ~i.held
    BY <2>1, ItemTypes DEF Given, Producers, Waiting, Newest
  <2>3. From(t, Outer(i))'
    BY <1>2, <1>4, <2>1, <2>2 DEF From
  <2> QED
    BY <2>1, <2>3
<1>5. ASSUME t = "drain", NEW i \in batch.ready, DrainSend(i)
      PROVE  out' = Append(out, Outer(i)) /\ From(t, Outer(i))'
  <2>1. /\ i \in Item /\ thread["drain"].pc = "batch" /\ ~batch.use_wire
        /\ out' = Append(out, Outer(i)) /\ UNCHANGED config
    BY <1>5, DrainSendEffect DEF Given
  <2>2. i.held /\ i.tc \in TC
    BY DEF Given, Waiting, Marked, Held, Stored, TypeOK, BatchType
  <2>3. config.port_speed_bps = 0
    BY <1>1, <2>1
  <2>4. From(t, Outer(i))'
    BY <1>2, <1>5, <2>1, <2>2, <2>3 DEF From
  <2> QED
    BY <2>1, <2>4
<1>6. CASE t = "wire" /\ WireSend
  <2>1. /\ wire.item \in Item /\ BusyItems = {wire.item}
        /\ out' = Append(out, Outer(wire.item)) /\ UNCHANGED config
    BY <1>6, WireSendEffect DEF Given
  <2>2. wire.item.tc \in TC /\ config.enabled
    BY <2>1 DEF Confined, Items, Given, TypeOK, PortType
  <2>3. config.port_speed_bps > 0
    BY <1>1, <2>1 DEF Wireless
  <2>o. PICK o : o = Outer(wire.item)
    OBVIOUS
  <2>4. o \in Handed /\ o.tc \in TC
    BY <1>2, <2>o, <2>1, <2>2
  <2>5. From(t, o)'
    BY <1>6, <2>1, <2>2, <2>3, <2>4 DEF From
  <2> QED
    BY <2>1, <2>o, <2>5
<1> QED
  BY <1>3, <1>4, <1>5, <1>6, Callers

Started == updates = 0 /\ running /\ Given /\ Confined

LEMMA AlwaysStarted == SwitchSpec => []Started
<1>1. SwitchSpec => []Given
  BY RunsTAS, AlwaysGiven, PTL
<1>2. PortInit => updates = 0 /\ running /\ Confined
  <2> SUFFICES ASSUME PortInit PROVE updates = 0 /\ running /\ Confined
    OBVIOUS
  <2>1. Init
    BY DEF PortInit
  <2>2. Hand("rx") = {} /\ Hand("drain") = {}
    BY <2>1, HandFacts DEF Init, NoThread, Producers
  <2>3. batch.ready = {} /\ GateItems = {} /\ WireItems = {} /\ BusyItems = {}
    BY <2>1 DEF Init, NoBatch, NoWire, GateItems, WireItems, WireItemsOf, BusyItems
  <2> QED
    BY <2>1, <2>2, <2>3 DEF Init, Confined, Items
<1>3. updates = 0 /\ running /\ Given /\ Confined /\ [PortNext]_portvars
        => (updates = 0 /\ running /\ Confined)'
  BY TASStep, StaysSo, ConfinedStep
<1> QED
  BY <1>1, <1>2, <1>3, PTL DEF SwitchSpec, Started

LEMMA OnlyRxAccepts == DrainLoop \/ WireLoop \/ Tick => UNCHANGED arrived
<1>1. DrainLoop => UNCHANGED arrived
  BY DEF DrainLoop, DrainSample, DrainScan, DrainDone, DrainSend, DrainLoadSeq, WireAppend, BumpLoad,
         BumpStore, Counted
<1>2. WireLoop => UNCHANGED arrived
  BY DEF WireLoop, WireSample, WireSkip, WireOffset, WireJudge, WireTake, WireNothing, WireSend
<1>3. Tick => UNCHANGED arrived
  BY DEF Tick
<1> QED
  BY <1>1, <1>2, <1>3

\* A step that hands a frame over, and what it hands over.
LEMMA Handover ==
  ASSUME Started, [PortNext]_portvars, out' # out
  PROVE  \E t \in Threads, o \in Handed, ticks \in Sizes :
           /\ Free(t) /\ out' = Append(out, o) /\ From(t, o)'
           /\ hand' = [hand EXCEPT ![t] = o] /\ UNCHANGED relayed
           /\ CBSP!CallStart(t, o.tc, ticks) /\ (t # "rx" => UNCHANGED arrived)
<1>1. ASSUME NEW t \in Threads, Free(t), HandOver(t),
             \/ t = "rx" /\ (Arrival \/ EnqueueRest)
             \/ t = "drain" /\ DrainLoop
             \/ t = "wire" /\ WireLoop
      PROVE  \E o \in Handed, ticks \in Sizes :
               /\ Free(t) /\ out' = Append(out, o) /\ From(t, o)'
               /\ hand' = [hand EXCEPT ![t] = o] /\ UNCHANGED relayed
               /\ CBSP!CallStart(t, o.tc, ticks) /\ (t # "rx" => UNCHANGED arrived)
  <2>1. PICK o : out' = Append(out, o) /\ From(t, o)'
    BY <1>1, HandsOn DEF Started
  <2>2. o \in Handed
    BY <2>1 DEF From, Handed
  <2>3. Last(out') = o
    <3>1. o \in [frame : Nat, tc : Nat, held : BOOLEAN]
      BY <2>2, ClassFacts, BoundsAssumption DEF Handed
    <3>2. out \in Seq([frame : Nat, tc : Nat, held : BOOLEAN])
      BY DEF Started, Given, TypeOK, HistoryType
    <3> QED
      BY <2>1, <3>1, <3>2, AppendProperties DEF Last
  <2>4. /\ hand' = [hand EXCEPT ![t] = o] /\ UNCHANGED relayed
        /\ \E ticks \in Sizes : CBSP!CallStart(t, o.tc, ticks)
    BY <1>1, <2>3, HandedOver
  <2>5. t # "rx" => UNCHANGED arrived
    BY <1>1, OnlyRxAccepts
  <2> QED
    BY <1>1, <2>1, <2>2, <2>4, <2>5
<1>2. ~(UNCHANGED vars) /\ ~Tick /\ ~(UNCHANGED portvars)
  BY DEF vars, Tick, portvars
<1> QED
  BY <1>1, <1>2, PortSteps

LEMMA CBSStep ==
  ASSUME Started, [PortNext]_portvars
  PROVE  [CBSP!Next]_(CBSP!vars)
<1>1. CASE out' # out
  <2>1. PICK t \in Threads, o \in Handed, ticks \in Sizes : CBSP!CallStart(t, o.tc, ticks)
    BY <1>1, Handover
  <2>2. o.tc \in TC \union RawTC
    BY DEF Handed
  <2> QED
    BY <2>1, <2>2 DEF CBSP!Next
<1>2. ASSUME NEW t \in Threads, HandOver(t), out' = out
      PROVE  UNCHANGED CBSP!vars
  BY <1>2 DEF HandOver, cbsvars, CBSP!vars, CBSP!port, CBSP!history
<1>3. ASSUME UNCHANGED portvars
      PROVE  UNCHANGED CBSP!vars
  BY <1>3 DEF portvars, cbsvars, CBSP!vars, CBSP!port, CBSP!history
<1> QED
  BY <1>1, <1>2, <1>3, PortSteps DEF CBSP!Next, CBSP!CallRest

LEMMA RunsCBS == SwitchSpec => CBSP!Spec
<1>1. PortInit => CBSP!Init
  BY SameNames DEF PortInit, CBS!Init, CBSP!Init, CBS!NoCall, CBSP!NoCall, CBS!NoItem, CBSP!NoItem
<1>2. Started /\ [PortNext]_portvars => [CBSP!Next]_(CBSP!vars)
  BY CBSStep
<1> QED
  BY <1>1, <1>2, AlwaysStarted, PTL DEF SwitchSpec, CBSP!Spec

-----------------------------------------------------------------------------
(***************************************************************************)
(* The calls.  A thread inside check_and_send has the frame it handed over *)
(* in hand, under its class.                                               *)
(***************************************************************************)
Shaped == CBSP!TypeOK /\ CBSP!Ordered

LEMMA AlwaysShaped == SwitchSpec => []Shaped
<1>1. CBSP!Spec => []CBSP!TypeOK
  BY CBSP!TypeCorrect, Assumed
<1>2. CBSP!Spec => []CBSP!Ordered
  BY CBSP!OrderKept, Assumed
<1> QED
  BY <1>1, <1>2, RunsCBS, PTL DEF Shaped

CallKept(t) == ~Free(t) => From(t, hand[t]) /\ caller[t].tc = Clamp(hand[t].tc)

HandsKept == hand \in [Threads -> Handed] /\ \A t \in Threads : CallKept(t)

LEMMA CallerType ==
  ASSUME Shaped
  PROVE  /\ caller \in [Threads -> [pc : CBSP!CallStates, tc : TC, ticks : Nat]]
         /\ \A t \in Threads : caller[t].tc \in TC
<1>1. caller \in [Threads -> [pc : CBSP!CallStates, tc : TC, ticks : Nat]]
  BY SameNames DEF Shaped, CBSP!TypeOK, CBSP!CallerType
<1> QED
  BY <1>1

\* A call goes on, and ends with its thread free.
LEMMA CallGoesOn ==
  ASSUME Shaped, NEW t \in Threads,
         \/ CBSP!CallCheck(t) \/ CBSP!CallBypass(t) \/ CBSP!CallRefuse(t)
         \/ CBSP!CallAppend(t) \/ CBSP!CallSignal(t)
  PROVE  /\ ~Free(t) /\ (caller'[t].pc = "idle" \/ caller'[t].tc = caller[t].tc)
         /\ \A u \in Threads : u # t => caller'[u] = caller[u]
<1> USE CallerType DEF Free
<1>1. CASE CBSP!CallCheck(t)
  BY <1>1 DEF CBSP!CallCheck
<1>2. CASE CBSP!CallAppend(t)
  BY <1>2 DEF CBSP!CallAppend
<1>3. CASE CBSP!CallBypass(t) \/ CBSP!CallRefuse(t) \/ CBSP!CallSignal(t)
  <2>1. caller[t].pc # "idle" /\ caller' = [caller EXCEPT ![t] = CBSP!NoCall]
    BY <1>3 DEF CBSP!CallBypass, CBSP!CallRefuse, CBSP!CallSignal
  <2>2. CBSP!NoCall.pc = "idle"
    BY DEF CBSP!NoCall
  <2> QED
    BY <2>1, <2>2
<1> QED
  BY <1>1, <1>2, <1>3

\* The second read of the configuration decides.
LEMMA Decides ==
  ASSUME Shaped, NEW t \in Threads, CBSP!CallCheck(t)
  PROVE  /\ caller[t].pc = "check" /\ caller'[t].tc = caller[t].tc
         /\ \/ cbs_config.enabled /\ caller'[t].pc = "shaped"
            \/ ~cbs_config.enabled /\ caller'[t].pc = "bypass"
<1>1. PICK p : p = IF cbs_config.enabled THEN "shaped" ELSE "bypass"
  OBVIOUS
<1>2. caller[t].pc = "check" /\ caller' = [caller EXCEPT ![t].pc = p]
  BY <1>1 DEF CBSP!CallCheck
<1>3. caller'[t].pc = p /\ caller'[t].tc = caller[t].tc
  BY <1>2, CallerType
<1>4. (cbs_config.enabled /\ p = "shaped") \/ (~cbs_config.enabled /\ p = "bypass")
  BY <1>1
<1> QED
  BY <1>2, <1>3, <1>4

\* Every other step of a call ends the frame's way into the CBS engine.
LEMMA Settles ==
  ASSUME Shaped, NEW t \in Threads,
         CBSP!CallBypass(t) \/ CBSP!CallRefuse(t) \/ CBSP!CallAppend(t) \/ CBSP!CallSignal(t)
  PROVE  caller'[t].pc \in {"idle", "signal"}
<1>1. CBSP!NoCall.pc = "idle"
  BY DEF CBSP!NoCall
<1>2. CASE CBSP!CallAppend(t)
  BY <1>2, CallerType DEF CBSP!CallAppend
<1>3. CASE CBSP!CallBypass(t) \/ CBSP!CallRefuse(t) \/ CBSP!CallSignal(t)
  <2>1. caller' = [caller EXCEPT ![t] = CBSP!NoCall]
    BY <1>3 DEF CBSP!CallBypass, CBSP!CallRefuse, CBSP!CallSignal
  <2> QED
    BY <1>1, <2>1, CallerType
<1> QED
  BY <1>2, <1>3

LEMMA CallStarts ==
  ASSUME Shaped, NEW t \in Threads, NEW tc \in Nat, NEW ticks, CBSP!CallStart(t, tc, ticks)
  PROVE  /\ Free(t) /\ caller'[t].tc = Clamp(tc)
         /\ caller'[t].pc = IF cbs_config.tc_configs[Clamp(tc)].enabled THEN "check" ELSE "bypass"
         /\ \A u \in Threads : u # t => caller'[u] = caller[u]
         /\ UNCHANGED <<cbs_queues, cbs_drain, cbs_arrived, sent, refused, cbs_stats>>
<1>1. CBSP!Clamp(tc) = Clamp(tc)
  BY SameNames
<1> QED
  BY <1>1, CallerType DEF CBSP!CallStart, CBSP!history, Free

\* The drain loop and the clock leave the calls alone.
LEMMA LoopLeavesCalls ==
  CBSP!DrainLoop \/ CBSP!Tick => UNCHANGED <<caller, cbs_arrived, cbs_stats, refused>>
  BY DEF CBSP!DrainLoop, CBSP!DrainWake, CBSP!DrainClear, CBSP!PassSample, CBSP!PassIdle,
         CBSP!PassSelect, CBSP!DrainSend, CBSP!DrainSent, CBSP!Tick, CBSP!history

\* In every other step no thread gets a frame.
LEMMA Onwards ==
  ASSUME Shaped, [PortNext]_portvars, out' = out
  PROVE  /\ UNCHANGED hand /\ (~Free("rx") => UNCHANGED arrived)
         /\ \A t \in Threads : caller'[t].pc # "idle" => ~Free(t) /\ caller'[t].tc = caller[t].tc
<1>1. ASSUME NEW t \in Threads, Free(t), HandOver(t)
      PROVE  UNCHANGED <<hand, caller>>
  BY <1>1 DEF HandOver, cbsvars
<1>2. UNCHANGED hand
  BY <1>1, PortSteps DEF portvars
<1>3. ~Free("rx") => UNCHANGED arrived
  BY PortSteps, OnlyRxAccepts DEF portvars, vars
<1>4. ASSUME NEW t \in Threads, caller'[t].pc # "idle"
      PROVE  ~Free(t) /\ caller'[t].tc = caller[t].tc
  <2>1. CASE UNCHANGED caller
    BY <1>4, <2>1 DEF Free
  <2>2. ASSUME NEW u \in Threads,
               \/ CBSP!CallCheck(u) \/ CBSP!CallBypass(u) \/ CBSP!CallRefuse(u)
               \/ CBSP!CallAppend(u) \/ CBSP!CallSignal(u)
        PROVE  ~Free(t) /\ caller'[t].tc = caller[t].tc
    BY <1>4, <2>2, CallGoesOn DEF Free
  <2> QED
    BY <1>1, <2>1, <2>2, PortSteps, LoopLeavesCalls DEF portvars, cbsvars
<1> QED
  BY <1>2, <1>3, <1>4

LEMMA HandsStep ==
  ASSUME Started, Shaped, HandsKept, [PortNext]_portvars
  PROVE  HandsKept'
<1>c. UNCHANGED config
  BY StaysSo
<1>1. CASE out' # out
  <2>1. PICK t \in Threads : \E o \in Handed, ticks \in Sizes :
           /\ Free(t) /\ out' = Append(out, o) /\ From(t, o)'
           /\ hand' = [hand EXCEPT ![t] = o] /\ UNCHANGED relayed
           /\ CBSP!CallStart(t, o.tc, ticks) /\ (t # "rx" => UNCHANGED arrived)
    BY <1>1, Handover
  <2>2. PICK o \in Handed : \E ticks \in Sizes :
           /\ From(t, o)' /\ hand' = [hand EXCEPT ![t] = o]
           /\ CBSP!CallStart(t, o.tc, ticks) /\ (t # "rx" => UNCHANGED arrived)
    BY <2>1
  <2>3. hand' \in [Threads -> Handed] /\ hand'[t] = o /\ \A u \in Threads : u # t => hand'[u] = hand[u]
    BY <2>2 DEF HandsKept
  <2>4. caller'[t].tc = Clamp(o.tc) /\ \A u \in Threads : u # t => caller'[u] = caller[u]
    <3>1. o.tc \in Nat
      BY BoundsAssumption, ClassFacts DEF Handed
    <3> QED
      BY <2>2, <3>1, CallStarts
  <2>5. CallKept(t)'
    BY <2>2, <2>3, <2>4 DEF CallKept
  <2>6. ASSUME NEW u \in Threads, u # t
        PROVE  CallKept(u)'
    <3>1. caller'[u] = caller[u] /\ hand'[u] = hand[u] /\ CallKept(u)
      BY <2>3, <2>4, <2>6 DEF HandsKept
    <3>2. u = "rx" => arrived' = arrived
      BY <2>2, <2>6
    <3> QED
      BY <1>c, <3>1, <3>2 DEF CallKept, Free, From
  <2> QED
    BY <2>3, <2>5, <2>6 DEF HandsKept
<1>2. CASE out' = out
  <2>1. ASSUME NEW t \in Threads
        PROVE  CallKept(t)'
    <3>1. CallKept(t) /\ hand'[t] = hand[t]
      BY <1>2, Onwards DEF HandsKept
    <3>2. caller'[t].pc # "idle"
            => ~Free(t) /\ caller'[t].tc = caller[t].tc /\ (t = "rx" => UNCHANGED arrived)
      BY <1>2, Onwards
    <3> QED
      BY <1>c, <3>1, <3>2 DEF CallKept, Free, From
  <2> QED
    BY <1>2, <2>1, Onwards DEF HandsKept
<1> QED
  BY <1>1, <1>2

LEMMA AlwaysHands == SwitchSpec => []HandsKept
<1>1. PortInit => HandsKept
  <2> SUFFICES ASSUME PortInit PROVE HandsKept
    OBVIOUS
  <2>1. [frame |-> 0, tc |-> 0, held |-> FALSE] \in Handed
    BY ClassFacts DEF Handed
  <2>2. \A t \in Threads : Free(t)
    BY DEF PortInit, CBS!Init, CBS!NoCall, Free
  <2> QED
    BY <2>1, <2>2 DEF PortInit, HandsKept, CallKept
<1>2. Started /\ Shaped /\ HandsKept /\ [PortNext]_portvars => HandsKept'
  BY HandsStep
<1> QED
  BY <1>1, <1>2, AlwaysStarted, AlwaysShaped, PTL DEF SwitchSpec

-----------------------------------------------------------------------------
(***************************************************************************)
(* The gates.  Without a wire, a frame in hand is on its way through an    *)
(* open gate: threads that do not sleep on the way leave check_and_send    *)
(* within the tick in which they judged the gate.                          *)
(***************************************************************************)
InWindowCalls ==
  config.enabled /\ config.port_speed_bps = 0
    => \A t \in Threads : ~Free(t) => IsGateOpen(config, hand[t].tc, now)

LEMMA SentInWindow ==
  ASSUME Started, Timely, [Next]_vars, NEW o, out' = Append(out, o),
         config.enabled, config.port_speed_bps = 0
  PROVE  IsGateOpen(config, o.tc, now)
<1>1. InWindow
  BY WindowStep DEF Started, Given, AsStarted
<1>2. wire.pc # "busy"
  BY DEF Started, Given, OneMode, Wireless, BusyItems
<1>3. out \in Seq([frame : Nat, tc : Nat, held : BOOLEAN])
  BY DEF Started, Given, TypeOK, HistoryType
<1>4. Len(out) \in Nat /\ Len(out') = Len(out) + 1
  BY <1>3
<1>5. DOMAIN out' = 1 .. Len(out) + 1 /\ out'[Len(out')] = o
  BY <1>3, <1>4
<1>6. Starts(o) /\ o \in {out'[k] : k \in DOMAIN out'}
  BY <1>2, <1>4, <1>5 DEF Starts
<1> QED
  BY <1>1, <1>6 DEF InWindow

LEMMA WindowCallsStep ==
  ASSUME Prompt, Started, Shaped, Timely, HandsKept, InWindowCalls, [PortNext]_portvars
  PROVE  InWindowCalls'
<1> SUFFICES ASSUME config.enabled, config.port_speed_bps = 0, NEW t \in Threads, caller'[t].pc # "idle"
             PROVE  IsGateOpen(config, hand'[t].tc, now')
  BY StaysSo DEF InWindowCalls, Free
<1>n. now' = now \/ \A u \in Threads : Free(u) /\ caller'[u].pc = "idle"
  <2>1. Arrival \/ EnqueueRest => now' = now
    BY DEF Arrival, EnqueueRest, EnqueueBypass, EnqueueSample, EnqueueJudge, EnqueueSend,
     EnqueueHold, EnqueueCount, EnqueueLoadSeq, WireAppend, BumpLoad, BumpStore, Counted
  <2>2. DrainLoop => now' = now
    BY DEF DrainLoop, DrainSample, DrainScan, DrainDone, DrainSend, DrainLoadSeq, WireAppend, BumpLoad,
         BumpStore, Counted
  <2>3. WireLoop => now' = now
    BY DEF WireLoop, WireSample, WireSkip, WireOffset, WireJudge, WireTake, WireNothing, WireSend
  <2>4. UNCHANGED vars \/ UNCHANGED portvars => now' = now
    BY DEF vars, portvars
  <2> QED
    BY <2>1, <2>2, <2>3, <2>4, PortSteps, LoopLeavesCalls DEF Free
<1>1. CASE out' # out
  <2>1. PICK u \in Threads : \E o \in Handed, ticks \in Sizes :
           /\ Free(u) /\ out' = Append(out, o)
           /\ hand' = [hand EXCEPT ![u] = o]
           /\ CBSP!CallStart(u, o.tc, ticks)
    BY <1>1, Handover
  <2>2. PICK o \in Handed : \E ticks \in Sizes :
           /\ out' = Append(out, o) /\ hand' = [hand EXCEPT ![u] = o]
           /\ CBSP!CallStart(u, o.tc, ticks)
    BY <2>1
  <2>3. IsGateOpen(config, o.tc, now)
    BY <2>2, SentInWindow, TASStep
  <2>4. caller'[u].pc # "idle" /\ \A v \in Threads : v # u => caller'[v] = caller[v]
    <3>1. o.tc \in Nat
      BY BoundsAssumption, ClassFacts DEF Handed
    <3> QED
      BY <2>2, <3>1, CallStarts
  <2>5. now' = now
    BY <1>n, <2>4
  <2> QED
    BY <2>2, <2>3, <2>4, <2>5 DEF HandsKept, InWindowCalls, Free
<1>2. CASE out' = out
  BY <1>2, <1>n, Onwards DEF InWindowCalls
<1> QED
  BY <1>1, <1>2

LEMMA AlwaysWindowCalls ==
  ASSUME Prompt
  PROVE  SwitchSpec => [](Timely /\ InWindowCalls)
<1>1. PortInit => InWindowCalls
  BY DEF PortInit, CBS!Init, CBS!NoCall, Free, InWindowCalls
<1>2. Started /\ Shaped /\ Timely /\ HandsKept /\ InWindowCalls /\ [PortNext]_portvars => InWindowCalls'
  BY WindowCallsStep
<1>3. SwitchSpec => []Timely
  BY RunsTAS, AllTimely, PTL
<1> QED
  BY <1>1, <1>2, <1>3, AlwaysStarted, AlwaysShaped, AlwaysHands, PTL DEF SwitchSpec

\* Of the steps of the two engines, these are the ones that append to `sent`.
LEMMA Departures ==
  ASSUME Shaped, [PortNext]_portvars, sent' # sent
  PROVE  \/ \E t \in Threads : CBSP!CallBypass(t)
         \/ CBSP!DrainSend
<1>1. ASSUME NEW t \in Threads, HandOver(t)
      PROVE  sent' = sent
  BY <1>1, HandedOver DEF cbsvars, CBSP!CallStart, CBSP!history
<1>2. ASSUME NEW t \in Threads, \/ CBSP!CallCheck(t) \/ CBSP!CallRefuse(t)
                                \/ CBSP!CallAppend(t) \/ CBSP!CallSignal(t)
      PROVE  sent' = sent
  BY <1>2 DEF CBSP!CallCheck, CBSP!CallRefuse, CBSP!CallAppend, CBSP!CallSignal, CBSP!history
<1>3. CASE CBSP!DrainLoop
  BY <1>3 DEF CBSP!DrainLoop, CBSP!DrainWake, CBSP!DrainClear, CBSP!PassSample, CBSP!PassIdle,
     CBSP!PassSelect, CBSP!DrainSent, CBSP!history
<1>4. CASE CBSP!Tick \/ UNCHANGED portvars
  BY <1>4 DEF CBSP!Tick, CBSP!history, portvars, cbsvars
<1> QED
  BY <1>1, <1>2, <1>3, <1>4, PortSteps

\* Without a wire, and with threads that keep up, a frame of an unshaped class
\* leaves the switch while its gate is open: nothing delays it between the judgement
\* of the TAS engine and the socket.
THEOREM UnshapedKept ==
  ASSUME Prompt
  PROVE  SwitchSpec => UnshapedInWindow
<1> DEFINE Step == Len(sent') > Len(sent) /\ ~Last(sent').held
                     /\ config.enabled /\ config.port_speed_bps = 0
                     => IsGateOpen(config, Last(sent').tc, now)
<1>1. ASSUME Started, Shaped, HandsKept, InWindowCalls, [PortNext]_portvars
      PROVE  Step
  <2> SUFFICES ASSUME Len(sent') > Len(sent), ~Last(sent').held, config.enabled, config.port_speed_bps = 0
               PROVE  IsGateOpen(config, Last(sent').tc, now)
    OBVIOUS
  <2>1. sent \in Seq([frame : Nat, tc : TC, held : BOOLEAN])
    BY <1>1, SameNames DEF Shaped, CBSP!TypeOK, CBSP!HistoryType
  <2>2. sent' # sent
    BY <2>1
  <2>l. ASSUME NEW o \in [frame : Nat, tc : TC, held : BOOLEAN], sent' = Append(sent, o)
        PROVE  Last(sent') = o
    BY <2>1, <2>l, AppendProperties DEF Last
  <2>3. ASSUME NEW t \in Threads, CBSP!CallBypass(t)
        PROVE  IsGateOpen(config, Last(sent').tc, now)
    <3> DEFINE o == [frame |-> cbs_arrived + 1, tc |-> caller[t].tc, held |-> FALSE]
    <3>1. sent' = Append(sent, o)
      BY <2>3 DEF CBSP!CallBypass, CBSP!Send
    <3>2. PICK c \in TC, n \in Nat : c = caller[t].tc /\ n = cbs_arrived
      BY <1>1, CallerType, BoundsAssumption DEF Shaped, CBSP!TypeOK, CBSP!HistoryType
    <3>3. Last(sent').tc = caller[t].tc
      <4>n. PICK m \in Nat : m = n + 1
        OBVIOUS
      <4>1. o = [frame |-> m, tc |-> c, held |-> FALSE]
        BY <3>2, <4>n
      <4> HIDE DEF o
      <4>2. o \in [frame : Nat, tc : TC, held : BOOLEAN]
        BY <4>1
      <4>3. Last(sent') = o
        BY <2>l, <3>1, <4>2
      <4>4. o.tc = c
        BY <4>1
      <4> QED
        BY <3>2, <4>3, <4>4
    <3>4. ~Free(t)
      BY <2>3 DEF CBSP!CallBypass, Free
    <3>5. caller[t].tc = hand[t].tc
      <4>1. caller[t].tc = Clamp(hand[t].tc) /\ hand[t].tc \in TC
        BY <1>1, <3>4 DEF HandsKept, CallKept, From
      <4> QED
        BY <4>1, ClampKeeps
    <3> QED
      BY <1>1, <3>3, <3>4, <3>5 DEF InWindowCalls
  <2>4. ASSUME CBSP!DrainSend
        PROVE  FALSE
    <3> DEFINE o == [frame |-> cbs_drain.item.frame, tc |-> cbs_drain.item.tc, held |-> TRUE]
    <3>1. sent' = Append(sent, o)
      BY <2>4 DEF CBSP!DrainSend, CBSP!Send
    <3>2. o \in [frame : Nat, tc : TC, held : BOOLEAN]
      BY <1>1, SameNames DEF Shaped, CBSP!TypeOK, CBSP!DrainType, CBSP!ItemType
    <3> QED
      BY <2>l, <3>1, <3>2
  <2> QED
    BY <1>1, <2>2, <2>3, <2>4, Departures
<1>2. Started /\ Shaped /\ HandsKept /\ Timely /\ InWindowCalls /\ [PortNext]_portvars => [Step]_portvars
  BY <1>1
<1> QED
  BY <1>2, AlwaysStarted, AlwaysShaped, AlwaysHands, AlwaysWindowCalls, PTL DEF SwitchSpec, UnshapedInWindow

-----------------------------------------------------------------------------
(***************************************************************************)
(* The counters.  TASCount(tc) is what the TAS engine has counted or will  *)
(* count, of the frames of a class it has handed over; it grows with every *)
(* call of send_fn.                                                        *)
(***************************************************************************)
TASCount(tc) ==
  stats.sent[tc] - Len(wire_queues[tc]) + Cardinality(Bumping(tc)) - OnWire(tc)

Called == [frame : Nat, tc : Nat, held : BOOLEAN]

\* One element more or less.
LEMMA OneMoved ==
  ASSUME NEW S, IsFiniteSet(S), NEW T, NEW x, \A y : y # x => (y \in S <=> y \in T)
  PROVE  /\ Cardinality(S) \in Nat /\ Cardinality(T) \in Nat
         /\ Cardinality(T) = Cardinality(S) + (IF x \in T THEN 1 ELSE 0) - (IF x \in S THEN 1 ELSE 0)
<1>1. Cardinality(S) \in Nat
  BY FS_CardinalityType
<1>2. CASE x \in T
  <2>1. T = S \union {x}
    BY <1>2
  <2>2. IsFiniteSet(T) /\ Cardinality(T) = IF x \in S THEN Cardinality(S) ELSE Cardinality(S) + 1
    BY <2>1, FS_AddElement
  <2> QED
    BY <1>1, <1>2, <2>2
<1>3. CASE x \notin T
  <2>1. T = S \ {x}
    BY <1>3
  <2>2. IsFiniteSet(T) /\ Cardinality(T) = IF x \in S THEN Cardinality(S) - 1 ELSE Cardinality(S)
    BY <2>1, FS_RemoveElement
  <2>3. Cardinality(T) \in Nat
    BY <2>2, FS_CardinalityType
  <2> QED
    BY <1>1, <1>3, <2>2, <2>3
<1> QED
  BY <1>2, <1>3

LEMMA BumpingFinite == \A tc : IsFiniteSet(Bumping(tc))
<1>1. Producers = {"rx"} \union {"drain"}
  BY DEF Producers
<1>2. IsFiniteSet(Producers)
  BY <1>1, FS_Singleton, FS_Union, Zenon
<1> QED
  BY <1>2, FS_Subset DEF Bumping

LEMMA CountTypes ==
  ASSUME TypeOK, NEW tc \in TC
  PROVE  /\ stats.sent[tc] \in Nat /\ Len(wire_queues[tc]) \in Nat
         /\ Cardinality(Bumping(tc)) \in Nat /\ OnWire(tc) \in {0, 1} /\ TASCount(tc) \in Int
<1>1. Cardinality(Bumping(tc)) \in Nat
  BY BumpingFinite, FS_CardinalityType
<1>2. wire_queues[tc] \in Seq([item : Item, seq : Nat])
  BY DEF TypeOK, WireQueueType
<1>3. stats.sent[tc] \in Nat /\ Len(wire_queues[tc]) \in Nat /\ OnWire(tc) \in {0, 1}
  BY <1>2 DEF TypeOK, StatsType, OnWire
<1> QED
  BY <1>1, <1>3 DEF TASCount

\* The terms of the count, and of the next one.
LEMMA CountTerms ==
  ASSUME TypeOK, NEW tc \in TC
  PROVE  \E s, l, m, w \in Int :
           /\ s = stats.sent[tc] /\ l = Len(wire_queues[tc]) /\ m = Cardinality(Bumping(tc))
           /\ w = OnWire(tc) /\ TASCount(tc) = s - l + m - w
           /\ TASCount(tc)' = stats'.sent[tc] - Len(wire_queues'[tc]) + Cardinality(Bumping(tc)') - OnWire(tc)'
<1>1. PICK s \in Int, l \in Int, m \in Int, w \in Int :
        s = stats.sent[tc] /\ l = Len(wire_queues[tc]) /\ m = Cardinality(Bumping(tc)) /\ w = OnWire(tc)
  BY CountTypes
<1>2. TASCount(tc) = s - l + m - w
  BY <1>1 DEF TASCount
<1>3. TASCount(tc)' = stats'.sent[tc] - Len(wire_queues'[tc]) + Cardinality(Bumping(tc)') - OnWire(tc)'
  BY DEF TASCount
<1> QED
  BY <1>1, <1>2, <1>3

\* What record_sent does to the counter of a class.
LEMMA SentEffect ==
  ASSUME TypeOK, NEW c \in TC \union RawTC, NEW q, RecordSent(c, q), NEW tc \in TC
  PROVE  stats'.sent[tc] = stats.sent[tc] + (IF tc = c THEN 1 ELSE 0)
<1>1. stats'.sent = [stats.sent EXCEPT ![c] = @ + 1]
  BY DEF TypeOK, StatsType, RecordSent
<1>2. stats.sent \in [TC \union RawTC -> Nat]
  BY DEF TypeOK, StatsType
<1> QED
  BY <1>1, <1>2

\* A producer enters a call of send_fn: from then on the count includes the frame.
LEMMA CountedSend ==
  ASSUME TypeOK, NEW tc \in TC, NEW o \in Called, out' = Append(out, o), NEW t \in Producers,
         thread[t].pc \notin {"bump", "store", "sent"},
         thread'[t].pc = "sent", thread'[t].item.tc = o.tc,
         \A u \in Producers : u # t => thread'[u] = thread[u],
         UNCHANGED <<stats, wire_queues, wire>>
  PROVE  /\ out' = Append(out, o)
         /\ TASCount(tc)' = TASCount(tc) + (IF o.tc = tc THEN 1 ELSE 0)
<1>k. PICK k \in Int : k = IF o.tc = tc THEN 1 ELSE 0
  OBVIOUS
<1>1. Cardinality(Bumping(tc)') = Cardinality(Bumping(tc)) + k
  <2>1. \A u : u # t => (u \in Bumping(tc) <=> u \in Bumping(tc)')
    BY DEF Bumping
  <2>2. t \notin Bumping(tc) /\ (t \in Bumping(tc)' <=> o.tc = tc)
    BY DEF Bumping
  <2> QED
    BY <1>k, <2>1, <2>2, BumpingFinite, OneMoved
<1>2. OnWire(tc)' = OnWire(tc) /\ Len(wire_queues'[tc]) = Len(wire_queues[tc])
        /\ stats'.sent[tc] = stats.sent[tc]
  BY DEF OnWire
<1>p. PICK s, l, m, w \in Int :
        /\ s = stats.sent[tc] /\ l = Len(wire_queues[tc]) /\ m = Cardinality(Bumping(tc))
        /\ w = OnWire(tc) /\ TASCount(tc) = s - l + m - w
        /\ TASCount(tc)' = stats'.sent[tc] - Len(wire_queues'[tc]) + Cardinality(Bumping(tc)') - OnWire(tc)'
    BY CountTerms
<1>3. TASCount(tc)' = s - l + (m + k) - w
  BY <1>1, <1>2, <1>p
<1>4. s - l + (m + k) - w = (s - l + m - w) + k
  OBVIOUS
<1> QED
  BY <1>3, <1>4, <1>p, <1>k

LEMMA CountSteps ==
  ASSUME Given, Confined, NEW tc \in TC, [Next]_vars
  PROVE  \/ out' = out /\ TASCount(tc)' = TASCount(tc)
         \/ \E o \in Called : /\ out' = Append(out, o)
                              /\ TASCount(tc)' = TASCount(tc) + (IF o.tc = tc THEN 1 ELSE 0)
<1> USE DEF Given
<1>o. ASSUME NEW i \in Item
      PROVE  Outer(i) \in Called /\ Outer(i).tc = i.tc
  BY DEF Outer, Item, Called
<1>s. ASSUME NEW s \in Seq([item : Item, seq : Nat]), NEW w \in [item : Item, seq : Nat]
      PROVE  Len(Append(s, w)) = Len(s) + 1
  OBVIOUS
<1>1. ASSUME NEW c \in RawTC, EnqueueBypass(c)
      PROVE  \E o \in Called : /\ out' = Append(out, o)
                              /\ TASCount(tc)' = TASCount(tc) + (IF o.tc = tc THEN 1 ELSE 0)
  <2>o. PICK o : o = [frame |-> arrived + 1, tc |-> c, held |-> FALSE]
    OBVIOUS
  <2>1. o \in Called /\ o.tc = c
    BY <2>o, BoundsAssumption DEF Called, TypeOK, HistoryType
  <2>2. out' = Append(out, o) /\ UNCHANGED <<stats, wire_queues, wire>>
    BY <1>1, <2>o, BypassEffect DEF EnqueueBypass
  <2>3. /\ thread["rx"].pc = "idle" /\ thread'["rx"].pc = "sent" /\ thread'["rx"].item.tc = c
        /\ \A u \in Producers : u # "rx" => thread'[u] = thread[u]
    <3>1. Calls("rx", [NoItem EXCEPT !.frame = arrived + 1, !.tc = c]) /\ thread["rx"].pc = "idle"
      BY <1>1 DEF EnqueueBypass, Arrive
    <3>2. "rx" \in Producers /\ ThreadType
      BY DEF Producers, TypeOK
    <3>3. [NoItem EXCEPT !.frame = arrived + 1, !.tc = c].tc = c
      BY DEF NoItem
    <3> QED
      BY <3>1, <3>2, <3>3, CallsShape
  <2>4. "rx" \in Producers
    BY DEF Producers
  <2> QED
    BY <2>1, <2>2, <2>3, <2>4, CountedSend
<1>2. CASE EnqueueSend
  <2> DEFINE i == thread["rx"].item
  <2>1. /\ i \in Item /\ out' = Append(out, Outer(i))
        /\ UNCHANGED <<stats, wire_queues, wire>>
    BY <1>2, ThreadShape DEF EnqueueSend, Send, Outer, wires
  <2>2. /\ thread["rx"].pc = "open" /\ thread'["rx"].pc = "sent" /\ thread'["rx"].item = i
        /\ "rx" \in Producers /\ \A u \in Producers : u # "rx" => thread'[u] = thread[u]
    BY <1>2, ThreadShape, CallsShape DEF EnqueueSend, TypeOK
  <2> HIDE DEF i
  <2> QED
    BY <1>o, <2>1, <2>2, CountedSend
<1>3. ASSUME NEW i \in batch.ready, DrainSend(i)
      PROVE  \E o \in Called : /\ out' = Append(out, o)
                              /\ TASCount(tc)' = TASCount(tc) + (IF o.tc = tc THEN 1 ELSE 0)
  <2>1. /\ i \in Item /\ out' = Append(out, Outer(i)) /\ UNCHANGED <<stats, wire_queues, wire>>
    BY <1>3, DrainSendEffect DEF DrainSend
  <2>2. /\ thread["drain"].pc = "batch" /\ thread'["drain"].pc = "sent"
        /\ thread'["drain"].item.tc = i.tc
        /\ "drain" \in Producers /\ \A u \in Producers : u # "drain" => thread'[u] = thread[u]
    <3>1. Calls("drain", [i EXCEPT !.at = 0]) /\ thread["drain"].pc = "batch"
      BY <1>3 DEF DrainSend, TakeReady
    <3>2. "drain" \in Producers /\ ThreadType /\ [i EXCEPT !.at = 0].tc = i.tc
      BY <2>1 DEF Producers, TypeOK, Item
    <3> QED
      BY <3>1, <3>2, CallsShape
  <2> QED
    BY <1>o, <2>1, <2>2, CountedSend
<1>4. ASSUME NEW t \in Producers, WireAppend(t)
      PROVE  out' = out /\ TASCount(tc)' = TASCount(tc)
  <2> DEFINE i == thread[t].item
             w == [item |-> i, seq |-> thread[t].seq]
  <2>1. /\ thread[t].pc = "append" /\ thread'[t].pc = "bump" /\ thread'[t].item = i
        /\ \A u \in Producers : u # t => thread'[u] = thread[u]
    BY <1>4, ThreadShape DEF WireAppend, Goto
  <2>2. /\ i \in Item /\ i.tc \in TC /\ w \in [item : Item, seq : Nat]
        /\ wire_queues' = [wire_queues EXCEPT ![i.tc] = Append(@, w)]
        /\ UNCHANGED <<out, stats, wire>>
    BY <1>4, ThreadFacts DEF WireAppend, TypeOK, ThreadType
  <2> HIDE DEF i, w
  <2>3. Len(wire_queues'[tc]) = Len(wire_queues[tc]) + (IF i.tc = tc THEN 1 ELSE 0)
    <3>1. wire_queues \in [TC -> Seq([item : Item, seq : Nat])]
      BY DEF TypeOK, WireQueueType
    <3>2. CASE i.tc = tc
      BY <1>s, <2>2, <3>1, <3>2
    <3>3. CASE i.tc # tc
      BY <2>2, <3>1, <3>3
    <3> QED
      BY <3>2, <3>3
  <2>4. Cardinality(Bumping(tc)') = Cardinality(Bumping(tc)) + (IF i.tc = tc THEN 1 ELSE 0)
    <3>1. \A u : u # t => (u \in Bumping(tc) <=> u \in Bumping(tc)')
      BY <2>1 DEF Bumping
    <3>2. t \notin Bumping(tc) /\ (t \in Bumping(tc)' <=> i.tc = tc)
      BY <2>1 DEF Bumping
    <3> QED
      BY <3>1, <3>2, BumpingFinite, OneMoved
  <2>5. OnWire(tc)' = OnWire(tc)
    BY <2>2 DEF OnWire
  <2>p. PICK e, l, m, b \in Int :
          /\ e = stats.sent[tc] /\ l = Len(wire_queues[tc]) /\ m = Cardinality(Bumping(tc))
          /\ b = OnWire(tc) /\ TASCount(tc) = e - l + m - b
          /\ TASCount(tc)' = stats'.sent[tc] - Len(wire_queues'[tc]) + Cardinality(Bumping(tc)') - OnWire(tc)'
    BY CountTerms
  <2>k. PICK k \in Int : k = IF i.tc = tc THEN 1 ELSE 0
    OBVIOUS
  <2>6. TASCount(tc)' = e - (l + k) + (m + k) - b
    BY <2>2, <2>3, <2>4, <2>5, <2>p, <2>k
  <2>7. e - (l + k) + (m + k) - b = e - l + m - b
    OBVIOUS
  <2> QED
    BY <2>2, <2>6, <2>7, <2>p
<1>5. ASSUME NEW t \in Producers, BumpStore(t) \/ Counted(t)
      PROVE  out' = out /\ TASCount(tc)' = TASCount(tc)
  <2>i. PICK i \in Item : i = thread[t].item
    BY ThreadFacts DEF TypeOK
  <2>k. PICK k \in Int : k = IF i.tc = tc THEN 1 ELSE 0
    OBVIOUS
  <2>1. /\ thread[t].pc \in {"store", "sent"} /\ thread'[t].pc \in {"idle", "batch"}
        /\ i.tc \in TC \union RawTC /\ \A u \in Producers : u # t => thread'[u] = thread[u]
    <3>1. Counts(t) /\ thread[t].pc \in {"store", "sent"}
      BY <1>5 DEF BumpStore, Counted
    <3> QED
      BY <2>i, <3>1, CountsShape, ThreadFacts DEF TypeOK
  <2>2. RecordSent(i.tc, t = "drain") /\ UNCHANGED <<out, wire_queues, wire>>
    BY <1>5, <2>i DEF BumpStore, Counted, Counts, wires
  <2>3. stats'.sent[tc] = stats.sent[tc] + k
    BY <2>1, <2>2, <2>k, SentEffect
  <2>4. Cardinality(Bumping(tc)') = Cardinality(Bumping(tc)) - k
    <3>1. \A u : u # t => (u \in Bumping(tc) <=> u \in Bumping(tc)')
      BY <2>1 DEF Bumping
    <3>2. t \notin Bumping(tc)' /\ (t \in Bumping(tc) <=> i.tc = tc)
      BY <2>1, <2>i DEF Bumping
    <3> QED
      BY <2>k, <3>1, <3>2, BumpingFinite, OneMoved
  <2>5. OnWire(tc)' = OnWire(tc) /\ Len(wire_queues'[tc]) = Len(wire_queues[tc])
    BY <2>2, CountTypes DEF OnWire
  <2>p. PICK e, l, m, b \in Int :
          /\ e = stats.sent[tc] /\ l = Len(wire_queues[tc]) /\ m = Cardinality(Bumping(tc))
          /\ b = OnWire(tc) /\ TASCount(tc) = e - l + m - b
          /\ TASCount(tc)' = stats'.sent[tc] - Len(wire_queues'[tc]) + Cardinality(Bumping(tc)') - OnWire(tc)'
    BY CountTerms
  <2>6. TASCount(tc)' = (e + k) - l + (m - k) - b
    BY <2>3, <2>4, <2>5, <2>p
  <2>7. (e + k) - l + (m - k) - b = e - l + m - b
    OBVIOUS
  <2> QED
    BY <2>2, <2>6, <2>7, <2>p
<1>6. CASE WireTake
  <2> DEFINE q == wire.best
             s == wire_queues[q]
  <2>1. /\ q \in TC /\ s # << >> /\ s \in Seq([item : Item, seq : Nat])
        /\ wire_queues' = [wire_queues EXCEPT ![q] = Tail(s)] /\ UNCHANGED <<thread, out>>
    BY <1>6, TakeEffect
  <2>2. wire.pc = "look" /\ wire'.pc = "busy" /\ wire'.item = Head(s).item /\ stats' = stats
    BY <1>6 DEF WireTake, NoWire
  <2>3. Head(s).item.tc = q
    <3>1. Head(s) = s[1] /\ 1 \in DOMAIN s
      BY <2>1
    <3> QED
      BY <2>1, <3>1 DEF TypeOK, WireQueueType
  <2> HIDE DEF q, s
  <2>4. Len(Tail(s)) = Len(s) - 1 /\ Len(s) \in Nat
    BY <2>1
  <2>k. PICK k \in Int : k = IF q = tc THEN 1 ELSE 0
    OBVIOUS
  <2>5. Len(wire_queues'[tc]) = Len(wire_queues[tc]) - k
    <3>1. wire_queues \in [TC -> Seq([item : Item, seq : Nat])]
      BY DEF TypeOK, WireQueueType
    <3>2. CASE q = tc
      BY <2>1, <2>4, <2>k, <3>1, <3>2 DEF s
    <3>3. CASE q # tc
      BY <2>1, <2>k, <3>1, <3>3, CountTypes
    <3> QED
      BY <3>2, <3>3
  <2>6. OnWire(tc)' = OnWire(tc) + k
    BY <2>2, <2>3, <2>k DEF OnWire
  <2>7. Cardinality(Bumping(tc)') = Cardinality(Bumping(tc)) /\ stats'.sent[tc] = stats.sent[tc]
    <3>1. Bumping(tc)' = Bumping(tc)
      BY <2>1 DEF Bumping
    <3> QED
      BY <2>2, <3>1, CountTypes
  <2>p. PICK e, l, m, b \in Int :
          /\ e = stats.sent[tc] /\ l = Len(wire_queues[tc]) /\ m = Cardinality(Bumping(tc))
          /\ b = OnWire(tc) /\ TASCount(tc) = e - l + m - b
          /\ TASCount(tc)' = stats'.sent[tc] - Len(wire_queues'[tc]) + Cardinality(Bumping(tc)') - OnWire(tc)'
    BY CountTerms
  <2>8. TASCount(tc)' = e - (l - k) + m - (b + k)
    BY <2>5, <2>6, <2>7, <2>p
  <2>9. e - (l - k) + m - (b + k) = e - l + m - b
    OBVIOUS
  <2> QED
    BY <2>1, <2>8, <2>9, <2>p
<1>7. CASE WireSend
  <2> DEFINE i == wire.item
  <2>1. /\ i \in Item /\ out' = Append(out, Outer(i)) /\ UNCHANGED <<wire_queues, thread>>
    BY <1>7, WireSendEffect
  <2>2. wire.pc = "busy" /\ wire'.pc = "idle" /\ stats' = stats
    BY <1>7 DEF WireSend, NoWire
  <2>3. OnWire(tc) = (IF i.tc = tc THEN 1 ELSE 0) /\ OnWire(tc)' = 0
    BY <2>2 DEF OnWire
  <2> HIDE DEF i
  <2>4. Bumping(tc)' = Bumping(tc)
    BY <2>1 DEF Bumping
  <2>5. TASCount(tc)' = TASCount(tc) + (IF i.tc = tc THEN 1 ELSE 0)
    BY <2>1, <2>2, <2>3, <2>4, CountTypes DEF TASCount
  <2> QED
    BY <1>o, <2>1, <2>5
<1>8. ASSUME \/ \E c \in RawTC : EnqueueSample(c)
             \/ EnqueueJudge \/ EnqueueHold \/ EnqueueCount \/ EnqueueLoadSeq
             \/ \E t \in Producers : BumpLoad(t)
             \/ DrainSample \/ DrainScan \/ DrainDone \/ \E i \in batch.ready : DrainLoadSeq(i)
      PROVE  out' = out /\ TASCount(tc)' = TASCount(tc)
  <2>1. stats'.sent = stats.sent /\ UNCHANGED <<out, wire_queues, wire>>
    BY <1>8 DEF EnqueueSample, Arrive, EnqueueJudge, EnqueueHold, EnqueueCount, EnqueueLoadSeq, BumpLoad,
       DrainSample, DrainScan, DrainDone, DrainLoadSeq, TakeReady, wires, TypeOK, StatsType
  <2>2. \A u \in Producers :
          /\ thread'[u].pc \in {"bump", "store", "sent"} <=> thread[u].pc \in {"bump", "store", "sent"}
          /\ thread'[u].pc \in {"bump", "store", "sent"} => thread'[u].item = thread[u].item
    <3>1. CASE \E c \in RawTC : EnqueueSample(c)
      BY <3>1, ThreadShape DEF EnqueueSample, Arrive, Producers
    <3>2. CASE EnqueueJudge
      BY <3>2, ThreadShape DEF EnqueueJudge, NoThread, Producers
    <3>3. CASE EnqueueHold \/ EnqueueCount
      BY <3>3, ThreadShape DEF EnqueueHold, EnqueueCount, Goto, NoThread, Producers
    <3>4. CASE EnqueueLoadSeq
      BY <3>4, ThreadShape DEF EnqueueLoadSeq, Producers
    <3>5. CASE \E t \in Producers : BumpLoad(t)
      BY <3>5, ThreadShape DEF BumpLoad
    <3>6. CASE DrainSample \/ DrainScan \/ DrainDone
      BY <3>6, ThreadShape DEF DrainSample, DrainScan, DrainDone, Goto, NoThread, Producers
    <3>7. CASE \E i \in batch.ready : DrainLoadSeq(i)
      BY <3>7, ThreadShape DEF DrainLoadSeq, TakeReady, Producers
    <3> QED
      BY <1>8, <3>1, <3>2, <3>3, <3>4, <3>5, <3>6, <3>7
  <2>3. Bumping(tc)' = Bumping(tc)
    BY <2>2 DEF Bumping
  <2> QED
    BY <2>1, <2>3 DEF TASCount, OnWire
<1>9. ASSUME \/ WireSample \/ WireSkip \/ WireOffset \/ WireJudge \/ WireNothing
             \/ (\E c \in Configs : UpdateConfig(c)) \/ Stop \/ Tick \/ UNCHANGED vars
      PROVE  out' = out /\ TASCount(tc)' = TASCount(tc)
  <2>1. UNCHANGED <<stats, out, wire_queues, thread>>
    BY <1>9 DEF WireSample, WireSkip, WireOffset, WireJudge, WireNothing, UpdateConfig, Stop, Tick,
       locals, wires, vars
  <2>2. OnWire(tc)' = OnWire(tc)
    <3>1. CASE WireSample
      BY <3>1 DEF WireSample, NoWire, OnWire
    <3>2. CASE WireSkip \/ WireOffset
      BY <3>2 DEF WireSkip, WireOffset, TypeOK, WireType, OnWire
    <3>3. CASE WireJudge
      BY <3>3 DEF WireJudge, TypeOK, WireType, OnWire
    <3>4. CASE WireNothing
      BY <3>4 DEF WireNothing, NoWire, OnWire
    <3>5. CASE Tick
      BY <3>5 DEF Tick, TypeOK, WireType, OnWire
    <3>6. CASE (\E c \in Configs : UpdateConfig(c)) \/ Stop \/ UNCHANGED vars
      BY <3>6 DEF UpdateConfig, Stop, locals, vars, OnWire
    <3> QED
      BY <1>9, <3>1, <3>2, <3>3, <3>4, <3>5, <3>6
  <2> QED
    BY <2>1, <2>2 DEF TASCount, Bumping
<1> QED
  BY <1>1, <1>2, <1>3, <1>4, <1>5, <1>6, <1>7, <1>8, <1>9, Steps DEF Still

\* What the CBS engine has counted of a class, and the calls it has yet to count.
CBSCount(tc) == cbs_stats.sent[tc] + cbs_stats.dropped[tc] + Cardinality(Calling(tc))

Agree == \A tc \in TC : TASCount(tc) = CBSCount(tc)

LEMMA CallingFinite == \A tc : IsFiniteSet(Calling(tc))
  BY ThreadsFinite, FS_Subset DEF Calling

LEMMA CBSCountTypes ==
  ASSUME Shaped, NEW tc \in TC
  PROVE  /\ cbs_stats \in [sent : [TC -> Nat], queued : [TC -> Nat], dropped : [TC -> Nat]]
         /\ cbs_stats.sent[tc] \in Nat /\ cbs_stats.dropped[tc] \in Nat
         /\ Cardinality(Calling(tc)) \in Nat
<1>1. cbs_stats \in [sent : [TC -> Nat], queued : [TC -> Nat], dropped : [TC -> Nat]]
  BY SameNames DEF Shaped, CBSP!TypeOK, CBSP!StatsType
<1>2. Cardinality(Calling(tc)) \in Nat
  BY CallingFinite, FS_CardinalityType
<1> QED
  BY <1>1, <1>2

\* A call ends under the class of the frame in hand, counting it as sent or dropped.
LEMMA CallCounts ==
  ASSUME Shaped, NEW t \in Threads, CBSP!CallBypass(t) \/ CBSP!CallRefuse(t) \/ CBSP!CallSignal(t),
         NEW tc \in TC
  PROVE  cbs_stats'.sent[tc] + cbs_stats'.dropped[tc]
           = cbs_stats.sent[tc] + cbs_stats.dropped[tc] + (IF caller[t].tc = tc THEN 1 ELSE 0)
<1>c. PICK c \in TC : c = caller[t].tc
  BY CallerType
<1>s. PICK a \in Nat, b \in Nat : a = cbs_stats.sent[tc] /\ b = cbs_stats.dropped[tc]
  BY CBSCountTypes
<1>k. PICK k \in Int : k = IF c = tc THEN 1 ELSE 0
  OBVIOUS
<1>1. CASE CBSP!CallBypass(t) \/ CBSP!CallSignal(t)
  <2>1. CBSP!RecordSent(c, FALSE) \/ CBSP!RecordSent(c, TRUE)
    BY <1>1, <1>c DEF CBSP!CallBypass, CBSP!CallSignal
  <2>2. cbs_stats'.sent = [cbs_stats.sent EXCEPT ![c] = @ + 1] /\ cbs_stats'.dropped = cbs_stats.dropped
    BY <2>1, CBSCountTypes DEF CBSP!RecordSent
  <2>3. cbs_stats'.sent[tc] = a + k /\ cbs_stats'.dropped[tc] = b
    BY <1>s, <1>k, <2>2, CBSCountTypes
  <2>4. (a + k) + b = a + b + k
    OBVIOUS
  <2> QED
    BY <1>c, <1>s, <1>k, <2>3, <2>4
<1>2. CASE CBSP!CallRefuse(t)
  <2>1. cbs_stats' = [cbs_stats EXCEPT !.dropped[c] = @ + 1]
    BY <1>2, <1>c DEF CBSP!CallRefuse
  <2>2. cbs_stats'.dropped = [cbs_stats.dropped EXCEPT ![c] = @ + 1] /\ cbs_stats'.sent = cbs_stats.sent
    BY <2>1, CBSCountTypes
  <2>3. cbs_stats'.sent[tc] = a /\ cbs_stats'.dropped[tc] = b + k
    BY <1>s, <1>k, <2>2, CBSCountTypes
  <2>4. a + (b + k) = a + b + k
    OBVIOUS
  <2> QED
    BY <1>c, <1>s, <1>k, <2>3, <2>4
<1> QED
  BY <1>1, <1>2

LEMMA AgreeStep ==
  ASSUME Started, Shaped, HandsKept, Agree, config.enabled \/ RawTC \subseteq TC, [PortNext]_portvars
  PROVE  Agree'
<1> SUFFICES ASSUME NEW tc \in TC
             PROVE  TASCount(tc)' = CBSCount(tc)'
  BY DEF Agree
<1>n. /\ [Next]_vars /\ Given /\ Confined
      /\ TASCount(tc) = CBSCount(tc)
  BY TASStep DEF Started, Agree
<1>p. PICK a \in Nat, b \in Nat, c \in Nat :
        a = cbs_stats.sent[tc] /\ b = cbs_stats.dropped[tc] /\ c = Cardinality(Calling(tc))
  BY CBSCountTypes
<1>q. TASCount(tc) = a + b + c
  BY <1>n, <1>p DEF CBSCount
<1>1. CASE out' # out
  <2>1. PICK t \in Threads : \E o \in Handed, ticks \in Sizes :
           /\ Free(t) /\ out' = Append(out, o) /\ hand' = [hand EXCEPT ![t] = o]
           /\ CBSP!CallStart(t, o.tc, ticks)
    BY <1>1, Handover
  <2>2. PICK o \in Handed : \E ticks \in Sizes :
           /\ out' = Append(out, o) /\ hand' = [hand EXCEPT ![t] = o]
           /\ CBSP!CallStart(t, o.tc, ticks)
    BY <2>1
  <2>k. PICK k \in Int : k = IF o.tc = tc THEN 1 ELSE 0
    OBVIOUS
  <2>3. TASCount(tc)' = TASCount(tc) + k
    <3>1. PICK p \in Called : out' = Append(out, p) /\ TASCount(tc)' = TASCount(tc) + (IF p.tc = tc THEN 1 ELSE 0)
      BY <1>1, <1>n, CountSteps
    <3>2. o \in Called /\ out \in Seq(Called)
      <4>1. o \in Called
        BY ClassFacts, BoundsAssumption DEF Handed, Called
      <4>2. out \in Seq(Called)
        BY <1>n DEF Called, Given, TypeOK, HistoryType
      <4> QED
        BY <4>1, <4>2
    <3>3. \A x \in Called : Last(Append(out, x)) = x
      BY <3>2, AppendProperties DEF Last
    <3>4. p = o
      BY <2>2, <3>1, <3>2, <3>3
    <3> QED
      BY <2>k, <3>1, <3>4
  <2>4. /\ caller'[t].pc # "idle" /\ \A u \in Threads : u # t => caller'[u] = caller[u]
        /\ UNCHANGED cbs_stats
    <3>1. o.tc \in Nat
      BY BoundsAssumption, ClassFacts DEF Handed
    <3> QED
      BY <2>2, <3>1, CallStarts
  <2>5. hand'[t] = o /\ \A u \in Threads : u # t => hand'[u] = hand[u]
    BY <2>2 DEF HandsKept
  <2>6. Cardinality(Calling(tc)') = c + k
    <3>1. \A u : u # t => (u \in Calling(tc) <=> u \in Calling(tc)')
      BY <2>4, <2>5 DEF Calling, Free
    <3>2. t \notin Calling(tc) /\ (t \in Calling(tc)' <=> o.tc = tc)
      BY <2>1, <2>4, <2>5 DEF Calling, Free
    <3> QED
      BY <1>p, <2>k, <3>1, <3>2, CallingFinite, OneMoved
  <2>7. CBSCount(tc)' = a + b + (c + k)
    BY <1>p, <2>4, <2>6 DEF CBSCount
  <2>8. a + b + (c + k) = a + b + c + k
    OBVIOUS
  <2> QED
    BY <1>q, <2>3, <2>7, <2>8
<1>2. CASE out' = out
  <2>1. TASCount(tc)' = TASCount(tc)
    <3>1. ASSUME NEW p \in Called, out' = Append(out, p)
          PROVE  FALSE
      <4>1. out \in Seq(Called)
        BY <1>n DEF Called, Given, TypeOK, HistoryType
      <4>2. Len(Append(out, p)) = Len(out) + 1 /\ Len(out) \in Nat
        BY <4>1
      <4> QED
        BY <1>2, <3>1, <4>2
    <3> QED
      BY <1>n, <3>1, CountSteps
  <2>2. UNCHANGED hand
    BY <1>2, Onwards
  <2>3. ASSUME NEW t \in Threads, CBSP!CallBypass(t) \/ CBSP!CallRefuse(t) \/ CBSP!CallSignal(t)
        PROVE  CBSCount(tc)' = CBSCount(tc)
    <3>k. PICK k \in Int : k = IF hand[t].tc = tc THEN 1 ELSE 0
      OBVIOUS
    <3>1. /\ ~Free(t) /\ caller'[t].pc = "idle"
          /\ \A u \in Threads : u # t => caller'[u] = caller[u]
      <4>1. caller'[t] = CBSP!NoCall
        BY <2>3, CallerType DEF CBSP!CallBypass, CBSP!CallRefuse, CBSP!CallSignal
      <4>2. CBSP!NoCall.pc = "idle"
        BY DEF CBSP!NoCall
      <4>3. ~Free(t) /\ \A u \in Threads : u # t => caller'[u] = caller[u]
        BY <2>3, CallGoesOn
      <4> QED
        BY <4>1, <4>2, <4>3
    <3>2. caller[t].tc = hand[t].tc
      <4>1. caller[t].tc = Clamp(hand[t].tc) /\ hand[t].tc \in TC
        BY <3>1 DEF HandsKept, CallKept, From, Handed
      <4> QED
        BY <4>1, ClampKeeps
    <3>3. cbs_stats'.sent[tc] + cbs_stats'.dropped[tc] = a + b + k
      BY <1>p, <2>3, <3>2, <3>k, CallCounts
    <3>4. Cardinality(Calling(tc)') = c - k
      <4>1. \A u : u # t => (u \in Calling(tc) <=> u \in Calling(tc)')
        BY <2>2, <3>1 DEF Calling, Free
      <4>2. t \notin Calling(tc)' /\ (t \in Calling(tc) <=> hand[t].tc = tc)
        BY <3>1 DEF Calling, Free
      <4> QED
        BY <1>p, <3>k, <4>1, <4>2, CallingFinite, OneMoved
    <3>5. CBSCount(tc)' = (a + b + k) + (c - k)
      BY <3>3, <3>4 DEF CBSCount
    <3>6. (a + b + k) + (c - k) = a + b + c
      OBVIOUS
    <3> QED
      BY <1>p, <3>5, <3>6 DEF CBSCount
  <2>4. ASSUME NEW t \in Threads, CBSP!CallCheck(t) \/ CBSP!CallAppend(t)
        PROVE  CBSCount(tc)' = CBSCount(tc)
    <3>1. UNCHANGED cbs_stats
      BY <2>4 DEF CBSP!CallCheck, CBSP!CallAppend
    <3>c. ~Free(t) /\ \A u \in Threads : u # t => caller'[u] = caller[u]
      BY <2>4, CallGoesOn
    <3>p. caller'[t].pc # "idle"
      <4>1. CBSP!CallAppend(t) => caller'[t].pc = "signal"
        BY CallerType DEF CBSP!CallAppend
      <4> QED
        BY <2>4, <4>1, Decides
    <3>2. caller'[t].pc # "idle" /\ ~Free(t) /\ \A u \in Threads : u # t => caller'[u] = caller[u]
      BY <3>c, <3>p
    <3>3. Calling(tc)' = Calling(tc)
      BY <2>2, <3>2 DEF Calling, Free
    <3> QED
      BY <3>1, <3>3 DEF CBSCount
  <2>5. CASE UNCHANGED <<caller, cbs_stats>>
    <3>1. Calling(tc)' = Calling(tc)
      BY <2>2, <2>5 DEF Calling, Free
    <3> QED
      BY <1>q, <1>p, <2>1, <2>5, <3>1 DEF CBSCount
  <2>6. ASSUME NEW t \in Threads, HandOver(t)
        PROVE  UNCHANGED <<caller, cbs_stats>>
    BY <1>2, <2>6 DEF HandOver, cbsvars
  <2>7. ASSUME UNCHANGED portvars
        PROVE  UNCHANGED <<caller, cbs_stats>>
    BY <2>7 DEF portvars, cbsvars
  <2> QED
    BY <1>n, <2>1, <2>3, <2>4, <2>5, <2>6, <2>7, PortSteps, LoopLeavesCalls
<1> QED
  BY <1>1, <1>2

LEMMA AgreeInit == PortInit => Agree
<1> SUFFICES ASSUME PortInit, NEW tc \in TC PROVE TASCount(tc) = CBSCount(tc)
  BY DEF Agree
<1>1. Init /\ CBSP!Init
  BY RunsCBS, SameNames DEF PortInit, CBS!Init, CBSP!Init, CBS!NoCall, CBSP!NoCall, CBS!NoItem, CBSP!NoItem
<1>2. stats.sent[tc] = 0 /\ Len(wire_queues[tc]) = 0
  BY <1>1 DEF Init
<1>3. Bumping(tc) = {} /\ OnWire(tc) = 0
  BY <1>1 DEF Init, Bumping, NoThread, OnWire, NoWire
<1>4. cbs_stats.sent[tc] = 0 /\ cbs_stats.dropped[tc] = 0
  BY <1>1, SameNames DEF CBSP!Init
<1>5. Calling(tc) = {}
  BY <1>1 DEF CBSP!Init, CBSP!NoCall, Calling, Free
<1> QED
  BY <1>2, <1>3, <1>4, <1>5, FS_EmptySet DEF TASCount, CBSCount

\* However the threads of the two engines interleave, and although each engine counts
\* after it has let go of a frame: what the TAS engine counts as sent, the CBS engine
\* has counted as sent or dropped, but for the frames on the wire and in a call.
THEOREM CountersAlwaysAgree == SwitchSpec => []CountersAgree
<1> DEFINE AgreeIf == config.enabled \/ RawTC \subseteq TC => Agree
<1>1. PortInit => AgreeIf
  BY AgreeInit
<1>2. Started /\ Shaped /\ HandsKept /\ AgreeIf /\ [PortNext]_portvars => AgreeIf'
  BY AgreeStep, StaysSo
<1>3. Started /\ Shaped /\ AgreeIf => CountersAgree
  <2> SUFFICES ASSUME Started, Shaped, Agree, NEW tc \in TC
               PROVE  stats.sent[tc] = cbs_stats.sent[tc] + cbs_stats.dropped[tc] + Uncounted(tc)
    BY DEF CountersAgree
  <2>0. TypeOK
    BY DEF Started, Given
  <2>1. PICK s \in Nat, l \in Nat, m \in Nat, w \in Nat :
          s = stats.sent[tc] /\ l = Len(wire_queues[tc]) /\ m = Cardinality(Bumping(tc)) /\ w = OnWire(tc)
    BY <2>0, CountTypes
  <2>2. PICK a \in Nat, b \in Nat, c \in Nat :
          a = cbs_stats.sent[tc] /\ b = cbs_stats.dropped[tc] /\ c = Cardinality(Calling(tc))
    BY CBSCountTypes
  <2>3. s - l + m - w = a + b + c
    BY <2>1, <2>2 DEF Agree, TASCount, CBSCount
  <2>4. Uncounted(tc) = l - m + w + c
    BY <2>1, <2>2 DEF Uncounted
  <2>5. s = a + b + (l - m + w + c)
    BY <2>3
  <2> QED
    BY <2>1, <2>2, <2>4, <2>5
<1> HIDE DEF AgreeIf
<1> QED
  BY <1>1, <1>2, <1>3, AlwaysStarted, AlwaysShaped, AlwaysHands, PTL DEF SwitchSpec

-----------------------------------------------------------------------------
(***************************************************************************)
(* The egress contract of the two engines in series.  Frames go from the   *)
(* TAS engine (Inside) into the calls (Inner), from there into the CBS     *)
(* engine (K, by number) or out.                                           *)
(***************************************************************************)
Inner == {t \in Threads : caller[t].pc \in {"check", "bypass", "shaped"}}
K == CBSP!Inside

LEMMA SameInside == CBS!Inside = K
<1>1. \A i : CBS!Outer(i) = CBSP!Outer(i)
  BY DEF CBS!Outer, CBSP!Outer
<1>2. CBS!QueueFrames = CBSP!QueueFrames
  BY <1>1, SameNames DEF CBS!QueueFrames, CBSP!QueueFrames
<1>3. CBS!PortFrames = CBSP!PortFrames
  BY <1>1 DEF CBS!PortFrames, CBSP!PortFrames
<1> QED
  BY <1>2, <1>3 DEF K, CBS!Inside, CBSP!Inside

BehindIs ==
  \A b : b \in Behind <=> (\E t \in Inner : b = hand[t]) \/ (\E i \in K : b = relayed[i.frame])

LEMMA BehindFacts == BehindIs
  BY SameInside DEF Behind, BehindIs, Inner

LEMMA BehindFactsNext == BehindIs'
  BY BehindFacts, PTL

(***************************************************************************)
(* What a step of the port does to the frames behind the TAS engine.       *)
(***************************************************************************)
Rest == Inner' = Inner /\ K' = K /\ UNCHANGED <<hand, relayed, cbs_arrived, sent, refused>>

Enters(t, o) ==
  /\ t \notin Inner /\ Inner' = Inner \union {t} /\ K' = K
  /\ out' = Append(out, o) /\ hand' = [hand EXCEPT ![t] = o]
  /\ UNCHANGED <<relayed, cbs_arrived, sent, refused>>

Numbers(t) ==
  /\ t \in Inner /\ Inner' = Inner \ {t}
  /\ cbs_arrived' = cbs_arrived + 1 /\ relayed' = Append(relayed, hand[t])
  /\ UNCHANGED <<vars, hand>>

PassesBy(t) ==
  /\ Numbers(t) /\ caller[t].pc = "bypass" /\ K' = K /\ UNCHANGED refused
  /\ sent' = Append(sent, [frame |-> cbs_arrived + 1, tc |-> caller[t].tc, held |-> FALSE])

IsRefused(t) ==
  /\ Numbers(t) /\ K' = K /\ UNCHANGED sent /\ refused' = refused \union {cbs_arrived + 1}

IsQueued(t) ==
  /\ Numbers(t) /\ caller[t].pc = "shaped" /\ UNCHANGED <<sent, refused>>
  /\ K' = K \union {[frame |-> cbs_arrived + 1, tc |-> caller[t].tc, held |-> TRUE]}

Leaves(i) ==
  /\ i \in K /\ K' = K \ {i} /\ Inner' = Inner /\ sent' = Append(sent, i)
  /\ \A j \in K : j.tc = i.tc => ~(j.frame < i.frame)
  /\ UNCHANGED <<vars, hand, relayed, cbs_arrived, refused>>

LEMMA CallMoves ==
  ASSUME Shaped, NEW t \in Threads, UNCHANGED <<vars, hand>>,
         relayed' = IF cbs_arrived' > cbs_arrived THEN Append(relayed, hand[t]) ELSE relayed,
         \/ CBSP!CallCheck(t) \/ CBSP!CallBypass(t) \/ CBSP!CallRefuse(t)
         \/ CBSP!CallAppend(t) \/ CBSP!CallSignal(t)
  PROVE  Rest \/ PassesBy(t) \/ IsRefused(t) \/ IsQueued(t)
<1>0. cbs_arrived \in Nat
  BY BoundsAssumption DEF Shaped, CBSP!TypeOK, CBSP!HistoryType
<1>u. \A u \in Threads : u # t => caller'[u] = caller[u]
  BY CallGoesOn
<1>k. UNCHANGED <<cbs_queues, cbs_drain>> => K' = K
  BY DEF K, CBSP!Inside, CBSP!QueueFrames, CBSP!PortFrames, CBSP!Outer
<1>o. ASSUME caller'[t].pc \in {"idle", "signal"}, caller[t].pc \in {"check", "bypass", "shaped"}
      PROVE  t \in Inner /\ Inner' = Inner \ {t}
  BY <1>o, <1>u DEF Inner
<1>n. CBSP!NoCall.pc = "idle"
  BY DEF CBSP!NoCall
<1>1. CASE CBSP!CallCheck(t)
  <2>1. caller[t].pc = "check" /\ caller'[t].pc \in {"bypass", "shaped"}
    BY <1>1, CallerType DEF CBSP!CallCheck
  <2>2. Inner' = Inner
    BY <1>u, <2>1 DEF Inner
  <2>3. K' = K
    BY <1>1, <1>k DEF CBSP!CallCheck
  <2>4. UNCHANGED <<cbs_arrived, sent, refused>>
    BY <1>1 DEF CBSP!CallCheck, CBSP!history
  <2> QED
    BY <1>0, <2>2, <2>3, <2>4 DEF Rest
<1>2. CASE CBSP!CallSignal(t)
  <2>1. caller[t].pc = "signal" /\ caller'[t].pc = "idle"
    BY <1>2, <1>n, CallerType DEF CBSP!CallSignal
  <2>2. Inner' = Inner
    BY <1>u, <2>1 DEF Inner
  <2>3. K' = K
    BY <1>2, <1>k DEF CBSP!CallSignal
  <2>4. UNCHANGED <<cbs_arrived, sent, refused>>
    BY <1>2 DEF CBSP!CallSignal, CBSP!history
  <2> QED
    BY <1>0, <2>2, <2>3, <2>4 DEF Rest
<1>a. ASSUME cbs_arrived' = cbs_arrived + 1, caller'[t].pc \in {"idle", "signal"},
             caller[t].pc \in {"check", "bypass", "shaped"}
      PROVE  Numbers(t)
  BY <1>0, <1>a, <1>o DEF Numbers
<1>3. CASE CBSP!CallBypass(t)
  <2>1. caller[t].pc = "bypass" /\ caller'[t].pc = "idle"
    BY <1>3, <1>n, CallerType DEF CBSP!CallBypass
  <2>2. K' = K
    BY <1>3, <1>k DEF CBSP!CallBypass
  <2>3. /\ cbs_arrived' = cbs_arrived + 1 /\ UNCHANGED refused
        /\ sent' = Append(sent, [frame |-> cbs_arrived + 1, tc |-> caller[t].tc, held |-> FALSE])
    BY <1>3 DEF CBSP!CallBypass, CBSP!Send
  <2> QED
    BY <1>a, <2>1, <2>2, <2>3 DEF PassesBy
<1>4. CASE CBSP!CallRefuse(t)
  <2>1. caller[t].pc = "shaped" /\ caller'[t].pc = "idle"
    BY <1>4, <1>n, CallerType DEF CBSP!CallRefuse
  <2>2. K' = K
    BY <1>4, <1>k DEF CBSP!CallRefuse
  <2>3. /\ cbs_arrived' = cbs_arrived + 1 /\ UNCHANGED sent
        /\ refused' = refused \union {cbs_arrived + 1}
    BY <1>4 DEF CBSP!CallRefuse
  <2> QED
    BY <1>a, <2>1, <2>2, <2>3 DEF IsRefused
<1>5. CASE CBSP!CallAppend(t)
  <2>1. caller[t].pc = "shaped" /\ caller'[t].pc = "signal"
    BY <1>5, CallerType DEF CBSP!CallAppend
  <2>2. cbs_arrived' = cbs_arrived + 1 /\ UNCHANGED <<sent, refused>>
    BY <1>5 DEF CBSP!CallAppend
  <2>3. CBSP!Port!Accept(caller[t].tc, TRUE)
    BY <1>5, CBSP!SimulateAppend, Assumed DEF Shaped
  <2>4. K' = K \union {[frame |-> cbs_arrived + 1, tc |-> caller[t].tc, held |-> TRUE]}
    BY <2>3 DEF K, CBSP!Port!Accept
  <2> QED
    BY <1>a, <2>1, <2>2, <2>4 DEF IsQueued
<1> QED
  BY <1>1, <1>2, <1>3, <1>4, <1>5

LEMMA LoopMoves ==
  ASSUME Shaped, CBSP!DrainLoop, UNCHANGED <<vars, hand, relayed>>
  PROVE  Rest \/ \E i \in K : Leaves(i)
<1>1. UNCHANGED <<caller, cbs_arrived, refused>>
  BY LoopLeavesCalls
<1>2. Inner' = Inner
  BY <1>1 DEF Inner
<1>3. CASE CBSP!DrainSend
  <2> DEFINE i == CBSP!Outer(cbs_drain.item)
  <2>1. i \in K /\ CBSP!Port!Depart(i) /\ CBSP!Port!Ahead(i) = {}
    BY <1>3, CBSP!SimulateSend, Assumed DEF Shaped, K
  <2> HIDE DEF i
  <2>2. K' = K \ {i} /\ sent' = Append(sent, i)
    BY <2>1 DEF CBSP!Port!Depart, K
  <2>3. \A j \in K : j.tc = i.tc => ~(j.frame < i.frame)
    BY <2>1 DEF CBSP!Port!Ahead, K
  <2> QED
    BY <1>1, <1>2, <2>1, <2>2, <2>3 DEF Leaves
<1>4. ASSUME NEW tc \in CBSP!TC, CBSP!PassSelect(tc)
      PROVE  Rest
  <2>1. K' = K
    BY <1>4, CBSP!SimulateSelect, Assumed DEF Shaped, K
  <2>2. UNCHANGED sent
    BY <1>4 DEF CBSP!PassSelect, CBSP!history
  <2> QED
    BY <1>1, <1>2, <2>1, <2>2 DEF Rest
<1>5. CASE CBSP!DrainWake \/ CBSP!DrainClear \/ CBSP!PassSample \/ CBSP!PassIdle \/ CBSP!DrainSent
  <2>1. UNCHANGED <<sent, cbs_queues>>
    BY <1>5 DEF CBSP!DrainWake, CBSP!DrainClear, CBSP!PassSample, CBSP!PassIdle, CBSP!DrainSent,
       CBSP!history
  <2>2. cbs_drain.pc # "send" /\ cbs_drain'.pc # "send"
    BY <1>5 DEF CBSP!DrainWake, CBSP!DrainClear, CBSP!PassSample, CBSP!PassIdle, CBSP!DrainSent,
       Shaped, CBSP!TypeOK, CBSP!DrainType
  <2>3. K' = K
    BY <2>1, <2>2 DEF K, CBSP!Inside, CBSP!QueueFrames, CBSP!PortFrames
  <2> QED
    BY <1>1, <1>2, <2>1, <2>3 DEF Rest
<1> QED
  BY <1>3, <1>4, <1>5 DEF CBSP!DrainLoop

LEMMA Moves ==
  ASSUME Started, Shaped, HandsKept, [PortNext]_portvars
  PROVE  \/ out' = out /\ Rest
         \/ \E t \in Threads, o \in Handed : Enters(t, o) /\ From(t, o)' /\ (t # "rx" => UNCHANGED arrived)
         \/ \E t \in Threads : PassesBy(t) \/ IsRefused(t) \/ IsQueued(t)
         \/ \E i \in K : Leaves(i)
<1>1. CASE out' # out
  <2>1. PICK t \in Threads, o \in Handed, ticks \in Sizes :
           /\ Free(t) /\ out' = Append(out, o) /\ From(t, o)'
           /\ hand' = [hand EXCEPT ![t] = o] /\ UNCHANGED relayed
           /\ CBSP!CallStart(t, o.tc, ticks) /\ (t # "rx" => UNCHANGED arrived)
    BY <1>1, Handover
  <2>2. o.tc \in Nat
    BY BoundsAssumption, ClassFacts DEF Handed
  <2>3. /\ caller'[t].pc \in {"check", "bypass"}
        /\ \A u \in Threads : u # t => caller'[u] = caller[u]
        /\ UNCHANGED <<cbs_queues, cbs_drain, cbs_arrived, sent, refused>>
    BY <2>1, <2>2, CallStarts
  <2>4. K' = K
    BY <2>3 DEF K, CBSP!Inside, CBSP!QueueFrames, CBSP!PortFrames, CBSP!Outer
  <2>5. t \notin Inner /\ Inner' = Inner \union {t}
    BY <2>1, <2>3 DEF Inner, Free
  <2>6. Enters(t, o)
    BY <2>1, <2>3, <2>4, <2>5 DEF Enters
  <2> QED
    BY <2>1, <2>6
<1>2. ASSUME UNCHANGED <<cbsvars, hand, relayed>>
      PROVE  Rest
  <2>1. K' = K
    BY <1>2 DEF K, CBSP!Inside, CBSP!QueueFrames, CBSP!PortFrames, CBSP!Outer, cbsvars
  <2>2. Inner' = Inner
    BY <1>2 DEF Inner, cbsvars
  <2> QED
    BY <1>2, <2>1, <2>2 DEF Rest, cbsvars
<1>3. ASSUME CBSP!Tick, UNCHANGED <<hand, relayed>>
      PROVE  Rest
  <2>1. UNCHANGED <<cbs_queues, caller, cbs_arrived, sent, refused>>
    BY <1>3 DEF CBSP!Tick, CBSP!history
  <2>2. cbs_drain'.pc = cbs_drain.pc /\ cbs_drain'.item = cbs_drain.item
    BY <1>3 DEF CBSP!Tick, Shaped, CBSP!TypeOK, CBSP!DrainType
  <2>3. K' = K
    BY <2>1, <2>2 DEF K, CBSP!Inside, CBSP!QueueFrames, CBSP!PortFrames
  <2>4. Inner' = Inner
    BY <2>1 DEF Inner
  <2> QED
    BY <1>3, <2>1, <2>3, <2>4 DEF Rest
<1>4. ASSUME NEW t \in Threads, HandOver(t), out' = out
      PROVE  Rest
  BY <1>2, <1>4 DEF HandOver
<1>5. UNCHANGED portvars => Rest
  BY <1>2 DEF portvars
<1>6. UNCHANGED vars => out' = out
  BY DEF vars
<1> QED
  BY <1>1, <1>3, <1>4, <1>5, <1>6, PortSteps, CallMoves, LoopMoves

(***************************************************************************)
(* The frames that left the TAS engine: each is in one call or has one     *)
(* number of the CBS engine.                                               *)
(***************************************************************************)
OutFrames == {out[k].frame : k \in DOMAIN out}

RelayKept ==
  /\ relayed \in Seq(Handed) /\ Len(relayed) = cbs_arrived
  /\ \A i \in K : i.frame \in DOMAIN relayed /\ i.tc = Clamp(relayed[i.frame].tc) /\ i.held
  /\ \A k \in DOMAIN sent : sent[k].frame \in DOMAIN relayed
  /\ refused \subseteq DOMAIN relayed

Unique ==
  /\ \A t \in Inner : hand[t].frame \in OutFrames
  /\ \A k \in DOMAIN relayed : relayed[k].frame \in OutFrames
  /\ \A t, u \in Inner : hand[t].frame = hand[u].frame => t = u
  /\ \A t \in Inner, k \in DOMAIN relayed : hand[t].frame # relayed[k].frame
  /\ \A j, k \in DOMAIN relayed : relayed[j].frame = relayed[k].frame => j = k

\* A class is shaped, or it is not: no frame of it can be in both ways.
Shaping(tc) == cbs_config.enabled /\ cbs_config.tc_configs[tc].enabled

ModesKept ==
  /\ \A t \in Threads :
       /\ caller[t].pc = "check" => cbs_config.tc_configs[caller[t].tc].enabled
       /\ caller[t].pc = "shaped" => Shaping(caller[t].tc)
       /\ caller[t].pc = "bypass" => ~Shaping(caller[t].tc)
  /\ \A i \in K : Shaping(i.tc)

Relayed == RelayKept /\ Unique /\ ModesKept

\* relayed grows at its end.
LEMMA RelayGrows ==
  ASSUME RelayKept, HandsKept, Shaped, NEW t \in Threads, Numbers(t)
  PROVE  /\ relayed' \in Seq(Handed) /\ Len(relayed') = cbs_arrived'
         /\ DOMAIN relayed = 1 .. cbs_arrived /\ DOMAIN relayed' = DOMAIN relayed \union {cbs_arrived + 1}
         /\ \A k \in DOMAIN relayed : relayed'[k] = relayed[k] /\ k # cbs_arrived + 1
         /\ relayed'[cbs_arrived + 1] = hand[t]
<1>1. cbs_arrived \in Nat
  BY BoundsAssumption DEF Shaped, CBSP!TypeOK, CBSP!HistoryType
<1>2. relayed \in Seq(Handed) /\ Len(relayed) = cbs_arrived /\ hand[t] \in Handed
  BY DEF RelayKept, HandsKept
<1>3. relayed' = Append(relayed, hand[t]) /\ cbs_arrived' = cbs_arrived + 1
  BY DEF Numbers
<1>4. /\ Append(relayed, hand[t]) \in Seq(Handed) /\ Len(Append(relayed, hand[t])) = cbs_arrived + 1
      /\ \A k \in 1 .. cbs_arrived : Append(relayed, hand[t])[k] = relayed[k]
      /\ Append(relayed, hand[t])[cbs_arrived + 1] = hand[t]
      /\ DOMAIN relayed = 1 .. cbs_arrived
      /\ DOMAIN Append(relayed, hand[t]) = 1 .. cbs_arrived + 1
  BY <1>1, <1>2, AppendProperties
<1>5. 1 .. cbs_arrived + 1 = (1 .. cbs_arrived) \union {cbs_arrived + 1}
  BY <1>1
<1>6. \A k \in 1 .. cbs_arrived : k # cbs_arrived + 1
  BY <1>1
<1> QED
  BY <1>3, <1>4, <1>5, <1>6

LEMMA SentGrows ==
  ASSUME Shaped, NEW x, x.frame \in Nat, x.tc \in TC, x.held \in BOOLEAN,
         x = [frame |-> x.frame, tc |-> x.tc, held |-> x.held], sent' = Append(sent, x)
  PROVE  /\ DOMAIN sent' = DOMAIN sent \union {Len(sent) + 1} /\ DOMAIN sent = 1 .. Len(sent)
         /\ Len(sent) \in Nat /\ Len(sent') = Len(sent) + 1 /\ DOMAIN sent' = 1 .. Len(sent) + 1
         /\ \A k \in DOMAIN sent : sent'[k] = sent[k]
         /\ sent'[Len(sent) + 1] = x
<1> DEFINE R == [frame : Nat, tc : TC, held : BOOLEAN]
<1>1. sent \in Seq(R)
  BY SameNames DEF Shaped, CBSP!TypeOK, CBSP!HistoryType
<1>2. x \in R
  OBVIOUS
<1> HIDE DEF R
<1>3. /\ Len(sent) \in Nat /\ DOMAIN sent = 1 .. Len(sent)
      /\ Append(sent, x) \in Seq(R) /\ Len(Append(sent, x)) = Len(sent) + 1
      /\ \A k \in 1 .. Len(sent) : Append(sent, x)[k] = sent[k]
      /\ Append(sent, x)[Len(sent) + 1] = x
      /\ DOMAIN Append(sent, x) = 1 .. Len(sent) + 1
  BY <1>1, <1>2, AppendProperties
<1>4. 1 .. Len(sent) + 1 = (1 .. Len(sent)) \union {Len(sent) + 1}
  BY <1>3
<1> QED
  BY <1>3, <1>4

\* The types of what is inside the CBS engine.
LEMMA InsideTypes ==
  ASSUME Shaped
  PROVE  /\ \A i \in K : /\ i.frame \in Nat /\ i.tc \in TC /\ i.held = TRUE
                         /\ i = [frame |-> i.frame, tc |-> i.tc, held |-> TRUE]
         /\ cbs_arrived \in Nat
<1>1. cbs_arrived \in Nat
  BY BoundsAssumption DEF Shaped, CBSP!TypeOK, CBSP!HistoryType
<1>2. ASSUME NEW x \in [frame : Nat, tc : TC, ticks : Nat], NEW i, i = CBSP!Outer(x)
      PROVE  /\ i.frame \in Nat /\ i.tc \in TC /\ i.held = TRUE
             /\ i = [frame |-> i.frame, tc |-> i.tc, held |-> TRUE]
  BY <1>2 DEF CBSP!Outer
<1>3. \A tc \in TC : \A k \in DOMAIN cbs_queues[tc] : cbs_queues[tc][k] \in [frame : Nat, tc : TC, ticks : Nat]
  <2>1. cbs_queues \in [TC -> Seq([frame : Nat, tc : TC, ticks : Nat])]
    BY SameNames DEF Shaped, CBSP!TypeOK, CBSP!QueueType, CBSP!ItemType
  <2>2. ASSUME NEW R, NEW s \in Seq(R), NEW k \in DOMAIN s
        PROVE  s[k] \in R
    OBVIOUS
  <2> QED
    BY <2>1, <2>2
<1>4. cbs_drain.item \in [frame : Nat, tc : TC, ticks : Nat]
  BY SameNames DEF Shaped, CBSP!TypeOK, CBSP!DrainType, CBSP!ItemType
<1>5. \A i \in CBSP!QueueFrames : \E tc \in TC : \E k \in DOMAIN cbs_queues[tc] : i = CBSP!Outer(cbs_queues[tc][k])
  BY SameNames DEF CBSP!QueueFrames
<1>6. \A i \in CBSP!PortFrames : i = CBSP!Outer(cbs_drain.item)
  BY DEF CBSP!PortFrames
<1>7. ASSUME NEW i \in K
      PROVE  \E x \in [frame : Nat, tc : TC, ticks : Nat] : i = CBSP!Outer(x)
  <2>1. CASE i \in CBSP!QueueFrames
    BY <1>3, <1>5, <2>1
  <2>2. CASE i \in CBSP!PortFrames
    BY <1>4, <1>6, <2>2
  <2> QED
    BY <2>1, <2>2 DEF K, CBSP!Inside
<1> QED
  BY <1>1, <1>2, <1>7

LEMMA RelayStep ==
  ASSUME Started, Shaped, HandsKept, RelayKept, [PortNext]_portvars
  PROVE  RelayKept'
<1>1. CASE Rest
  BY <1>1 DEF Rest, RelayKept
<1>2. ASSUME NEW t, NEW o, Enters(t, o)
      PROVE  RelayKept'
  BY <1>2 DEF Enters, RelayKept
<1>3. ASSUME NEW i \in K, Leaves(i)
      PROVE  RelayKept'
  <2>1. K' \subseteq K /\ UNCHANGED <<relayed, cbs_arrived, refused>> /\ sent' = Append(sent, i)
    BY <1>3 DEF Leaves
  <2>2. i.frame \in Nat /\ i.tc \in TC /\ i.held \in BOOLEAN
        /\ i = [frame |-> i.frame, tc |-> i.tc, held |-> i.held]
    BY InsideTypes
  <2>3. \A k \in DOMAIN sent' : (k \in DOMAIN sent /\ sent'[k] = sent[k]) \/ sent'[k] = i
    BY <2>1, <2>2, SentGrows
  <2>4. \A k \in DOMAIN sent' : sent'[k].frame \in DOMAIN relayed
    BY <2>3 DEF RelayKept
  <2> QED
    BY <2>1, <2>4 DEF RelayKept
<1>4. ASSUME NEW t \in Threads, PassesBy(t) \/ IsRefused(t) \/ IsQueued(t)
      PROVE  RelayKept'
  <2>1. Numbers(t)
    BY <1>4 DEF PassesBy, IsRefused, IsQueued
  <2>2. /\ relayed' \in Seq(Handed) /\ Len(relayed') = cbs_arrived'
        /\ DOMAIN relayed' = DOMAIN relayed \union {cbs_arrived + 1}
        /\ \A k \in DOMAIN relayed : relayed'[k] = relayed[k]
        /\ relayed'[cbs_arrived + 1] = hand[t]
    BY <2>1, RelayGrows
  <2>3. caller[t].tc = Clamp(hand[t].tc) /\ caller[t].tc \in TC
    <3>1. ~Free(t)
      BY <2>1 DEF Numbers, Inner, Free
    <3> QED
      BY <3>1, CallerType DEF HandsKept, CallKept
  <2>4. ASSUME NEW i \in K'
        PROVE  i.frame \in DOMAIN relayed' /\ i.tc = Clamp(relayed'[i.frame].tc) /\ i.held
    <3>1. CASE i \in K
      BY <2>2, <3>1 DEF RelayKept
    <3>2. CASE i = [frame |-> cbs_arrived + 1, tc |-> caller[t].tc, held |-> TRUE]
      BY <2>2, <2>3, <3>2
    <3> QED
      BY <1>4, <3>1, <3>2 DEF PassesBy, IsRefused, IsQueued
  <2>5. refused' \subseteq DOMAIN relayed'
    BY <1>4, <2>2 DEF PassesBy, IsRefused, IsQueued, RelayKept
  <2>6. \A k \in DOMAIN sent' : sent'[k].frame \in DOMAIN relayed'
    <3>1. CASE sent' = sent
      BY <2>2, <3>1 DEF RelayKept
    <3>2. CASE PassesBy(t)
      <4> DEFINE x == [frame |-> cbs_arrived + 1, tc |-> caller[t].tc, held |-> FALSE]
      <4>1. sent' = Append(sent, x)
        BY <3>2 DEF PassesBy
      <4>2. /\ x.frame \in Nat /\ x.tc \in TC /\ x.held \in BOOLEAN /\ x.frame = cbs_arrived + 1
            /\ x = [frame |-> x.frame, tc |-> x.tc, held |-> x.held]
        BY <2>3, InsideTypes
      <4> HIDE DEF x
      <4>3. \A k \in DOMAIN sent' : (k \in DOMAIN sent /\ sent'[k] = sent[k]) \/ sent'[k] = x
        BY <4>1, <4>2, SentGrows
      <4> QED
        BY <2>2, <4>2, <4>3 DEF RelayKept
    <3> QED
      BY <1>4, <3>1, <3>2 DEF IsRefused, IsQueued
  <2> QED
    BY <2>2, <2>4, <2>5, <2>6 DEF RelayKept
<1> QED
  BY <1>1, <1>2, <1>3, <1>4, Moves

LEMMA ModesStep ==
  ASSUME Started, Shaped, HandsKept, ModesKept, [PortNext]_portvars
  PROVE  ModesKept'
<1>c. cbs_config' = cbs_config /\ \A tc : Shaping(tc)' <=> Shaping(tc)
  <2>1. cbs_config' = cbs_config
    BY StaysSo DEF CBSP!port
  <2> QED
    BY <2>1 DEF Shaping
<1> DEFINE Fits(x) == /\ x.pc = "check" => cbs_config.tc_configs[x.tc].enabled
                      /\ x.pc = "shaped" => Shaping(x.tc)
                      /\ x.pc = "bypass" => ~Shaping(x.tc)
<1>1. ASSUME \A t \in Threads : Fits(caller'[t]), \A i \in K' : Shaping(i.tc)
      PROVE  ModesKept'
  BY <1>1, <1>c DEF ModesKept
<1>2. \A t \in Threads : Fits(caller[t])
  BY DEF ModesKept
<1>3. \A t \in Threads : Fits(caller'[t])
  <2>1. CASE out' # out
    <3>1. PICK t \in Threads, o \in Handed, ticks \in Sizes : CBSP!CallStart(t, o.tc, ticks)
      BY <2>1, Handover
    <3>2. o.tc \in Nat
      BY BoundsAssumption, ClassFacts DEF Handed
    <3>3. /\ caller'[t].tc = Clamp(o.tc)
          /\ caller'[t].pc = IF cbs_config.tc_configs[Clamp(o.tc)].enabled THEN "check" ELSE "bypass"
          /\ \A u \in Threads : u # t => caller'[u] = caller[u]
      BY <3>1, <3>2, CallStarts
    <3>4. Fits(caller'[t])
      BY <3>3 DEF Shaping
    <3> HIDE DEF Fits
    <3> QED
      BY <1>2, <3>3, <3>4
  <2>2. ASSUME NEW t \in Threads,
               \/ CBSP!CallCheck(t) \/ CBSP!CallBypass(t) \/ CBSP!CallRefuse(t)
               \/ CBSP!CallAppend(t) \/ CBSP!CallSignal(t)
        PROVE  \A u \in Threads : Fits(caller'[u])
    <3>1. \A u \in Threads : u # t => caller'[u] = caller[u]
      BY <2>2, CallGoesOn
    <3>2. ASSUME CBSP!CallCheck(t)
          PROVE  Fits(caller'[t])
      <4>1. Fits(caller[t]) /\ caller[t].pc = "check" /\ caller'[t].tc = caller[t].tc
        BY <1>2, <3>2, Decides
      <4>2. \/ cbs_config.enabled /\ caller'[t].pc = "shaped"
            \/ ~cbs_config.enabled /\ caller'[t].pc = "bypass"
        BY <3>2, Decides
      <4> QED
        BY <4>1, <4>2 DEF Shaping
    <3>3. ASSUME ~CBSP!CallCheck(t)
          PROVE  Fits(caller'[t])
      <4>1. caller'[t].pc \in {"idle", "signal"}
        BY <2>2, <3>3, Settles
      <4> QED
        BY <4>1
    <3>4. Fits(caller'[t])
      BY <3>2, <3>3
    <3> HIDE DEF Fits
    <3> QED
      BY <1>2, <3>1, <3>4
  <2>3. CASE UNCHANGED caller
    BY <1>2, <2>3
  <2>4. ASSUME NEW t \in Threads, HandOver(t), out' = out
        PROVE  UNCHANGED caller
    BY <2>4 DEF HandOver, cbsvars
  <2> QED
    BY <2>1, <2>2, <2>3, <2>4, PortSteps, LoopLeavesCalls DEF portvars, cbsvars
<1>4. ASSUME NEW i \in K'
      PROVE  Shaping(i.tc)
  <2>1. CASE i \in K
    BY <2>1 DEF ModesKept
  <2>2. ASSUME NEW t \in Threads, IsQueued(t), i = [frame |-> cbs_arrived + 1, tc |-> caller[t].tc, held |-> TRUE]
        PROVE  Shaping(i.tc)
    <3>1. caller[t].pc = "shaped"
      BY <2>2 DEF IsQueued
    <3> QED
      BY <2>2, <3>1 DEF ModesKept
  <2> QED
    BY <2>1, <2>2, Moves DEF Rest, Enters, PassesBy, IsRefused, IsQueued, Leaves
<1> QED
  BY <1>1, <1>3, <1>4

\* The frames inside the TAS engine have not left it.
LEMMA InsideFrames ==
  ASSUME TypeOK, Kept
  PROVE  /\ \A g \in Inside : g.frame \in 1 .. arrived /\ g.frame \notin OutFrames /\ g \in [frame : Nat, tc : Nat, held : BOOLEAN]
         /\ \A g, h \in Inside : g.frame = h.frame => g = h
         /\ OutFrames \subseteq 1 .. arrived
<1>o. OutFrames = At[<<"out">>] /\ <<"out">> \in Locations
  BY Places, LocationFacts DEF Placing, OutFrames
<1>1. ASSUME NEW i \in Items
      PROVE  i.frame \in 1 .. arrived /\ i.frame \notin OutFrames
  <2>1. PICK l \in Locations : i \in Sited(l)
    BY ItemsSited
  <2>2. l # <<"out">>
    BY <2>1, SitedFacts
  <2>3. i.frame \in At[l]
    BY <2>1, SitedAt
  <2> QED
    BY <1>o, <2>2, <2>3 DEF Kept, Spread
<1>2. \A i \in Items : i \in Item
  BY ItemTypes
<1>3. ASSUME NEW g \in Inside
      PROVE  \E i \in Items : g = Outer(i) /\ g.frame = i.frame /\ g.tc = i.tc /\ g.held = i.held
  BY DEF Inside, Outer
<1>4. \A g \in Inside : g \in [frame : Nat, tc : Nat, held : BOOLEAN]
  BY <1>2 DEF Inside, Outer, Item
<1>5. ASSUME NEW g \in Inside
      PROVE  g.frame \in 1 .. arrived /\ g.frame \notin OutFrames
  BY <1>1, <1>3
<1>6. ASSUME NEW g \in Inside, NEW h \in Inside, g.frame = h.frame
      PROVE  g = h
  <2>1. PICK i \in Items : g = Outer(i) /\ g.frame = i.frame
    BY <1>3
  <2>2. PICK j \in Items : h = Outer(j) /\ h.frame = j.frame
    BY <1>3
  <2>3. i = j
    BY <1>6, <2>1, <2>2, ItemsOnce
  <2> QED
    BY <2>1, <2>2, <2>3
<1>7. OutFrames \subseteq 1 .. arrived
  BY <1>o DEF Kept, Spread
<1> QED
  BY <1>4, <1>5, <1>6, <1>7

\* A frame handed over has not been handed over before.
LEMMA NewOut ==
  ASSUME Started, Started', NEW o \in Handed, out' = Append(out, o)
  PROVE  o.frame \notin OutFrames /\ OutFrames' = OutFrames \union {o.frame}
<1> DEFINE R == [frame : Nat, tc : Nat, held : BOOLEAN]
<1>1. out \in Seq(R)
  BY DEF Started, Given, TypeOK, HistoryType
<1>2. o \in R
  BY BoundsAssumption, ClassFacts DEF Handed
<1> HIDE DEF R
<1>3. /\ Len(out) \in Nat /\ DOMAIN out = 1 .. Len(out)
      /\ \A k \in 1 .. Len(out) : out'[k] = out[k]
      /\ out'[Len(out) + 1] = o /\ DOMAIN out' = 1 .. Len(out) + 1
  BY <1>1, <1>2, AppendProperties
<1>4. /\ 1 .. Len(out) + 1 = (1 .. Len(out)) \union {Len(out) + 1}
      /\ \A k \in 1 .. Len(out) : k # Len(out) + 1
  BY <1>3
<1>5. \A j, k \in DOMAIN out' : out'[j].frame = out'[k].frame => j = k
  BY DEF Started, Given, Kept, OutOnce, NoRepeat
<1>6. \A k \in DOMAIN out : out[k].frame # o.frame
  BY <1>3, <1>4, <1>5
<1>7. OutFrames' = OutFrames \union {o.frame}
  BY <1>3, <1>4 DEF OutFrames
<1> QED
  BY <1>6, <1>7 DEF OutFrames

LEMMA UniqueStep ==
  ASSUME Started, Started', Shaped, HandsKept, RelayKept, Unique, [PortNext]_portvars
  PROVE  Unique'
<1>0. UNCHANGED out => OutFrames' = OutFrames
  BY DEF OutFrames
<1>v. UNCHANGED vars => UNCHANGED out
  BY DEF vars
<1>1. CASE out' = out /\ Rest
  BY <1>0, <1>1 DEF Rest, Unique
<1>2. ASSUME NEW t \in Threads, NEW o \in Handed, Enters(t, o)
      PROVE  Unique'
  <2>1. /\ t \notin Inner /\ Inner' = Inner \union {t} /\ out' = Append(out, o)
        /\ hand' = [hand EXCEPT ![t] = o] /\ relayed' = relayed
    BY <1>2 DEF Enters
  <2>2. o.frame \notin OutFrames /\ OutFrames' = OutFrames \union {o.frame}
    BY <2>1, NewOut
  <2>3. hand'[t] = o /\ \A u \in Inner : u # t /\ hand'[u] = hand[u]
    BY <2>1 DEF HandsKept, Inner
  <2> QED
    BY <2>1, <2>2, <2>3 DEF Unique
<1>3. ASSUME NEW t \in Threads, Numbers(t)
      PROVE  Unique'
  <2>1. /\ DOMAIN relayed' = DOMAIN relayed \union {cbs_arrived + 1}
        /\ \A k \in DOMAIN relayed : relayed'[k] = relayed[k] /\ k # cbs_arrived + 1
        /\ relayed'[cbs_arrived + 1] = hand[t]
    BY <1>3, RelayGrows
  <2>2. /\ t \in Inner /\ Inner' = Inner \ {t} /\ hand' = hand /\ OutFrames' = OutFrames
    BY <1>0, <1>v, <1>3 DEF Numbers
  <2>n. PICK n : n = cbs_arrived + 1
    OBVIOUS
  <2>3. \A k \in DOMAIN relayed' : (k \in DOMAIN relayed /\ relayed'[k] = relayed[k]) \/ (k = n /\ relayed'[k] = hand[t])
    BY <2>1, <2>n
  <2>4. \A k \in DOMAIN relayed' : relayed'[k].frame \in OutFrames'
    BY <2>2, <2>3 DEF Unique
  <2>5. \A u \in Inner', k \in DOMAIN relayed' : hand'[u].frame # relayed'[k].frame
    BY <2>2, <2>3 DEF Unique
  <2>6. \A j, k \in DOMAIN relayed' : relayed'[j].frame = relayed'[k].frame => j = k
    BY <2>2, <2>3 DEF Unique
  <2>7. /\ \A u \in Inner' : hand'[u].frame \in OutFrames'
        /\ \A u, w \in Inner' : hand'[u].frame = hand'[w].frame => u = w
    BY <2>2 DEF Unique
  <2> QED
    BY <2>4, <2>5, <2>6, <2>7 DEF Unique
<1>4. ASSUME NEW i \in K, Leaves(i)
      PROVE  Unique'
  BY <1>0, <1>v, <1>4 DEF Leaves, Unique
<1> QED
  BY <1>1, <1>2, <1>3, <1>4, Moves DEF PassesBy, IsRefused, IsQueued

\* Two calls at once are not about frames of which one must not pass the other.
LEMMA CallsApart ==
  ASSUME Started, HandsKept, Unique, NEW t \in Inner, NEW u \in Inner, t # u
  PROVE  Leads(hand[t], hand[u])
<1>1. \A c \in Inner : c \in Threads /\ From(c, hand[c]) /\ hand[c].frame \in OutFrames
  BY DEF Inner, HandsKept, CallKept, Free, Unique
<1>2. hand[t].frame # hand[u].frame
  BY DEF Unique
<1>3. OutFrames \subseteq 1 .. arrived /\ arrived \in Nat
  BY InsideFrames, ItemTypes DEF Started, Given
<1>4. config.port_speed_bps \in Nat
  BY ConfigsAssumption DEF Started, Given, TypeOK, PortType
<1>5. CASE t = "wire" \/ u = "wire"
  <2>1. \A c \in Inner : c = "wire" => config.enabled /\ config.port_speed_bps > 0
    BY <1>1 DEF From
  <2>2. \A c \in Inner : c # "wire" => ~(config.enabled /\ config.port_speed_bps > 0)
    BY <1>1, <1>4 DEF From, Threads
  <2> QED
    BY <1>5, <2>1, <2>2
<1>6. CASE t = "rx" /\ u = "drain"
  BY <1>1, <1>6 DEF From, Leads
<1>7. CASE t = "drain" /\ u = "rx"
  <2>1. hand[u].frame = arrived /\ hand[t].frame \in 1 .. arrived
    BY <1>1, <1>3, <1>7 DEF From
  <2> QED
    BY <1>2, <1>3, <2>1 DEF Leads
<1> QED
  BY <1>1, <1>5, <1>6, <1>7 DEF Threads

(***************************************************************************)
(* The order: no frame further on is one that a frame behind it may not    *)
(* have been passed by.                                                    *)
(***************************************************************************)
InOrder ==
  /\ \A t \in Inner, g \in Inside : Leads(hand[t], g)
  /\ \A i \in K, g \in Inside : Leads(relayed[i.frame], g)
  /\ \A i \in K, t \in Inner : Leads(relayed[i.frame], hand[t])
  /\ \A i, j \in K : i.frame < j.frame => Leads(relayed[i.frame], relayed[j.frame])

\* What a step of the TAS engine that hands nothing over does to the frames inside.
LEMMA InsideGrows ==
  ASSUME Started, [Next]_vars, out' = out, NEW g \in Inside'
  PROVE  \/ g \in Inside
         \/ g.frame = arrived + 1
         \/ \E f \in Inside : g.frame = f.frame /\ g.tc = f.tc /\ g.held
<1>1. [Port!Next]_(Port!vars)
  BY Simulation DEF Started, Given
<1>o. out \in Seq([frame : Nat, tc : Nat, held : BOOLEAN])
  BY DEF Started, Given, TypeOK, HistoryType
<1>2. CASE Inside' \subseteq Inside
  BY <1>2
<1>3. ASSUME NEW tc, NEW held, Port!Accept(tc, held)
      PROVE  g \in Inside \/ g.frame = arrived + 1
  BY <1>3 DEF Port!Accept
<1>4. ASSUME NEW f \in Inside, Port!Hold(f)
      PROVE  g \in Inside \/ \E h \in Inside : g.frame = h.frame /\ g.tc = h.tc /\ g.held
  <2>1. f \in [frame : Nat, tc : Nat, held : BOOLEAN]
    BY InsideFrames DEF Started, Given
  <2>2. g \in Inside \/ g = [f EXCEPT !.held = TRUE]
    BY <1>4 DEF Port!Hold
  <2> QED
    BY <2>1, <2>2
<1>5. ASSUME NEW x, out' = Append(out, x)
      PROVE  FALSE
  <2>1. Len(Append(out, x)) = Len(out) + 1 /\ Len(out) \in Nat
    BY <1>o
  <2> QED
    BY <1>5, <2>1
<1> QED
  BY <1>1, <1>2, <1>3, <1>4, <1>5
  DEF Port!Next, Port!Pass, Port!Refuse, Port!Depart, Port!Discard, Port!Reconfigure, Port!vars

\* A frame that is handed over was inside, led by nothing it must follow; or it
\* arrived in this step, and nothing is inside.
LEMMA HandsOut ==
  ASSUME Started, [Next]_vars, NEW o \in Handed, out' = Append(out, o)
  PROVE  /\ UNCHANGED dropped
         /\ \/ /\ o \in Inside /\ Inside' = Inside \ {o} /\ arrived' = arrived
               /\ \A g \in Inside' : Leads(o, g)
            \/ /\ Inside = {} /\ Inside' = {} /\ arrived' = arrived + 1
               /\ \E tc \in RawTC : o = [frame |-> arrived + 1, tc |-> tc, held |-> FALSE]
<1> DEFINE R == [frame : Nat, tc : Nat, held : BOOLEAN]
<1>t. TypeOK /\ Kept /\ Confined /\ updates = 0 /\ arrived \in Nat
  BY ItemTypes DEF Started, Given
<1>o. out \in Seq(R) /\ o \in R
  BY <1>t, BoundsAssumption, ClassFacts DEF TypeOK, HistoryType, Handed
<1>1. [Port!Next]_(Port!vars)
  BY Simulation DEF Started, Given
<1>i. \A g \in Inside : g \in R
  BY <1>t, InsideFrames
<1>2. out' # out
  <2>1. Len(Append(out, o)) = Len(out) + 1 /\ Len(out) \in Nat
    BY <1>o
  <2> QED
    BY <2>1
<1>3. ASSUME NEW x \in R, out' = Append(out, x)
      PROVE  x = o
  <2>1. /\ Len(out) \in Nat /\ Append(out, x)[Len(out) + 1] = x /\ Append(out, o)[Len(out) + 1] = o
    <3> HIDE DEF R
    <3> QED
      BY <1>o, AppendProperties
  <2> QED
    BY <1>3, <2>1
<1>s. \/ \E tc \in RawTC : EnqueueBypass(tc)
      \/ EnqueueSend \/ WireSend \/ \E i \in batch.ready : DrainSend(i)
  <2>1. ~Still
    BY <1>t, <1>2, StillEffect
  <2>2. \A tc : EnqueueSample(tc) => UNCHANGED out
    BY DEF EnqueueSample
  <2>3. EnqueueJudge \/ EnqueueHold \/ DrainScan \/ WireTake => UNCHANGED out
    BY DEF EnqueueJudge, EnqueueHold, DrainScan, WireTake
  <2>4. \A t : WireAppend(t) => UNCHANGED out
    BY DEF WireAppend
  <2>5. \A i : DrainLoadSeq(i) => UNCHANGED out
    BY DEF DrainLoadSeq
  <2> QED
    BY <1>2, <2>1, <2>2, <2>3, <2>4, <2>5, Steps
<1>d. UNCHANGED dropped
  BY <1>s DEF EnqueueBypass, EnqueueSend, DrainSend, WireSend
<1>4. ASSUME NEW f \in Inside, Port!Depart(f)
      PROVE  /\ o \in Inside /\ Inside' = Inside \ {o} /\ arrived' = arrived
             /\ \A g \in Inside' : Leads(o, g)
  <2>1. f = o
    BY <1>3, <1>4, <1>i DEF Port!Depart
  <2>2. Inside' = Inside \ {o} /\ arrived' = arrived
    BY <1>4, <2>1 DEF Port!Depart
  <2>3. ASSUME NEW g \in Inside'
        PROVE  Leads(o, g)
    <3>1. g \in Inside /\ g # o /\ o \in Inside
      BY <1>4, <2>1, <2>2
    <3>2. g.frame # o.frame /\ g.frame \in Nat /\ o.frame \in Nat
      BY <1>i, <1>t, <3>1, InsideFrames
    <3>3. g.tc = o.tc /\ g.frame < o.frame => g.held /\ ~o.held
      BY <1>4, <1>t, <2>1, <3>1 DEF Port!Depart, Port!Ahead
    <3> QED
      BY <3>2, <3>3 DEF Leads
  <2> QED
    BY <1>4, <2>1, <2>2, <2>3
<1>5. ASSUME NEW tc \in TC \union RawTC, Port!Pass(tc)
      PROVE  /\ Inside = {} /\ Inside' = {} /\ arrived' = arrived + 1
             /\ \E c \in RawTC : o = [frame |-> arrived + 1, tc |-> c, held |-> FALSE]
  <2>1. arrived' = arrived + 1 /\ Inside' = Inside
    BY <1>5 DEF Port!Pass
  <2>2. arrived' # arrived
    BY <1>t, <2>1
  <2>3. PICK c \in RawTC : EnqueueBypass(c)
    BY <1>s, <2>2 DEF EnqueueSend, DrainSend, WireSend
  <2>4. Inside = {}
    BY <1>t, <2>3 DEF EnqueueBypass, Confined, Inside
  <2>5. PICK x : x = [frame |-> arrived + 1, tc |-> c, held |-> FALSE]
    OBVIOUS
  <2>6. out' = Append(out, x) /\ x \in R
    BY <1>t, <2>3, <2>5, BypassEffect, BoundsAssumption
  <2> QED
    BY <1>3, <2>1, <2>4, <2>5, <2>6
<1> QED
  BY <1>1, <1>2, <1>4, <1>5, <1>d
  DEF Port!Next, Port!Accept, Port!Refuse, Port!Hold, Port!Discard, Port!Reconfigure, Port!vars

\* The TAS engine has every frame it had when another thread moves.
LEMMA InsideStays == UNCHANGED vars => Inside' = Inside /\ dropped' = dropped
  BY DEF vars, locals, wires, Inside, Outer, Items, Hand, InHand, GateItems, WireItems, WireItemsOf, BusyItems

LEMMA OrderStep ==
  ASSUME Started, Shaped, HandsKept, RelayKept, Unique, InOrder, [PortNext]_portvars
  PROVE  InOrder'
<1>t. [Next]_vars
  BY TASStep
<1>n. OutFrames \subseteq 1 .. arrived /\ arrived \in Nat
  BY InsideFrames, ItemTypes DEF Started, Given
<1>m. \A m \in OutFrames : m < arrived + 1
  BY <1>n
<1>k. \A i \in K : relayed[i.frame].frame \in OutFrames
  BY DEF Unique, RelayKept
<1>1. CASE out' = out /\ Rest
  <2>1. Inner' = Inner /\ K' = K /\ hand' = hand /\ relayed' = relayed
    BY <1>1 DEF Rest
  <2>2. ASSUME NEW b, b.frame \in OutFrames, \A f \in Inside : Leads(b, f), NEW g \in Inside'
        PROVE  Leads(b, g)
    <3>1. CASE g.frame = arrived + 1
      <4>1. b.frame < arrived + 1
        BY <1>m, <2>2
      <4> QED
        BY <3>1, <4>1 DEF Leads
    <3>2. ASSUME NEW f \in Inside, g.frame = f.frame, g.tc = f.tc, g.held
          PROVE  Leads(b, g)
      BY <2>2, <3>2 DEF Leads
    <3> QED
      BY <1>1, <1>t, <2>2, <3>1, <3>2, InsideGrows
  <2>3. \A t \in Inner, g \in Inside' : Leads(hand[t], g)
    BY <2>2 DEF InOrder, Unique
  <2>4. \A i \in K, g \in Inside' : Leads(relayed[i.frame], g)
    BY <1>k, <2>2 DEF InOrder
  <2> QED
    BY <2>1, <2>3, <2>4 DEF InOrder
<1>2. ASSUME NEW t \in Threads, NEW o \in Handed, Enters(t, o)
      PROVE  InOrder'
  <2>1. /\ t \notin Inner /\ Inner' = Inner \union {t} /\ out' = Append(out, o) /\ K' = K
        /\ hand' = [hand EXCEPT ![t] = o] /\ relayed' = relayed
    BY <1>2 DEF Enters
  <2>2. hand'[t] = o /\ \A u \in Inner : u # t /\ hand'[u] = hand[u]
    BY <2>1 DEF HandsKept, Inner
  <2>3. Inside' \subseteq Inside /\ \A g \in Inside' : Leads(o, g)
    BY <1>t, <2>1, HandsOut
  <2>4. ASSUME NEW i \in K
        PROVE  Leads(relayed[i.frame], o)
    <3>1. CASE o \in Inside
      BY <3>1 DEF InOrder
    <3>2. CASE o.frame = arrived + 1
      <4>1. relayed[i.frame].frame < arrived + 1
        BY <1>m, <1>k
      <4> QED
        BY <3>2, <4>1 DEF Leads
    <3> QED
      BY <1>t, <2>1, <3>1, <3>2, HandsOut
  <2>5. \A u \in Inner', g \in Inside' : Leads(hand'[u], g)
    BY <2>1, <2>2, <2>3 DEF InOrder
  <2>6. \A i \in K, u \in Inner' : Leads(relayed[i.frame], hand'[u])
    BY <2>1, <2>2, <2>4 DEF InOrder
  <2> QED
    BY <2>1, <2>3, <2>5, <2>6 DEF InOrder
<1>3. ASSUME NEW t \in Threads, Numbers(t),
             K' = K \/ K' = K \union {[frame |-> cbs_arrived + 1, tc |-> caller[t].tc, held |-> TRUE]}
      PROVE  InOrder'
  <2>n. PICK n : n = cbs_arrived + 1
    OBVIOUS
  <2>1. /\ DOMAIN relayed = 1 .. cbs_arrived
        /\ \A k \in DOMAIN relayed : relayed'[k] = relayed[k]
        /\ relayed'[n] = hand[t]
    BY <1>3, <2>n, RelayGrows
  <2>2. t \in Inner /\ Inner' = Inner \ {t} /\ hand' = hand /\ Inside' = Inside
    BY <1>3, InsideStays DEF Numbers
  <2>3. \A i \in K : i.frame \in DOMAIN relayed /\ relayed'[i.frame] = relayed[i.frame] /\ i.frame < n
    <3>1. cbs_arrived \in Nat
      BY InsideTypes
    <3> QED
      BY <2>1, <2>n, <3>1 DEF RelayKept
  <2>4. \A i \in K' : \/ i \in K
                      \/ i.frame = n /\ relayed'[i.frame] = hand[t]
    BY <1>3, <2>1, <2>n
  <2>5. \A i \in K', g \in Inside' : Leads(relayed'[i.frame], g)
    BY <2>2, <2>3, <2>4 DEF InOrder
  <2>6. ASSUME NEW i \in K', NEW u \in Inner'
        PROVE  Leads(relayed'[i.frame], hand'[u])
    <3>1. u \in Inner /\ u # t /\ hand'[u] = hand[u]
      BY <2>2
    <3>2. Leads(hand[t], hand[u])
      BY <2>2, <3>1, CallsApart
    <3> QED
      BY <2>3, <2>4, <3>1, <3>2 DEF InOrder
  <2>7. ASSUME NEW i \in K', NEW j \in K', i.frame < j.frame
        PROVE  Leads(relayed'[i.frame], relayed'[j.frame])
    <3>c. cbs_arrived \in Nat
      BY InsideTypes
    <3>h. \A h \in K : h.frame \in Nat
      BY InsideTypes
    <3>1. n \in Nat
      BY <2>n, <3>c
    <3>2. i \in K
      BY <2>3, <2>4, <2>7, <3>h, <3>1
    <3>3. CASE j \in K
      BY <2>3, <2>7, <3>2, <3>3 DEF InOrder
    <3>4. CASE relayed'[j.frame] = hand[t]
      BY <2>2, <2>3, <3>2, <3>4 DEF InOrder
    <3> QED
      BY <2>4, <3>3, <3>4
  <2> QED
    BY <2>2, <2>5, <2>6, <2>7 DEF InOrder
<1>4. ASSUME NEW i \in K, Leaves(i)
      PROVE  InOrder'
  <2>1. K' \subseteq K /\ Inner' = Inner /\ UNCHANGED <<hand, relayed>> /\ Inside' = Inside
    BY <1>4, InsideStays DEF Leaves
  <2> QED
    BY <2>1 DEF InOrder
<1> QED
  BY <1>1, <1>2, <1>3, <1>4, Moves DEF PassesBy, IsRefused, IsQueued

-----------------------------------------------------------------------------
(***************************************************************************)
(* The variables of the abstract port, and how the steps change them.      *)
(***************************************************************************)
AllInside == Inside \union Behind
LeftPort == [k \in DOMAIN sent |-> relayed[sent[k].frame]]
Discards == {d.frame : d \in dropped} \union {relayed[f].frame : f \in refused}

Sound == Started /\ Shaped /\ HandsKept /\ RelayKept /\ Unique /\ ModesKept /\ InOrder

LEMMA InitialCalls ==
  PortInit => RelayKept /\ Unique /\ ModesKept /\ InOrder /\ Through!Init
<1> SUFFICES ASSUME PortInit PROVE RelayKept /\ Unique /\ ModesKept /\ InOrder /\ Through!Init
  OBVIOUS
<1>1. Inner = {}
  BY DEF PortInit, CBS!Init, CBS!NoCall, Inner
<1>2. K = {}
  <2>1. cbs_queues = [tc \in CBS!TC |-> << >>] /\ cbs_drain.pc = "wait"
    BY DEF PortInit, CBS!Init
  <2>2. CBSP!QueueFrames = {} /\ CBSP!PortFrames = {}
    BY <2>1, SameNames DEF CBSP!QueueFrames, CBSP!PortFrames
  <2> QED
    BY <2>2 DEF K, CBSP!Inside
<1>3. relayed = << >> /\ cbs_arrived = 0 /\ sent = << >> /\ refused = {}
  BY DEF PortInit, CBS!Init
<1>4. RelayKept
  BY <1>2, <1>3 DEF RelayKept
<1>5. Unique
  BY <1>1, <1>3 DEF Unique
<1>6. ModesKept
  BY <1>2 DEF ModesKept, PortInit, CBS!Init, CBS!NoCall
<1>7. InOrder
  BY <1>1, <1>2 DEF InOrder
<1>8. Behind = {}
  BY <1>1, <1>2, BehindFacts DEF BehindIs
<1>9. Port!Init
  BY InitialPort DEF PortInit
<1> QED
  BY <1>3, <1>4, <1>5, <1>6, <1>7, <1>8, <1>9 DEF Port!Init, Through!Init

LEMMA AlwaysSound == SwitchSpec => []Sound
<1>1. /\ Started /\ Started' /\ Shaped /\ HandsKept /\ RelayKept /\ Unique /\ ModesKept /\ InOrder
      /\ [PortNext]_portvars
      => (RelayKept /\ Unique /\ ModesKept /\ InOrder)'
  BY RelayStep, UniqueStep, ModesStep, OrderStep
<1>2. PortInit => RelayKept /\ Unique /\ ModesKept /\ InOrder
  BY InitialCalls
<1> QED
  BY <1>1, <1>2, AlwaysStarted, AlwaysShaped, AlwaysHands, PTL DEF SwitchSpec, Sound

LEMMA BehindFrames ==
  ASSUME Sound
  PROVE  /\ \A b \in Behind : b.frame \in OutFrames /\ b \in Handed /\ b.frame \in Nat
         /\ Inside \intersect Behind = {}
<1>1. ASSUME NEW b \in Behind
      PROVE  b.frame \in OutFrames /\ b \in Handed
  <2>1. ASSUME NEW t \in Inner, b = hand[t]
        PROVE  b.frame \in OutFrames /\ b \in Handed
    BY <2>1 DEF Sound, Unique, HandsKept, Inner
  <2>2. ASSUME NEW i \in K, b = relayed[i.frame]
        PROVE  b.frame \in OutFrames /\ b \in Handed
    <3>1. i.frame \in DOMAIN relayed /\ relayed \in Seq(Handed)
      BY DEF Sound, RelayKept
    <3> QED
      BY <2>2, <3>1 DEF Sound, Unique
  <2> QED
    BY <2>1, <2>2, BehindFacts DEF BehindIs
<1>2. \A g \in Inside : g.frame \notin OutFrames
  BY InsideFrames DEF Sound, Started, Given
<1>3. \A b \in Handed : b.frame \in Nat
  BY DEF Handed
<1> QED
  BY <1>1, <1>2, <1>3

\* Where the frames behind the TAS engine go.
LEMMA BehindMoves ==
  ASSUME Sound
  PROVE  /\ Rest => Behind' = Behind
         /\ \A t \in Threads, o \in Handed : Enters(t, o) => Behind' = Behind \union {o}
         /\ \A t \in Threads : IsQueued(t) => Behind' = Behind
         /\ \A t \in Threads : PassesBy(t) \/ IsRefused(t) =>
              hand[t] \in Behind /\ Behind' = Behind \ {hand[t]}
         /\ \A i \in K : Leaves(i) =>
              relayed[i.frame] \in Behind /\ Behind' = Behind \ {relayed[i.frame]}
<1> USE BehindFacts, BehindFactsNext DEF BehindIs
<1>1. ASSUME Rest
      PROVE  Behind' = Behind
  BY <1>1 DEF Rest
<1>2. ASSUME NEW t \in Threads, NEW o \in Handed, Enters(t, o)
      PROVE  Behind' = Behind \union {o}
  <2>1. /\ t \notin Inner /\ Inner' = Inner \union {t} /\ K' = K
        /\ hand' = [hand EXCEPT ![t] = o] /\ relayed' = relayed
    BY <1>2 DEF Enters
  <2>2. hand'[t] = o /\ \A u \in Inner : hand'[u] = hand[u]
    BY <2>1 DEF Sound, HandsKept, Inner
  <2> QED
    BY <2>1, <2>2
<1>3. ASSUME NEW t \in Threads, Numbers(t)
      PROVE  /\ t \in Inner /\ Inner' = Inner \ {t} /\ hand' = hand
             /\ \A i \in K : relayed'[i.frame] = relayed[i.frame]
             /\ relayed'[cbs_arrived + 1] = hand[t]
             /\ \A u \in Inner : u # t => hand[u] # hand[t]
             /\ \A i \in K : relayed[i.frame] # hand[t]
  <2>1. \A i \in K : i.frame \in DOMAIN relayed
    BY DEF Sound, RelayKept
  <2>2. \A k \in DOMAIN relayed : relayed'[k] = relayed[k]
    BY <1>3, RelayGrows DEF Sound
  <2>3. relayed'[cbs_arrived + 1] = hand[t]
    BY <1>3, RelayGrows DEF Sound
  <2>4. t \in Inner /\ Inner' = Inner \ {t} /\ hand' = hand
    BY <1>3 DEF Numbers
  <2> QED
    BY <2>1, <2>2, <2>3, <2>4 DEF Sound, Unique
<1>4. ASSUME NEW t \in Threads, IsQueued(t)
      PROVE  Behind' = Behind
  <2>1. PICK i : i = [frame |-> cbs_arrived + 1, tc |-> caller[t].tc, held |-> TRUE]
    OBVIOUS
  <2>2. K' = K \union {i} /\ Numbers(t) /\ i.frame = cbs_arrived + 1
    BY <1>4, <2>1 DEF IsQueued
  <2>3. relayed'[i.frame] = hand[t]
    BY <1>3, <2>2
  <2>4. /\ t \in Inner /\ Inner' = Inner \ {t} /\ hand' = hand
        /\ \A j \in K : relayed'[j.frame] = relayed[j.frame]
    BY <1>3, <2>2
  <2>5. ASSUME NEW b \in Behind'
        PROVE  b \in Behind
    BY <2>2, <2>3, <2>4
  <2>6. ASSUME NEW b \in Behind
        PROVE  b \in Behind'
    <3>1. CASE b = hand[t]
      BY <2>2, <2>3, <3>1
    <3>2. ASSUME NEW u \in Inner, b = hand[u], u # t
          PROVE  b \in Behind'
      BY <2>4, <3>2
    <3>3. ASSUME NEW j \in K, b = relayed[j.frame]
          PROVE  b \in Behind'
      BY <2>2, <2>4, <3>3
    <3> QED
      BY <3>1, <3>2, <3>3
  <2> QED
    BY <2>5, <2>6
<1>5. ASSUME NEW t \in Threads, PassesBy(t) \/ IsRefused(t)
      PROVE  hand[t] \in Behind /\ Behind' = Behind \ {hand[t]}
  <2>1. K' = K /\ Numbers(t)
    BY <1>5 DEF PassesBy, IsRefused
  <2> QED
    BY <1>3, <2>1
<1>6. ASSUME NEW i \in K, Leaves(i)
      PROVE  relayed[i.frame] \in Behind /\ Behind' = Behind \ {relayed[i.frame]}
  <2>1. K' = K \ {i} /\ Inner' = Inner /\ hand' = hand /\ relayed' = relayed
    BY <1>6 DEF Leaves
  <2>2. ASSUME NEW j \in K, relayed[j.frame] = relayed[i.frame]
        PROVE  j = i
    <3>1. /\ i.frame \in DOMAIN relayed /\ i.tc = Clamp(relayed[i.frame].tc)
          /\ j.frame \in DOMAIN relayed /\ j.tc = Clamp(relayed[j.frame].tc)
      BY DEF Sound, RelayKept
    <3>2. i.frame = j.frame
      BY <2>2, <3>1 DEF Sound, Unique
    <3>3. /\ i = [frame |-> i.frame, tc |-> i.tc, held |-> TRUE]
          /\ j = [frame |-> j.frame, tc |-> j.tc, held |-> TRUE]
      BY InsideTypes DEF Sound
    <3> QED
      BY <2>2, <3>1, <3>2, <3>3
  <2>3. \A t \in Inner : hand[t] # relayed[i.frame]
    BY DEF Sound, Unique, RelayKept
  <2> QED
    BY <2>1, <2>2, <2>3
<1> QED
  BY <1>1, <1>2, <1>4, <1>5, <1>6

\* The sequence of the frames that left grows with `sent`.
LEMMA LeftGrows ==
  ASSUME Sound, NEW x \in [frame : Nat, tc : TC, held : BOOLEAN], sent' = Append(sent, x),
         \A k \in DOMAIN relayed : relayed'[k] = relayed[k], relayed'[x.frame] \in Handed
  PROVE  LeftPort' = Append(LeftPort, relayed'[x.frame])
<1> DEFINE r == relayed'[x.frame]
           s == Append(LeftPort, r)
<1>1. /\ DOMAIN sent = 1 .. Len(sent) /\ Len(sent) \in Nat /\ DOMAIN sent' = 1 .. Len(sent) + 1
      /\ \A k \in DOMAIN sent : sent'[k] = sent[k]
      /\ sent'[Len(sent) + 1] = x
  <2>1. x.frame \in Nat /\ x.tc \in TC /\ x.held \in BOOLEAN
        /\ x = [frame |-> x.frame, tc |-> x.tc, held |-> x.held]
    OBVIOUS
  <2> QED
    BY <2>1, SentGrows DEF Sound
<1>2. \A k \in DOMAIN sent : sent[k].frame \in DOMAIN relayed /\ relayed[sent[k].frame] \in Handed
  BY DEF Sound, RelayKept
<1>n. PICK n \in Nat : n = Len(sent)
  BY <1>1
<1>3. LeftPort \in [1 .. n -> Handed]
  BY <1>1, <1>2, <1>n DEF LeftPort
<1>4. LeftPort \in Seq(Handed) /\ Len(LeftPort) = n
  BY <1>3, <1>n
<1>5. s \in Seq(Handed) /\ Len(s) = n + 1 /\ (\A k \in 1 .. n : s[k] = LeftPort[k]) /\ s[n + 1] = r
  BY <1>4, AppendProperties
<1>6. 1 .. n + 1 = (1 .. n) \union {n + 1} /\ n + 1 \in Nat
  OBVIOUS
<1>7. /\ DOMAIN LeftPort' = 1 .. n + 1
      /\ \A k \in 1 .. n + 1 : LeftPort'[k] = relayed'[sent'[k].frame]
  BY <1>1, <1>n DEF LeftPort
<1>8. \A k \in 1 .. n : LeftPort'[k] = LeftPort[k]
  BY <1>1, <1>2, <1>n, <1>6, <1>7 DEF LeftPort
<1>9. LeftPort'[n + 1] = r
  BY <1>1, <1>n, <1>6, <1>7
<1>f. LeftPort' = [k \in 1 .. n + 1 |-> relayed'[sent'[k].frame]]
  BY <1>1, <1>n DEF LeftPort
<1> HIDE DEF r, s
<1>10. \A k \in 1 .. n + 1 : LeftPort'[k] = s[k]
  BY <1>5, <1>6, <1>8, <1>9
<1>11. r \in Handed /\ \A k \in 1 .. n : LeftPort[k] \in Handed
  BY <1>3 DEF r
<1>12. \A k \in 1 .. n + 1 : LeftPort'[k] \in Handed
  BY <1>6, <1>8, <1>9, <1>11
<1>13. LeftPort' \in [1 .. n + 1 -> Handed]
  BY <1>7, <1>12, <1>f
<1>14. LeftPort' \in Seq(Handed) /\ Len(LeftPort') = n + 1
  BY <1>6, <1>13
<1>15. LeftPort' = s
  BY <1>5, <1>10, <1>14, SeqEqual
<1> QED
  BY <1>15 DEF r, s

LEMMA LeftStays ==
  ASSUME Sound, sent' = sent, \A k \in DOMAIN relayed : relayed'[k] = relayed[k]
  PROVE  LeftPort' = LeftPort
<1>1. \A k \in DOMAIN sent : relayed'[sent[k].frame] = relayed[sent[k].frame]
  BY DEF Sound, RelayKept
<1>2. LeftPort' = [k \in DOMAIN sent |-> relayed'[sent[k].frame]]
  BY DEF LeftPort
<1> QED
  BY <1>1, <1>2 DEF LeftPort

\* A frame that leaves when it leads all that is inside.
LEMMA ThroughDeparts ==
  ASSUME Sound, NEW f \in Behind, Inside' = Inside, Behind' = Behind \ {f},
         \A g \in AllInside : g.frame # f.frame => Leads(f, g),
         LeftPort' = Append(LeftPort, f), UNCHANGED <<updates, arrived, Discards>>
  PROVE  Through!Next
<1>1. f.frame \in Nat /\ \A g \in AllInside : g.frame \in Nat
  BY BehindFrames, InsideFrames DEF AllInside, Sound, Started, Given
<1>2. f \in AllInside /\ AllInside' = AllInside \ {f}
  BY BehindFrames DEF AllInside
<1>3. ASSUME NEW g \in AllInside, g.tc = f.tc, g.frame < f.frame
      PROVE  g.held /\ ~f.held
  <2>1. g.frame # f.frame /\ ~(f.frame < g.frame)
    BY <1>1, <1>3
  <2> QED
    BY <1>3, <2>1 DEF Leads
<1>4. Through!Depart(f)
  BY <1>2, <1>3 DEF Through!Depart, Through!Ahead, AllInside, LeftPort, Discards
<1> QED
  BY <1>2, <1>4 DEF Through!Next, AllInside

\* A step the TAS engine makes without handing a frame over.
LEMMA ThroughRest ==
  ASSUME Sound, [PortNext]_portvars, out' = out, Rest
  PROVE  [Through!Next]_(Through!vars)
<1>1. [Port!Next]_(Port!vars)
  BY TASStep, Simulation DEF Sound, Started, Given
<1>2. Behind' = Behind /\ Inside \intersect Behind = {}
  BY BehindMoves, BehindFrames
<1>3. LeftPort' = LeftPort
  BY LeftStays DEF Rest
<1>4. UNCHANGED updates
  BY StaysSo
<1>5. {relayed'[f].frame : f \in refused'} = {relayed[f].frame : f \in refused}
  BY DEF Rest
<1>o. out \in Seq([frame : Nat, tc : Nat, held : BOOLEAN])
  BY DEF Sound, Started, Given, TypeOK, HistoryType
<1> DEFINE D == {d.frame : d \in dropped}
<1> USE DEF LeftPort, AllInside
<1>6. ASSUME NEW tc \in TC \union RawTC, NEW held \in BOOLEAN, Port!Accept(tc, held)
      PROVE  Through!Accept(tc, held)
  BY <1>2, <1>3, <1>4, <1>5, <1>6 DEF Port!Accept, Through!Accept
<1>7. ASSUME Port!Refuse
      PROVE  Through!Refuse
  BY <1>2, <1>3, <1>4, <1>5, <1>7 DEF Port!Refuse, Through!Refuse
<1>8. ASSUME NEW f \in Inside, Port!Hold(f)
      PROVE  Through!Hold(f)
  <2>1. PICK g : g = [f EXCEPT !.held = TRUE]
    OBVIOUS
  <2>2. Inside' = (Inside \ {f}) \union {g}
    BY <1>8, <2>1 DEF Port!Hold
  <2>3. (Inside \union Behind)' = ((Inside \union Behind) \ {f}) \union {g}
    BY <1>2, <2>2
  <2> QED
    BY <1>3, <1>4, <1>5, <1>8, <2>1, <2>3 DEF Port!Hold, Through!Hold
<1>9. ASSUME NEW S \in SUBSET Inside, Port!Discard(S)
      PROVE  Through!Discard(S)
  <2>1. (Inside \union Behind)' = (Inside \union Behind) \ S
    BY <1>2, <1>9 DEF Port!Discard
  <2>2. D' = D \union {f.frame : f \in S}
    BY <1>9 DEF Port!Discard
  <2> QED
    BY <1>3, <1>4, <1>5, <1>9, <2>1, <2>2 DEF Port!Discard, Through!Discard
<1>10. ASSUME UNCHANGED Port!vars
       PROVE  UNCHANGED Through!vars
  BY <1>2, <1>3, <1>4, <1>5, <1>10 DEF Port!vars, Through!vars
<1>11. ASSUME NEW x, out' = Append(out, x)
       PROVE  FALSE
  <2>1. Len(Append(out, x)) = Len(out) + 1 /\ Len(out) \in Nat
    BY <1>o
  <2> QED
    BY <1>11, <2>1
<1>12. ~Port!Reconfigure
  BY <1>4 DEF Port!Reconfigure, Sound, Started
<1> QED
  BY <1>1, <1>6, <1>7, <1>8, <1>9, <1>10, <1>11, <1>12
  DEF Port!Next, Port!Pass, Port!Depart, Through!Next

\* A frame handed over stays inside; one that arrived in the step is accepted.
LEMMA ThroughEnters ==
  ASSUME Sound, [PortNext]_portvars, NEW t \in Threads, NEW o \in Handed, Enters(t, o)
  PROVE  [Through!Next]_(Through!vars)
<1>1. [Next]_vars /\ out' = Append(out, o)
  BY TASStep DEF Enters
<1>2. Behind' = Behind \union {o}
  BY BehindMoves
<1>3. LeftPort' = LeftPort
  BY LeftStays DEF Enters
<1>4. UNCHANGED updates
  BY StaysSo
<1>5. /\ UNCHANGED dropped
      /\ \/ o \in Inside /\ Inside' = Inside \ {o} /\ arrived' = arrived
         \/ /\ Inside = {} /\ Inside' = {} /\ arrived' = arrived + 1
            /\ \E tc \in RawTC : o = [frame |-> arrived + 1, tc |-> tc, held |-> FALSE]
  BY <1>1, HandsOut DEF Sound
<1>6. Discards' = Discards
  BY <1>5 DEF Discards, Enters
<1>7. ASSUME o \in Inside, Inside' = Inside \ {o}, arrived' = arrived
      PROVE  UNCHANGED Through!vars
  <2>1. (Inside \union Behind)' = Inside \union Behind
    BY <1>2, <1>7
  <2> QED
    BY <1>3, <1>4, <1>6, <1>7, <2>1 DEF Through!vars, LeftPort, Discards
<1>8. ASSUME Inside = {}, Inside' = {}, arrived' = arrived + 1,
             NEW tc \in RawTC, o = [frame |-> arrived + 1, tc |-> tc, held |-> FALSE]
      PROVE  Through!Accept(tc, FALSE)
  BY <1>2, <1>3, <1>4, <1>6, <1>8 DEF Through!Accept, LeftPort, Discards
<1> QED
  BY <1>5, <1>7, <1>8 DEF Through!Next

\* The steps of the calls, and of the drain loop of the CBS engine.
LEMMA ThroughCalls ==
  ASSUME Sound, NEW t \in Threads, UNCHANGED updates, PassesBy(t) \/ IsRefused(t) \/ IsQueued(t)
  PROVE  [Through!Next]_(Through!vars)
<1>1. Numbers(t) /\ UNCHANGED vars
  BY DEF PassesBy, IsRefused, IsQueued, Numbers
<1>2. Inside' = Inside /\ dropped' = dropped /\ arrived' = arrived
  BY <1>1, InsideStays DEF vars
<1>n. PICK n : n = cbs_arrived + 1
  OBVIOUS
<1>3. \A k \in DOMAIN relayed : relayed'[k] = relayed[k]
  BY <1>1, RelayGrows DEF Sound
<1>4. relayed'[n] = hand[t] /\ hand[t] \in Handed
  BY <1>1, <1>n, RelayGrows DEF Sound, HandsKept
<1>5. \A f \in refused : relayed'[f] = relayed[f]
  BY <1>3 DEF Sound, RelayKept
<1>6. ASSUME PassesBy(t)
      PROVE  Through!Next
  <2>1. PICK x : x = [frame |-> n, tc |-> caller[t].tc, held |-> FALSE]
    OBVIOUS
  <2>2. sent' = Append(sent, x) /\ refused' = refused /\ caller[t].pc = "bypass"
    BY <1>6, <1>n, <2>1 DEF PassesBy
  <2>t. n \in Nat /\ caller[t].tc \in TC
    <3>1. cbs_arrived \in Nat
      BY InsideTypes DEF Sound
    <3> QED
      BY <1>n, <3>1, CallerType DEF Sound
  <2>3. x \in [frame : Nat, tc : TC, held : BOOLEAN] /\ x.frame = n
    BY <2>1, <2>t
  <2>4. LeftPort' = Append(LeftPort, hand[t])
    BY <1>3, <1>4, <2>2, <2>3, LeftGrows
  <2>5. Discards' = Discards
    BY <1>2, <1>5, <2>2 DEF Discards
  <2>6. hand[t] \in Behind /\ Behind' = Behind \ {hand[t]}
    BY <1>6, BehindMoves
  <2>7. ASSUME NEW g \in AllInside, g.frame # hand[t].frame
        PROVE  Leads(hand[t], g)
    <3>0. t \in Inner
      BY <1>1 DEF Numbers
    <3>1. CASE g \in Inside
      BY <3>0, <3>1 DEF Sound, InOrder
    <3>2. ASSUME NEW u \in Inner, g = hand[u]
          PROVE  Leads(hand[t], g)
      BY <2>7, <3>0, <3>2, CallsApart DEF Sound
    <3>3. ASSUME NEW i \in K, g = relayed[i.frame]
          PROVE  g.tc # hand[t].tc
      <4>1. i.tc = Clamp(g.tc) /\ Shaping(i.tc)
        BY <3>3 DEF Sound, RelayKept, ModesKept
      <4>2. caller[t].tc = Clamp(hand[t].tc) /\ ~Shaping(caller[t].tc)
        BY <2>2, <3>0 DEF Sound, HandsKept, CallKept, ModesKept, Free
      <4> QED
        BY <4>1, <4>2
    <3> QED
      BY <3>1, <3>2, <3>3, BehindFacts DEF AllInside, BehindIs, Leads
  <2> QED
    BY <1>2, <2>4, <2>5, <2>6, <2>7, ThroughDeparts
<1>7. ASSUME IsRefused(t)
      PROVE  Through!Next
  <2>1. sent' = sent /\ refused' = refused \union {n}
    BY <1>7, <1>n DEF IsRefused
  <2>2. LeftPort' = LeftPort
    BY <1>3, <2>1, LeftStays
  <2>3. hand[t] \in Behind /\ Behind' = Behind \ {hand[t]} /\ hand[t] \notin Inside
    BY <1>7, BehindMoves, BehindFrames
  <2>4. (Inside \union Behind)' = (Inside \union Behind) \ {hand[t]}
    BY <1>2, <2>3
  <2>5. Discards' = Discards \union {hand[t].frame}
    <3>1. {relayed'[f].frame : f \in refused'} = {relayed[f].frame : f \in refused} \union {hand[t].frame}
      BY <1>4, <1>5, <2>1
    <3> QED
      BY <1>2, <3>1 DEF Discards
  <2>6. PICK S : S = {hand[t]}
    OBVIOUS
  <2>7. {f.frame : f \in S} = {hand[t].frame}
    BY <2>6
  <2>8. Through!Discard(S)
    BY <1>2, <2>2, <2>3, <2>4, <2>5, <2>6, <2>7 DEF Through!Discard, LeftPort, Discards
  <2>9. S \in SUBSET (Inside \union Behind)
    BY <2>3, <2>6
  <2> QED
    BY <2>8, <2>9 DEF Through!Next
<1>8. ASSUME IsQueued(t)
      PROVE  UNCHANGED Through!vars
  <2>1. sent' = sent /\ refused' = refused
    BY <1>8 DEF IsQueued
  <2>2. LeftPort' = LeftPort
    BY <1>3, <2>1, LeftStays
  <2>3. Behind' = Behind
    BY <1>8, BehindMoves
  <2>4. Discards' = Discards
    BY <1>2, <1>5, <2>1 DEF Discards
  <2> QED
    BY <1>2, <2>2, <2>3, <2>4 DEF Through!vars, LeftPort, Discards
<1> QED
  BY <1>6, <1>7, <1>8

LEMMA ThroughLeaves ==
  ASSUME Sound, UNCHANGED updates, NEW i \in K, Leaves(i)
  PROVE  Through!Next
<1>1. UNCHANGED <<vars, hand, relayed, cbs_arrived, refused>> /\ sent' = Append(sent, i)
  BY DEF Leaves
<1>2. Inside' = Inside /\ dropped' = dropped /\ arrived' = arrived
  BY <1>1, InsideStays DEF vars
<1>r. PICK r : r = relayed[i.frame]
  OBVIOUS
<1>3. /\ i.frame \in DOMAIN relayed /\ i.tc = Clamp(r.tc) /\ r \in Handed
  BY <1>r DEF Sound, RelayKept
<1>4. i \in [frame : Nat, tc : TC, held : BOOLEAN]
  <2>1. PICK f, tc : f = i.frame /\ tc = i.tc
    OBVIOUS
  <2>2. f \in Nat /\ tc \in TC /\ i = [frame |-> f, tc |-> tc, held |-> TRUE]
    BY <2>1, InsideTypes DEF Sound
  <2> QED
    BY <2>2
<1>5. LeftPort' = Append(LeftPort, r)
  BY <1>1, <1>3, <1>4, <1>r, LeftGrows
<1>6. Discards' = Discards
  BY <1>1, <1>2 DEF Discards
<1>7. r \in Behind /\ Behind' = Behind \ {r}
  BY <1>r, BehindMoves
<1>8. ASSUME NEW g \in AllInside, g.frame # r.frame
      PROVE  Leads(r, g)
  <2>1. CASE g \in Inside
    BY <1>r, <2>1 DEF Sound, InOrder
  <2>2. ASSUME NEW u \in Inner, g = hand[u]
        PROVE  Leads(r, g)
    BY <1>r, <2>2 DEF Sound, InOrder
  <2>3. ASSUME NEW j \in K, g = relayed[j.frame], g.tc = r.tc
        PROVE  Leads(r, g)
    <3>1. j.tc = i.tc /\ j.frame # i.frame
      BY <1>3, <1>8, <1>r, <2>3 DEF Sound, RelayKept
    <3>2. ~(j.frame < i.frame)
      BY <3>1 DEF Leaves
    <3>3. i.frame \in Nat /\ j.frame \in Nat
      BY InsideTypes DEF Sound
    <3>4. i.frame < j.frame
      BY <3>1, <3>2, <3>3
    <3> QED
      BY <1>r, <2>3, <3>4 DEF Sound, InOrder
  <2> QED
    BY <1>8, <2>1, <2>2, <2>3, BehindFacts DEF AllInside, BehindIs, Leads
<1> QED
  BY <1>2, <1>5, <1>6, <1>7, <1>8, ThroughDeparts

\* The two engines in series are an egress port: whichever of the six queues and
\* four threads a frame goes through, it leaves the switch once or is discarded,
\* never both, and within its class it is passed only while the TAS engine holds
\* it back.
THEOREM SeriesIsPort == SwitchSpec => EndToEnd
<1>1. Sound /\ [PortNext]_portvars => [Through!Next]_(Through!vars)
  <2> SUFFICES ASSUME Sound, [PortNext]_portvars PROVE [Through!Next]_(Through!vars)
    OBVIOUS
  <2>1. UNCHANGED updates
    BY StaysSo
  <2> QED
    BY <2>1, Moves, ThroughRest, ThroughEnters, ThroughCalls, ThroughLeaves DEF Sound
<1>2. PortInit => Through!Init
  BY InitialCalls
<1> QED
  BY <1>1, <1>2, AlwaysSound, PTL DEF SwitchSpec, EndToEnd, Through!Spec

=============================================================================
