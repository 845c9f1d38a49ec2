------------------------------ MODULE TASProofs ------------------------------
(***************************************************************************)
(* Theorems about TASEngine and TASPort for every value of the constants:  *)
(* types, gates and waits, no frame is served later than the gates make    *)
(* it, none is lost or doubled, the counters agree with the queues, and    *)
(* the port is an egress port.                                             *)
(***************************************************************************)
EXTENDS TASPort, NumberFacts, SequenceTheorems

\* The gate queues are finite, so that counting expired items is meaningful.
Finite == \A tc \in TC : IsFiniteSet(queues[tc])

LEMMA ClassFacts == TC \subseteq Nat /\ 0 \in TC /\ -1 \notin TC
  BY NumTCAssumption DEF TC

LEMMA ClampType == \A tc \in Nat : Clamp(tc) \in TC
  BY NumTCAssumption DEF TC, Clamp

LEMMA OffsetType == \A c \in Configs, t \in Nat : CycleOffset(c, t) \in Nat
  BY ConfigsAssumption DEF CycleOffset

LEMMA TypeInit == Init => TypeOK /\ Finite
<1> SUFFICES ASSUME Init PROVE TypeOK /\ Finite
  OBVIOUS
<1> USE ClassFacts, BoundsAssumption DEF Init
<1>1. NoItem \in Item
  BY DEF NoItem, Item
<1>2. PortType /\ QueueType /\ WireQueueType
  BY ConfigsAssumption DEF PortType, QueueType, WireQueueType
<1>3. ThreadType
  BY <1>1 DEF ThreadType, NoThread, NoItem, Producers, RxStates, DrainStates, Pcs
<1>4. BatchType
  BY DEF BatchType, NoBatch
<1>5. WireType
  BY <1>1, NumTCAssumption DEF WireType, NoWire
<1>6. StatsType /\ HistoryType
  BY DEF StatsType, HistoryType
<1>7. Finite
  BY FS_EmptySet DEF Finite
<1> QED
  BY <1>2, <1>3, <1>4, <1>5, <1>6, <1>7 DEF TypeOK

\* Sending appends a record of the right type to the history.
LEMMA SendType ==
  ASSUME HistoryType, NEW i, i.frame \in Nat, i.tc \in Nat, i.held \in BOOLEAN, Send(i)
  PROVE  out' \in Seq([frame : Nat, tc : Nat, held : BOOLEAN])
  BY DEF HistoryType, Send

LEMMA RecordSentType ==
  ASSUME StatsType, NEW tc \in TC \union RawTC, NEW q \in BOOLEAN, RecordSent(tc, q)
  PROVE  StatsType'
<1>1. stats.sent[tc] + 1 \in Nat /\ stats.sent_immediate[tc] + 1 \in Nat
  BY DEF StatsType
<1>2. stats' = [sent |-> [stats.sent EXCEPT ![tc] = @ + 1],
                sent_immediate |-> [stats.sent_immediate EXCEPT ![tc] = IF q THEN @ ELSE @ + 1],
                queued |-> stats.queued, dropped |-> stats.dropped]
  BY DEF StatsType, RecordSent
<1> QED
  BY <1>1, <1>2 DEF StatsType

\* A producer gets new locals of the right type.
LEMMA SetThreadType ==
  ASSUME ThreadType, NEW t \in Producers,
         NEW r \in [pc : Pcs(t), item : Item, offset : Nat, seq : Nat], r.item.tc \in TC,
         thread' = [thread EXCEPT ![t] = r]
  PROVE  ThreadType'
<1>1. Pcs(t) \subseteq RxStates \union DrainStates
  BY DEF Pcs, Producers
<1> QED
  BY <1>1 DEF ThreadType

LEMMA ThreadFacts ==
  ASSUME ThreadType, NEW t \in Producers
  PROVE  /\ thread[t] \in [pc : Pcs(t), item : Item, offset : Nat, seq : Nat]
         /\ thread[t].item.tc \in TC \union RawTC
         /\ thread[t].pc # "sent" => thread[t].item.tc \in TC
  BY DEF ThreadType

\* Where a thread is in a call of send_fn, and after it has counted the frame.
LEMMA CallsShape ==
  ASSUME ThreadType, NEW t \in Producers, NEW i, Calls(t, i)
  PROVE  /\ thread'[t].pc = "sent" /\ thread'[t].item = i
         /\ \A u \in Producers : u # t => thread'[u] = thread[u]
  BY DEF ThreadType, Calls, NoThread

LEMMA CountsShape ==
  ASSUME ThreadType, NEW t \in Producers, Counts(t)
  PROVE  /\ thread'[t].pc = IF t = "rx" THEN "idle" ELSE "batch"
         /\ \A u \in Producers : u # t => thread'[u] = thread[u]
  BY DEF ThreadType, Counts, NoThread

LEMMA GotoType ==
  ASSUME ThreadType, NEW t \in Producers, thread[t].pc # "sent",
         NEW pc \in Pcs(t), Goto(t, pc)
  PROVE  ThreadType'
<1>1. NoItem \in Item /\ NoItem.tc \in TC
  BY ClassFacts DEF NoItem, Item
<1> DEFINE r == IF pc = "idle" THEN NoThread ELSE [thread[t] EXCEPT !.pc = pc]
<1>2. r \in [pc : Pcs(t), item : Item, offset : Nat, seq : Nat] /\ r.item.tc \in TC
  BY <1>1, ThreadFacts DEF NoThread
<1>3. thread' = [thread EXCEPT ![t] = r]
  BY DEF Goto
<1> HIDE DEF r
<1> QED
  BY <1>2, <1>3, SetThreadType

\* A call of send_fn, and its return.
LEMMA CallsType ==
  ASSUME ThreadType, NEW t \in Producers,
         NEW item \in Item, item.tc \in TC \union RawTC, Calls(t, item)
  PROVE  ThreadType'
  BY DEF ThreadType, Calls, NoThread, Producers, Pcs, RxStates, DrainStates

LEMMA CountsType ==
  ASSUME ThreadType, StatsType, NEW t \in Producers, Counts(t)
  PROVE  ThreadType' /\ StatsType'
<1> DEFINE r == [NoThread EXCEPT !.pc = IF t = "rx" THEN "idle" ELSE "batch"]
<1>1. r \in [pc : Pcs(t), item : Item, offset : Nat, seq : Nat] /\ r.item.tc \in TC
  BY ClassFacts DEF NoThread, NoItem, Item, Producers, RxStates, DrainStates, Pcs
<1>2. thread' = [thread EXCEPT ![t] = r]
  BY DEF Counts
<1> HIDE DEF r
<1>3. ThreadType'
  BY <1>1, <1>2, SetThreadType
<1>4. StatsType'
  BY ThreadFacts, RecordSentType DEF Counts
<1> QED
  BY <1>3, <1>4

\* What an action leaves alone keeps its type.
LEMMA Unchanged ==
  ASSUME TypeOK, Finite
  PROVE  /\ UNCHANGED <<now, port>> => PortType'
         /\ UNCHANGED queues => QueueType' /\ Finite'
         /\ UNCHANGED wires => WireQueueType'
         /\ UNCHANGED thread => ThreadType'
         /\ UNCHANGED batch => BatchType'
         /\ UNCHANGED <<wire, polled, wire_queues>> => WireType'
         /\ UNCHANGED stats => StatsType'
         /\ UNCHANGED <<arrived, out, dropped>> => HistoryType'
<1> USE DEF TypeOK
<1>1. UNCHANGED <<now, port>> => PortType'
  BY DEF PortType, port
<1>2. UNCHANGED queues => QueueType' /\ Finite'
  BY DEF QueueType, Finite
<1>3. UNCHANGED wires => WireQueueType'
  BY DEF WireQueueType, wires
<1>4. UNCHANGED thread => ThreadType'
  BY DEF ThreadType
<1>5. UNCHANGED batch => BatchType'
  BY DEF BatchType
<1>6. UNCHANGED <<wire, polled, wire_queues>> => WireType'
  BY DEF WireType
<1>7. UNCHANGED stats => StatsType'
  BY DEF StatsType
<1>8. UNCHANGED <<arrived, out, dropped>> => HistoryType'
  BY DEF HistoryType
<1> QED
  BY <1>1, <1>2, <1>3, <1>4, <1>5, <1>6, <1>7, <1>8

\* The statements with which both producers append to a wire queue.
LEMMA TypeAppend ==
  ASSUME TypeOK, Finite, NEW t \in Producers,
         WireAppend(t) \/ BumpLoad(t) \/ BumpStore(t) \/ Counted(t)
  PROVE  TypeOK' /\ Finite'
<1> USE DEF TypeOK
<1>1. CASE WireAppend(t)
  <2> DEFINE w == [item |-> thread[t].item, seq |-> thread[t].seq]
             q == thread[t].item.tc
  <2>1. w \in [item : Item, seq : Nat] /\ q \in TC /\ w.item.tc = q
    BY <1>1, ThreadFacts DEF WireAppend
  <2>2. wire_queues' = [wire_queues EXCEPT ![q] = Append(@, w)]
    BY <1>1 DEF WireAppend
  <2> HIDE DEF w, q
  <2>3. WireQueueType'
    <3>1. wire_queues[q] \in Seq([item : Item, seq : Nat])
      BY <2>1 DEF WireQueueType
    <3>5. Append(wire_queues[q], w) \in Seq([item : Item, seq : Nat])
      BY <2>1, <3>1, AppendProperties
    <3>6. wire_queues' \in [TC -> Seq([item : Item, seq : Nat])]
      BY <2>1, <2>2, <3>5 DEF WireQueueType
    <3>7. wire_seq' \in Nat
      BY <1>1 DEF WireQueueType, WireAppend
    <3>2. wire_queues' \in [TC -> Seq([item : Item, seq : Nat])] /\ wire_seq' \in Nat
      BY <3>6, <3>7
    <3>3. \A k \in DOMAIN wire_queues'[q] : wire_queues'[q][k].item.tc = q
      <4>1. wire_queues'[q] = Append(wire_queues[q], w)
        BY <2>1, <2>2 DEF WireQueueType
      <4>2. \A k \in DOMAIN wire_queues[q] : wire_queues[q][k].item.tc = q
        BY <2>1 DEF WireQueueType
      <4> QED
        BY <2>1, <3>1, <4>1, <4>2, AppendProperties
    <3>4. \A tc \in TC : tc # q => wire_queues'[tc] = wire_queues[tc]
      BY <2>2 DEF WireQueueType
    <3> QED
      BY <3>2, <3>3, <3>4 DEF WireQueueType
  <2>4. WireType'
    <3>2. wire_queues[q] \in Seq([item : Item, seq : Nat]) /\ q \in DOMAIN wire_queues
      BY <2>1 DEF WireQueueType
    <3>3. Append(wire_queues[q], w) # << >>
      BY <2>1, <3>2
    <3>1. \A tc \in TC : wire_queues[tc] # << >> => wire_queues'[tc] # << >>
      BY <2>2, <3>2, <3>3 DEF WireQueueType
    <3> QED
      BY <1>1, <3>1 DEF WireAppend, WireType
  <2>5. ThreadType'
    BY <1>1, GotoType DEF WireAppend, Producers, Pcs, RxStates, DrainStates
  <2> QED
    BY <1>1, <2>3, <2>4, <2>5, Unchanged DEF WireAppend
<1>2. CASE BumpLoad(t)
  <2> DEFINE r == [thread[t] EXCEPT !.pc = "store", !.seq = wire_seq]
  <2>1. r \in [pc : Pcs(t), item : Item, offset : Nat, seq : Nat] /\ r.item.tc \in TC
    BY <1>2, ThreadFacts DEF BumpLoad, WireQueueType, Producers, RxStates, DrainStates, Pcs
  <2>2. thread' = [thread EXCEPT ![t] = r]
    BY <1>2 DEF BumpLoad
  <2> HIDE DEF r
  <2>3. ThreadType'
    BY <2>1, <2>2, SetThreadType
  <2> QED
    BY <1>2, <2>3, Unchanged DEF BumpLoad, wires
<1>3. CASE BumpStore(t)
  <2>1. ThreadType' /\ StatsType'
    BY <1>3, CountsType DEF BumpStore
  <2>2. wire_seq' \in Nat /\ wire_queues' = wire_queues
    BY <1>3, ThreadFacts DEF BumpStore
  <2>3. WireQueueType'
    BY <2>2 DEF WireQueueType
  <2> QED
    BY <1>3, <2>1, <2>3, Unchanged DEF BumpStore
<1>4. CASE Counted(t)
  <2>1. ThreadType' /\ StatsType'
    BY <1>4, CountsType DEF Counted
  <2> QED
    BY <1>4, <2>1, Unchanged DEF Counted, wires
<1> QED
  BY <1>1, <1>2, <1>3, <1>4

LEMMA TypeEnqueue ==
  ASSUME TypeOK, Finite, Arrival \/ EnqueueRest
  PROVE  TypeOK' /\ Finite'
<1> USE DEF TypeOK
<1>1. ASSUME NEW tc \in RawTC, EnqueueBypass(tc) PROVE TypeOK' /\ Finite'
  <2> DEFINE i == [NoItem EXCEPT !.frame = arrived + 1, !.tc = tc]
  <2>5. arrived + 1 \in Nat /\ tc \in Nat
    BY BoundsAssumption DEF HistoryType
  <2>0. i \in Item /\ i.tc = tc
    BY <2>5 DEF NoItem, Item
  <2>4. Send(i) /\ Calls("rx", i)
    BY <1>1 DEF EnqueueBypass
  <2> HIDE DEF i
  <2>3. out' \in Seq([frame : Nat, tc : Nat, held : BOOLEAN])
    BY <2>0, <2>4, SendType DEF Item
  <2>1. HistoryType'
    BY <1>1, <2>3, BoundsAssumption DEF EnqueueBypass, Arrive, HistoryType
  <2>2. ThreadType'
    BY <2>0, <2>4, CallsType DEF Producers
  <2> QED
    BY <1>1, <2>1, <2>2, Unchanged DEF EnqueueBypass, wires
<1>2. ASSUME NEW tc \in RawTC, EnqueueSample(tc) PROVE TypeOK' /\ Finite'
  <2>1. tc \in Nat /\ now \in Nat /\ config \in Configs
    BY BoundsAssumption DEF PortType
  <2> DEFINE r == [pc |-> "gate", offset |-> CycleOffset(config, now), seq |-> 0,
                   item |-> [frame |-> arrived + 1, tc |-> Clamp(tc),
                             at |-> now, held |-> FALSE]]
  <2>7. Clamp(tc) \in TC /\ Clamp(tc) \in Nat
    BY <2>1, ClampType, ClassFacts
  <2>8. CycleOffset(config, now) \in Nat
    BY <2>1, OffsetType
  <2>9. arrived + 1 \in Nat
    BY BoundsAssumption DEF HistoryType
  <2>4. r \in [pc : Pcs("rx"), item : Item, offset : Nat, seq : Nat] /\ r.item.tc \in TC
    BY <2>1, <2>7, <2>8, <2>9 DEF Item, RxStates, Pcs
  <2>5. thread' = [thread EXCEPT !["rx"] = r]
    BY <1>2 DEF EnqueueSample
  <2>6. "rx" \in Producers
    BY DEF Producers
  <2> HIDE DEF r
  <2>2. ThreadType'
    BY <2>4, <2>5, <2>6, SetThreadType
  <2>3. HistoryType'
    BY <1>2, BoundsAssumption DEF EnqueueSample, Arrive, HistoryType
  <2> QED
    BY <1>2, <2>2, <2>3, Unchanged DEF EnqueueSample, wires
<1>3. CASE EnqueueJudge
  <2>2. "rx" \in Producers
    BY DEF Producers
  <2> DEFINE item == thread["rx"].item
             open == GateAt(config, item.tc, thread["rx"].offset)
             r == IF open THEN [NoThread EXCEPT !.pc = "open", !.item = [item EXCEPT !.at = 0]]
                  ELSE [NoThread EXCEPT !.pc = "closed", !.item = item]
  <2>5. item \in Item /\ item.tc \in TC /\ item = thread["rx"].item
    BY <1>3, <2>2, ThreadFacts DEF EnqueueJudge
  <2>4. thread' = [thread EXCEPT !["rx"] = r]
    BY <1>3 DEF EnqueueJudge
  <2> HIDE DEF open, item
  <2>3. r \in [pc : Pcs("rx"), item : Item, offset : Nat, seq : Nat] /\ r.item.tc \in TC
    BY <2>5 DEF Item, RxStates, Pcs, NoThread
  <2> HIDE DEF r
  <2>1. ThreadType'
    BY <2>2, <2>3, <2>4, SetThreadType
  <2> QED
    BY <1>3, <2>1, Unchanged DEF EnqueueJudge, wires
<1>4. CASE EnqueueSend
  <2>1. thread["rx"].item \in Item /\ thread["rx"].item.tc \in TC \union RawTC
    BY DEF ThreadType, Producers
  <2>2. HistoryType'
    BY <1>4, <2>1, SendType DEF EnqueueSend, HistoryType, Item
  <2>3. ThreadType'
    BY <1>4, <2>1, CallsType DEF EnqueueSend, Producers
  <2> QED
    BY <1>4, <2>2, <2>3, Unchanged DEF EnqueueSend, wires
<1>5. CASE EnqueueHold
  <2>1. thread["rx"].item \in Item /\ thread["rx"].item.tc \in TC
    BY <1>5 DEF EnqueueHold, ThreadType, Producers
  <2> DEFINE item == [thread["rx"].item EXCEPT !.held = TRUE]
  <2>2. item \in Item /\ item.tc \in TC /\ queues' = [queues EXCEPT ![item.tc] = @ \union {item}]
    BY <1>5, <2>1 DEF EnqueueHold, Item
  <2>3. QueueType' /\ Finite'
    BY <2>2, FS_AddElement, ZenonT(30), ZenonT(30) DEF QueueType, Finite
  <2>4. ThreadType'
    BY <1>5, GotoType DEF EnqueueHold, Producers, Pcs, RxStates
  <2> QED
    BY <1>5, <2>3, <2>4, Unchanged DEF EnqueueHold, wires
<1>6. CASE EnqueueCount
  <2>1. StatsType'
    BY <1>6 DEF EnqueueCount, StatsType, ThreadType, Producers
  <2>2. ThreadType'
    BY <1>6, GotoType DEF EnqueueCount, Producers, Pcs, RxStates
  <2> QED
    BY <1>6, <2>1, <2>2, Unchanged DEF EnqueueCount, wires
<1>7. CASE EnqueueLoadSeq
  <2>2. "rx" \in Producers
    BY DEF Producers
  <2> DEFINE r == [thread["rx"] EXCEPT !.pc = "append", !.seq = wire_seq]
  <2>3. r \in [pc : Pcs("rx"), item : Item, offset : Nat, seq : Nat] /\ r.item.tc \in TC
    BY <1>7, <2>2, ThreadFacts DEF EnqueueLoadSeq, WireQueueType, RxStates, Pcs
  <2>4. thread' = [thread EXCEPT !["rx"] = r]
    BY <1>7 DEF EnqueueLoadSeq
  <2> HIDE DEF r
  <2>1. ThreadType'
    BY <2>2, <2>3, <2>4, SetThreadType
  <2> QED
    BY <1>7, <2>1, Unchanged DEF EnqueueLoadSeq, wires
<1> QED
  BY <1>1, <1>2, <1>3, <1>4, <1>5, <1>6, <1>7, TypeAppend DEF Arrival, EnqueueRest, Producers

\* The three places of the drain loop that touch the batch.
LEMMA TypeDrain ==
  ASSUME TypeOK, Finite, DrainLoop
  PROVE  TypeOK' /\ Finite'
<1> USE DEF TypeOK
<1>0. "drain" \in Producers /\ "drain" # "rx"
  BY DEF Producers
<1>1. CASE DrainSample
  <2>1. config.cycle_us * 3 \in Nat /\ now \in Nat
    BY ConfigsAssumption, BoundsAssumption DEF PortType
  <2>2. BatchType'
    BY <1>1, <2>1 DEF DrainSample, BatchType
  <2>3. ThreadType'
    BY <1>0, <1>1, GotoType DEF DrainSample, Pcs, DrainStates
  <2>4. WireType'
    BY <1>1 DEF DrainSample, BeginRound, WireType, wires
  <2> QED
    BY <1>1, <2>2, <2>3, <2>4, Unchanged DEF DrainSample, wires
<1>2. CASE DrainScan
  <2>1. \A tc \in TC : Expired(tc) \subseteq queues[tc] /\ Released(tc) \subseteq queues[tc]
    BY DEF Expired, Released
  <2>2. \A tc \in TC : queues[tc] \subseteq Item
    BY DEF QueueType
  <2>3. QueueType' /\ Finite'
    <3>1. \A tc \in TC : queues'[tc] \subseteq queues[tc] /\ queues'[tc] \in SUBSET Item
      BY <1>2, <2>2 DEF DrainScan
    <3>2. queues' = [tc \in TC |-> queues'[tc]]
      BY <1>2 DEF DrainScan
    <3>3. queues' \in [TC -> SUBSET Item]
      BY <3>1, <3>2
    <3> QED
      BY <3>1, <3>3, FS_Subset DEF QueueType, Finite
  <2>4. BatchType'
    <3>1. \A i \in UNION {Released(tc) : tc \in TC} : i \in Item /\ i.tc \in TC
      BY <2>1, <2>2 DEF QueueType
    <3>2. batch' = [now |-> 0, max_age |-> 0, use_wire |-> batch.use_wire,
                    ready |-> UNION {Released(tc) : tc \in TC}]
      BY <1>2 DEF DrainScan, NoBatch
    <3> QED
      BY <3>1, <3>2 DEF BatchType
  <2>5. StatsType'
    <3> DEFINE extra(tc) == IF tc \in TC THEN Cardinality(Expired(tc)) ELSE 0
    <3>1. \A tc \in TC \union RawTC : extra(tc) \in Nat
      BY <2>1, FS_Subset, FS_CardinalityType DEF Finite
    <3>2. stats' = [stats EXCEPT !.dropped =
                      [tc \in TC \union RawTC |-> stats.dropped[tc] + extra(tc)]]
      BY <1>2 DEF DrainScan
    <3> HIDE DEF extra
    <3> QED
      BY <3>1, <3>2 DEF StatsType
  <2>6. HistoryType'
    <3>1. {[frame |-> i.frame, tc |-> i.tc] : i \in UNION {Expired(tc) : tc \in TC}}
            \subseteq [frame : Nat, tc : Nat]
      BY <2>1, <2>2 DEF Item
    <3> QED
      BY <1>2, <3>1 DEF DrainScan, HistoryType
  <2>7. ThreadType'
    BY <1>0, <1>2, GotoType DEF DrainScan, Pcs, DrainStates
  <2> QED
    BY <1>2, <2>3, <2>4, <2>5, <2>6, <2>7, Unchanged DEF DrainScan, wires
<1>3. CASE DrainDone
  <2>1. BatchType'
    BY <1>3 DEF DrainDone, BatchType, NoBatch
  <2>2. ThreadType'
    BY <1>0, <1>3, GotoType DEF DrainDone, Pcs, DrainStates
  <2> QED
    BY <1>3, <2>1, <2>2, Unchanged DEF DrainDone, wires
<1>4. ASSUME NEW item \in batch.ready, DrainSend(item) PROVE TypeOK' /\ Finite'
  <2>1. item \in Item /\ item.tc \in TC
    BY DEF BatchType
  <2>2. BatchType'
    BY <1>4 DEF DrainSend, TakeReady, BatchType
  <2>3. ThreadType'
    <3>1. [item EXCEPT !.at = 0] \in Item /\ [item EXCEPT !.at = 0].tc \in TC
      BY <2>1 DEF Item
    <3> QED
      BY <1>0, <1>4, <3>1, CallsType DEF DrainSend
  <2>4. HistoryType'
    BY <1>4, <2>1, SendType DEF DrainSend, HistoryType, Item
  <2> QED
    BY <1>4, <2>2, <2>3, <2>4, Unchanged DEF DrainSend, wires
<1>5. ASSUME NEW item \in batch.ready, DrainLoadSeq(item) PROVE TypeOK' /\ Finite'
  <2>1. item \in Item /\ item.tc \in TC
    BY DEF BatchType
  <2>2. BatchType'
    BY <1>5 DEF DrainLoadSeq, TakeReady, BatchType
  <2> DEFINE r == [pc |-> "append", item |-> [item EXCEPT !.at = 0],
                   offset |-> 0, seq |-> wire_seq]
  <2>3. r \in [pc : Pcs("drain"), item : Item, offset : Nat, seq : Nat] /\ r.item.tc \in TC
    BY <1>0, <2>1 DEF Pcs, DrainStates, Item, WireQueueType
  <2>4. thread' = [thread EXCEPT !["drain"] = r]
    BY <1>5 DEF DrainLoadSeq
  <2> HIDE DEF r
  <2>5. ThreadType'
    BY <1>0, <2>3, <2>4, SetThreadType
  <2> QED
    BY <1>5, <2>2, <2>5, Unchanged DEF DrainLoadSeq, wires
<1> QED
  BY <1>0, <1>1, <1>2, <1>3, <1>4, <1>5, TypeAppend DEF DrainLoop

LEMMA TypeWire ==
  ASSUME TypeOK, Finite, WireLoop
  PROVE  TypeOK' /\ Finite'
<1> USE DEF TypeOK
<1> DEFINE Base == [pc : {"idle", "look", "gate", "busy"}, tc : 0 .. NumTC, now : Nat,
                    offset : Nat, best : TC \union {-1}, item : Item, left : 0 .. TxTicks]
<1>0. NoWire \in Base /\ NoWire.best = -1 /\ NoWire.pc = "idle"
  BY NumTCAssumption, BoundsAssumption DEF NoWire, NoItem, Item
<1>1. CASE WireSample
  <2>1. now \in Nat
    BY BoundsAssumption DEF PortType
  <2>2. wire' \in Base /\ wire'.best = -1 /\ wire'.pc # "gate"
    BY <1>0, <1>1, <2>1 DEF WireSample
  <2>3. WireType'
    BY <1>1, <2>2, ClassFacts DEF WireSample, BeginRound, WireType
  <2> QED
    BY <1>1, <2>3, Unchanged DEF WireSample, wires
<1>2. CASE WireSkip
  <2>1. wire.tc + 1 \in 0 .. NumTC
    BY <1>2, NumTCAssumption DEF WireSkip, TC
  <2>2. WireType'
    BY <1>2, <2>1 DEF WireSkip, WireType, wires
  <2> QED
    BY <1>2, <2>2, Unchanged DEF WireSkip, wires
<1>3. CASE WireOffset
  <2>1. CycleOffset(config, wire.now) \in Nat
    BY OffsetType DEF PortType, WireType
  <2>2. WireType'
    BY <1>3, <2>1 DEF WireOffset, WireType, wires
  <2> QED
    BY <1>3, <2>2, Unchanged DEF WireOffset, wires
<1>4. CASE WireJudge
  <2>1. wire.tc \in TC /\ wire_queues[wire.tc] # << >> /\ wire.tc + 1 \in 0 .. NumTC
    BY <1>4, NumTCAssumption DEF WireJudge, WireType, TC
  <2>2. \/ wire' = [wire EXCEPT !.pc = "look", !.tc = @ + 1, !.offset = 0, !.best = wire.tc]
        \/ wire' = [wire EXCEPT !.pc = "look", !.tc = @ + 1, !.offset = 0, !.best = wire.best]
    BY <1>4 DEF WireJudge
  <2>5. \E b \in {wire.tc, wire.best} :
          wire' = [pc |-> "look", tc |-> wire.tc + 1, now |-> wire.now, offset |-> 0,
                   best |-> b, item |-> wire.item, left |-> wire.left]
    BY <2>2 DEF WireType
  <2>3. wire' \in Base /\ wire'.pc # "gate" /\ wire'.best \in {wire.tc, wire.best}
    BY <2>1, <2>5 DEF WireType
  <2>4. WireType'
    BY <1>4, <2>1, <2>3 DEF WireJudge, WireType, wires
  <2> QED
    BY <1>4, <2>4, Unchanged DEF WireJudge, wires
<1>5. CASE WireTake
  <2> DEFINE q == wire_queues[wire.best]
             W == [item : Item, seq : Nat]
  <2>1. wire.best \in TC /\ q \in Seq(W) /\ q # << >>
    BY <1>5 DEF WireTake, WireType, WireQueueType
  <2>2. Head(q) \in W /\ Tail(q) \in Seq(W)
    BY <2>1, HeadTailProperties
  <2>8. wire' = [pc |-> "busy", tc |-> 0, now |-> 0, offset |-> 0, best |-> -1,
                 item |-> Head(q).item, left |-> TxTicks]
    BY <1>5 DEF WireTake, NoWire
  <2>3. wire' \in Base /\ wire'.best = -1 /\ wire'.pc # "gate"
    BY <2>2, <2>8, BoundsAssumption, NumTCAssumption
  <2>4. WireType'
    BY <1>5, <2>3, ClassFacts DEF WireTake, WireType
  <2>5. wire_queues' = [wire_queues EXCEPT ![wire.best] = Tail(q)] /\ wire_seq' = wire_seq
    BY <1>5 DEF WireTake
  <2>6. \A k \in DOMAIN Tail(q) : Tail(q)[k].item.tc = wire.best
    <3>1. \A k \in DOMAIN q : q[k].item.tc = wire.best
      BY <2>1 DEF WireQueueType
    <3> HIDE DEF q
    <3> QED
      BY <2>1, <3>1
  <2> HIDE DEF q
  <2>7. WireQueueType'
    BY <2>1, <2>2, <2>5, <2>6 DEF WireQueueType
  <2> QED
    BY <1>5, <2>4, <2>7, Unchanged DEF WireTake
<1>6. CASE WireNothing
  <2>1. WireType'
    BY <1>0, <1>6, ClassFacts DEF WireNothing, WireType
  <2> QED
    BY <1>6, <2>1, Unchanged DEF WireNothing, wires
<1>7. CASE WireSend
  <2>1. wire.item \in Item
    BY DEF WireType
  <2>2. HistoryType'
    BY <1>7, <2>1, SendType DEF WireSend, HistoryType, Item
  <2>3. WireType'
    BY <1>0, <1>7, ClassFacts DEF WireSend, WireType
  <2> QED
    BY <1>7, <2>2, <2>3, Unchanged DEF WireSend, wires
<1> QED
  BY <1>1, <1>2, <1>3, <1>4, <1>5, <1>6, <1>7 DEF WireLoop

LEMMA TypeOther ==
  ASSUME TypeOK, Finite, (\E c \in Configs : UpdateConfig(c)) \/ Stop \/ Tick
  PROVE  TypeOK' /\ Finite'
<1> USE DEF TypeOK
<1>1. ASSUME NEW c \in Configs, UpdateConfig(c) PROVE TypeOK' /\ Finite'
  <2>1. PortType'
    BY <1>1, BoundsAssumption DEF UpdateConfig, PortType
  <2> QED
    BY <1>1, <2>1, Unchanged DEF UpdateConfig, wires, locals
<1>2. CASE Stop
  <2>1. PortType'
    BY <1>2 DEF Stop, PortType
  <2> QED
    BY <1>2, <2>1, Unchanged DEF Stop, wires, locals
<1>3. CASE Tick
  <2>1. now' \in 0 .. MaxTime
    BY <1>3, BoundsAssumption DEF Tick, PortType
  <2>2. PortType'
    BY <1>3, <2>1 DEF Tick, PortType, port
  <2> DEFINE left == IF wire.left > 0 THEN wire.left - 1 ELSE 0
  <2>3. left \in 0 .. TxTicks
    BY BoundsAssumption DEF WireType
  <2>4. WireType'
    BY <1>3, <2>3 DEF Tick, WireType, wires
  <2> QED
    BY <1>3, <2>2, <2>4, Unchanged DEF Tick, wires
<1> QED
  BY <1>1, <1>2, <1>3

LEMMA TypesKept == Spec => [](TypeOK /\ Finite)
<1>1. TypeOK /\ Finite /\ [Next]_vars => TypeOK' /\ Finite'
  <2> SUFFICES ASSUME TypeOK, Finite, [Next]_vars PROVE TypeOK' /\ Finite'
    OBVIOUS
  <2>1. CASE UNCHANGED vars
    BY <2>1, Unchanged DEF vars, TypeOK, port, wires, locals
  <2> QED
    BY <2>1, TypeEnqueue, TypeDrain, TypeWire, TypeOther DEF Next
<1> QED
  BY <1>1, TypeInit, PTL DEF Spec

\* Whatever the threads, the dashboard and the clock do, every variable keeps
\* its type; in particular the class the wire loop is about to pop has a frame.
THEOREM TypeCorrect == Spec => []TypeOK
  BY TypesKept, PTL

-----------------------------------------------------------------------------
(***************************************************************************)
(* Time.  While the port runs under the configuration it started with, a   *)
(* thread that judges a gate uses the present instant: with Prompt the     *)
(* clock does not move before its round is complete.                       *)
(***************************************************************************)
GateOpen(tc) == IsGateOpen(config, tc, now)

RxTimely ==
  LET rx == thread["rx"]
  IN  /\ rx.pc = "gate" => rx.offset = CycleOffset(config, now)
      /\ rx.pc = "closed" => ~GateOpen(rx.item.tc)
      /\ rx.pc = "open" => GateOpen(rx.item.tc)

DrainTimely ==
  /\ thread["drain"].pc = "scan" => batch.now = now
  /\ thread["drain"].pc # "idle" => "drain" \in polled
  /\ "drain" \in polled /\ thread["drain"].pc # "scan" =>
       \A tc \in TC : GateOpen(tc) => queues[tc] = {}
  /\ \A i \in batch.ready : thread["drain"].pc # "idle" /\ GateOpen(i.tc)

WireTimely ==
  /\ wire.pc # "idle" => wire_on
  /\ wire.pc \in {"look", "gate"} => wire.now = now
  /\ wire.best # -1 => wire.pc \in {"look", "gate"} /\ GateOpen(wire.best)
  /\ wire.pc = "gate" => wire.offset = CycleOffset(config, wire.now)

AsStarted == running /\ updates = 0
Timely == AsStarted => RxTimely /\ DrainTimely /\ WireTimely

LEMMA TimelyInit == Init => Timely
  BY DEF Init, Timely, RxTimely, DrainTimely, WireTimely, NoThread, NoBatch, NoWire, Producers

\* The port stays as started, and the clock stands still, in every step of a thread.
LEMMA TimelySame ==
  ASSUME TypeOK, Timely, AsStarted, UNCHANGED <<now, config>>
  PROVE  /\ UNCHANGED <<thread["rx"]>> => RxTimely'
         /\ UNCHANGED <<thread["drain"], batch, queues, polled>> => DrainTimely'
         /\ UNCHANGED <<wire, wire_on>> => WireTimely'
<1>1. RxTimely /\ DrainTimely /\ WireTimely
  BY DEF Timely
<1>2. \A tc : GateOpen(tc)' <=> GateOpen(tc)
  BY DEF GateOpen
<1> QED
  BY <1>1, <1>2 DEF RxTimely, DrainTimely, WireTimely

LEMMA TimelyRx ==
  ASSUME TypeOK, Timely, AsStarted, Arrival \/ EnqueueRest
  PROVE  RxTimely' /\ DrainTimely' /\ WireTimely'
<1> USE DEF TypeOK
<1>0. /\ thread \in [Producers -> [pc : RxStates \union DrainStates, item : Item,
                                   offset : Nat, seq : Nat]]
      /\ "rx" \in Producers /\ "drain" \in Producers
      /\ thread["rx"].item \in Item
      /\ thread["rx"].pc # "sent" => thread["rx"].item.tc \in TC
      /\ \A r : [thread EXCEPT !["rx"] = r]["rx"] = r /\ [thread EXCEPT !["rx"] = r]["drain"] = thread["drain"]
  BY DEF ThreadType, Producers
<1>1. UNCHANGED <<now, config, wire, wire_on, batch, polled>> /\ thread'["drain"] = thread["drain"]
  BY <1>0 DEF Arrival, EnqueueRest, EnqueueBypass, EnqueueSample, EnqueueJudge, EnqueueSend,
     EnqueueHold,
     EnqueueCount, EnqueueLoadSeq, WireAppend, BumpLoad, BumpStore, Goto, port, locals, Calls,
     Counts, Counted
<1>2. WireTimely'
  BY <1>1, TimelySame
<1>3. DrainTimely'
  <2>1. CASE queues' = queues
    BY <1>1, <2>1, TimelySame
  <2>2. CASE EnqueueHold
    <3> DEFINE tc == thread["rx"].item.tc
    <3>1. ~GateOpen(tc) /\ \A d \in TC : d # tc => queues'[d] = queues[d]
      BY <1>0, <2>2 DEF EnqueueHold, Timely, RxTimely, QueueType, Item
    <3>2. \A d \in TC : GateOpen(d)' => GateOpen(d) /\ queues'[d] = queues[d]
      BY <1>1, <3>1 DEF GateOpen
    <3>3. \A d : GateOpen(d)' <=> GateOpen(d)
      BY <1>1 DEF GateOpen
    <3> QED
      BY <1>1, <3>2, <3>3 DEF DrainTimely, Timely
  <2> QED
    BY <2>1, <2>2 DEF Arrival, EnqueueRest, EnqueueBypass, EnqueueSample, EnqueueJudge, EnqueueSend,
       EnqueueCount, EnqueueLoadSeq, WireAppend, BumpLoad, BumpStore, Counted
<1>4. RxTimely'
  <2>0. \A tc : GateOpen(tc)' <=> GateOpen(tc)
    BY <1>1 DEF GateOpen
  <2>1. CASE thread'["rx"].pc \in {"idle", "count", "append", "bump", "store", "sent"}
    BY <2>1 DEF RxTimely
  <2>3. CASE \E tc \in RawTC : EnqueueSample(tc)
    BY <1>0, <1>1, <2>3 DEF EnqueueSample, RxTimely, GateOpen
  <2>4. CASE EnqueueJudge
    <3> DEFINE item == thread["rx"].item
    <3>1. thread["rx"].offset = CycleOffset(config, now)
      BY <2>4 DEF EnqueueJudge, Timely, RxTimely
    <3>2. GateAt(config, item.tc, thread["rx"].offset) <=> GateOpen(item.tc)
      BY <3>1 DEF GateOpen, IsGateOpen
    <3>3. /\ thread'["rx"].item.tc = item.tc
          /\ thread'["rx"].pc \in {"open", "closed"}
          /\ thread'["rx"].pc = "open" <=> GateAt(config, item.tc, thread["rx"].offset)
      BY <1>0, <2>4 DEF EnqueueJudge, NoThread, Item
    <3> QED
      BY <2>0, <3>2, <3>3 DEF RxTimely
  <2>5. CASE EnqueueSend \/ EnqueueHold \/ EnqueueCount \/ EnqueueLoadSeq
              \/ WireAppend("rx") \/ BumpLoad("rx") \/ BumpStore("rx") \/ Counted("rx")
    <3>1. \A pc : Goto("rx", pc) => thread'["rx"].pc = pc
      BY <1>0 DEF Goto, NoThread
    <3>2. \A pc, n : thread' = [thread EXCEPT !["rx"] = [@ EXCEPT !.pc = pc, !.seq = n]]
                      => thread'["rx"].pc = pc
      BY <1>0
    <3>3. BumpStore("rx") \/ Counted("rx") => thread'["rx"].pc = "idle"
      BY <1>0 DEF BumpStore, Counted, Counts, NoThread
    <3>4. EnqueueSend => thread'["rx"].pc = "sent"
      BY <1>0 DEF EnqueueSend, Calls, NoThread
    <3> QED
      BY <2>1, <2>5, <3>1, <3>2, <3>3, <3>4 DEF EnqueueHold, EnqueueCount, EnqueueLoadSeq,
         WireAppend, BumpLoad
  <2>6. CASE \E tc \in RawTC : EnqueueBypass(tc)
    <3>1. thread'["rx"].pc = "sent"
      BY <1>0, <2>6 DEF EnqueueBypass, Calls, NoThread
    <3> QED
      BY <2>1, <3>1
  <2> QED
    BY <2>3, <2>4, <2>5, <2>6 DEF Arrival, EnqueueRest
<1> QED
  BY <1>2, <1>3, <1>4

LEMMA TimelyDrain ==
  ASSUME TypeOK, Timely, AsStarted, Prompt, DrainLoop
  PROVE  RxTimely' /\ DrainTimely' /\ WireTimely'
<1> USE DEF TypeOK
<1>0. /\ thread \in [Producers -> [pc : RxStates \union DrainStates, item : Item,
                                   offset : Nat, seq : Nat]]
      /\ "rx" \in Producers /\ "drain" \in Producers
      /\ \A r : [thread EXCEPT !["drain"] = r]["drain"] = r /\ [thread EXCEPT !["drain"] = r]["rx"] = thread["rx"]
  BY DEF ThreadType, Producers
<1>1. UNCHANGED <<now, config, wire, wire_on>> /\ thread'["rx"] = thread["rx"]
  BY <1>0 DEF DrainLoop, DrainSample, DrainScan, DrainDone, DrainSend, DrainLoadSeq, WireAppend,
     BumpLoad,
     BumpStore, Goto, port, Calls, Counts, Counted
<1>2. WireTimely' /\ RxTimely'
  BY <1>1, TimelySame
<1>3. \A tc : GateOpen(tc)' <=> GateOpen(tc)
  BY <1>1 DEF GateOpen
<1>4. CASE DrainSample
  <2>1. thread'["drain"].pc = "scan" /\ batch'.now = now /\ batch'.ready = {} /\ "drain" \in polled'
    BY <1>0, <1>4 DEF DrainSample, Goto, BeginRound
  <2> QED
    BY <1>1, <1>2, <2>1 DEF DrainTimely
<1>5. CASE DrainScan
  <2>1. batch.now = now /\ "drain" \in polled
    BY <1>5 DEF DrainScan, Timely, DrainTimely
  <2>2. thread'["drain"].pc = "batch" /\ polled' = polled
    BY <1>0, <1>5 DEF DrainScan, Goto
  <2>3. \A tc \in TC : IsGateOpen(config, tc, batch.now) <=> GateOpen(tc)
    BY <2>1 DEF GateOpen
  <2>4. ASSUME NEW tc \in TC, GateOpen(tc) PROVE queues'[tc] = {}
    BY <1>5, <2>3, <2>4 DEF DrainScan, Released
  <2>5. ASSUME NEW i \in batch'.ready PROVE GateOpen(i.tc)
    <3>1. PICK tc \in TC : i \in Released(tc)
      BY <1>5, <2>5 DEF DrainScan, NoBatch
    <3>2. i \in queues[tc] /\ GateOpen(tc)
      BY <2>3, <3>1 DEF Released
    <3> QED
      BY <3>2 DEF QueueType
  <2> QED
    BY <1>2, <1>3, <2>1, <2>2, <2>4, <2>5 DEF DrainTimely
<1>6. CASE UNCHANGED <<queues, polled>> /\ batch'.ready \subseteq batch.ready
           /\ thread["drain"].pc \notin {"idle", "scan"}
           /\ thread'["drain"].pc \notin {"idle", "scan"}
  BY <1>2, <1>3, <1>6 DEF DrainTimely, Timely
<1>7. CASE DrainDone
  <2>1. /\ thread["drain"].pc = "batch" /\ thread'["drain"].pc = "idle"
        /\ batch'.ready = {} /\ UNCHANGED <<queues, polled>>
    BY <1>0, <1>7 DEF DrainDone, Goto, NoThread, NoBatch
  <2> QED
    BY <1>2, <1>3, <2>1 DEF DrainTimely, Timely
<1>8. ASSUME NEW i \in batch.ready, DrainSend(i) \/ DrainLoadSeq(i)
      PROVE  DrainTimely'
  <2>1. batch' = [batch EXCEPT !.ready = @ \ {i}] /\ thread["drain"].pc = "batch"
        /\ UNCHANGED <<queues, polled>>
    BY <1>8 DEF DrainSend, DrainLoadSeq, TakeReady
  <2>2. batch'.ready \subseteq batch.ready
    BY <2>1 DEF BatchType
  <2>3. thread'["drain"].pc \in {"sent", "append"}
    <3>1. CASE DrainSend(i)
      BY <1>0, <3>1 DEF DrainSend, Calls, NoThread
    <3>2. CASE DrainLoadSeq(i)
      BY <1>0, <3>2 DEF DrainLoadSeq, BatchType
    <3> QED
      BY <1>8, <3>1, <3>2
  <2> QED
    BY <1>6, <2>1, <2>2, <2>3
<1>9. CASE WireAppend("drain") \/ BumpLoad("drain") \/ BumpStore("drain") \/ Counted("drain")
  BY <1>0, <1>6, <1>9, ZenonT(30) DEF WireAppend, BumpLoad, BumpStore, Goto, NoThread, Counts, Counted
<1> QED
  BY <1>2, <1>4, <1>5, <1>7, <1>8, <1>9 DEF DrainLoop

\* What each step of the wire loop makes of its locals.
LEMMA WireLocals ==
  ASSUME TypeOK
  PROVE  /\ WireSample => wire_on /\ wire'.pc = "look" /\ wire'.now = now /\ wire'.best = -1
         /\ WireSkip => /\ wire'.pc = "look" /\ wire.pc = "look"
                        /\ wire'.now = wire.now /\ wire'.best = wire.best
         /\ WireOffset => /\ wire'.pc = "gate" /\ wire.pc = "look"
                          /\ wire'.now = wire.now /\ wire'.best = wire.best
                          /\ wire'.offset = CycleOffset(config, wire.now)
         /\ WireJudge => /\ wire'.pc = "look" /\ wire.pc = "gate" /\ wire'.now = wire.now
                         /\ \/ wire'.best = wire.best
                            \/ wire'.best = wire.tc /\ GateAt(config, wire.tc, wire.offset)
         /\ WireTake => /\ wire.pc = "look" /\ wire'.pc = "busy" /\ wire'.best = -1
                        /\ wire'.item = Head(wire_queues[wire.best]).item
         /\ WireNothing \/ WireSend => wire'.pc = "idle" /\ wire'.best = -1
<1> USE DEF TypeOK
<1>0. NoWire = [pc |-> "idle", tc |-> 0, now |-> 0, offset |-> 0, best |-> -1,
                item |-> NoItem, left |-> 0]
  BY DEF NoWire
<1>1. WireSample => wire_on /\ wire' = [pc |-> "look", tc |-> 0, now |-> now, offset |-> 0, best |-> -1,
                                           item |-> NoItem, left |-> 0]
  BY DEF WireSample, NoWire
<1>2. WireSkip => wire' = [pc |-> wire.pc, tc |-> wire.tc + 1, now |-> wire.now, offset |-> wire.offset,
                           best |-> wire.best, item |-> wire.item, left |-> wire.left]
  BY DEF WireSkip, WireType
<1>3. WireOffset => wire' = [pc |-> "gate", tc |-> wire.tc, now |-> wire.now,
                             offset |-> CycleOffset(config, wire.now),
                             best |-> wire.best, item |-> wire.item, left |-> wire.left]
  BY DEF WireOffset, WireType
<1>4. ASSUME WireJudge
      PROVE  \E b \in {wire.tc, wire.best} :
               /\ b = wire.best \/ GateAt(config, wire.tc, wire.offset)
               /\ wire' = [pc |-> "look", tc |-> wire.tc + 1, now |-> wire.now, offset |-> 0,
                           best |-> b, item |-> wire.item, left |-> wire.left]
  <2>1. PICK b \in {wire.tc, wire.best} :
          /\ b = wire.best \/ GateAt(config, wire.tc, wire.offset)
          /\ wire' = [wire EXCEPT !.pc = "look", !.tc = @ + 1, !.offset = 0, !.best = b]
    BY <1>4 DEF WireJudge
  <2> QED
    BY <2>1 DEF WireType
<1>5. WireTake => wire.pc = "look" /\ wire' = [pc |-> "busy", tc |-> 0, now |-> 0, offset |-> 0,
best |-> -1,
                           item |-> Head(wire_queues[wire.best]).item, left |-> TxTicks]
  BY DEF WireTake, NoWire
<1>6. WireNothing \/ WireSend => wire' = NoWire
  BY DEF WireNothing, WireSend
<1> QED
  BY <1>0, <1>1, <1>2, <1>3, <1>4, <1>5, <1>6 DEF WireSkip, WireOffset, WireJudge

LEMMA TimelyWire ==
  ASSUME TypeOK, Timely, AsStarted, WireLoop
  PROVE  RxTimely' /\ DrainTimely' /\ WireTimely'
<1>1. UNCHANGED <<now, config, wire_on, thread, batch, queues>> /\ WireTimely
  BY DEF WireLoop, WireSample, WireSkip, WireOffset, WireJudge, WireTake, WireNothing, WireSend,
     port, Timely
<1>2. RxTimely'
  BY <1>1, TimelySame
<1>3. DrainTimely'
  <2>1. "drain" \in polled' <=> "drain" \in polled
    BY DEF WireLoop, WireSample, WireSkip, WireOffset, WireJudge, WireTake, WireNothing, WireSend,
       BeginRound
  <2>2. \A tc : GateOpen(tc)' <=> GateOpen(tc)
    BY <1>1 DEF GateOpen
  <2> QED
    BY <1>1, <2>1, <2>2 DEF DrainTimely, Timely
<1>4. CASE WireSample
  BY <1>1, <1>2, <1>3, <1>4, WireLocals DEF WireTimely, GateOpen
<1>5. CASE WireSkip \/ WireOffset
  BY <1>1, <1>2, <1>3, <1>5, WireLocals DEF WireTimely, GateOpen
<1>6. CASE WireJudge
  <2>1. GateAt(config, wire.tc, wire.offset) <=> GateOpen(wire.tc)
    BY <1>1, <1>6, WireLocals DEF WireTimely, GateOpen, IsGateOpen
  <2> QED
    BY <1>1, <1>2, <1>3, <1>6, <2>1, WireLocals DEF WireTimely, GateOpen
<1>7. CASE WireTake
  BY <1>1, <1>2, <1>3, <1>7, WireLocals DEF WireTimely, GateOpen
<1>8. CASE WireNothing \/ WireSend
  BY <1>1, <1>2, <1>3, <1>8, WireLocals DEF WireTimely, GateOpen
<1> QED
  BY <1>2, <1>3, <1>4, <1>5, <1>6, <1>7, <1>8 DEF WireLoop

LEMMA TimelyTick ==
  ASSUME TypeOK, Timely, AsStarted, Prompt, Tick
  PROVE  RxTimely' /\ DrainTimely' /\ WireTimely'
<1>1. /\ thread["rx"].pc = "idle" /\ thread["drain"].pc = "idle"
      /\ UNCHANGED <<thread, batch, queues, wire_on>> /\ polled' = {}
      /\ wire_on => wire.pc \in {"idle", "busy"}
  BY DEF Tick, Caught, AsStarted, port
<1>2. batch.ready = {} /\ WireTimely
  BY <1>1 DEF Timely, DrainTimely
<1>3. wire'.pc = wire.pc /\ wire'.best = wire.best
  BY DEF Tick, TypeOK, WireType
<1> QED
  BY <1>1, <1>2, <1>3 DEF RxTimely, DrainTimely, WireTimely

LEMMA TimelyStep ==
  ASSUME Prompt, TypeOK, Timely, [Next]_vars
  PROVE  Timely'
<1> SUFFICES ASSUME AsStarted' PROVE RxTimely' /\ DrainTimely' /\ WireTimely'
  BY DEF Timely
<1>1. CASE Arrival \/ EnqueueRest
  <2>1. AsStarted
    BY <1>1 DEF AsStarted, Arrival, EnqueueRest, EnqueueBypass, EnqueueSample, EnqueueJudge,
       EnqueueSend,
       EnqueueHold, EnqueueCount, EnqueueLoadSeq, WireAppend, BumpLoad, BumpStore, port, Counted
  <2> QED
    BY <1>1, <2>1, TimelyRx
<1>2. CASE DrainLoop
  <2>1. AsStarted
    BY <1>2 DEF AsStarted, DrainLoop, DrainSample, DrainScan, DrainDone, DrainSend, DrainLoadSeq,
       WireAppend,
       BumpLoad, BumpStore, port, Counted
  <2> QED
    BY <1>2, <2>1, TimelyDrain
<1>3. CASE WireLoop
  <2>1. AsStarted
    BY <1>3 DEF AsStarted, WireLoop, WireSample, WireSkip, WireOffset, WireJudge, WireTake, WireNothing,
       WireSend, port
  <2> QED
    BY <1>3, <2>1, TimelyWire
<1>4. CASE Tick
  <2>1. AsStarted
    BY <1>4 DEF AsStarted, Tick, port
  <2> QED
    BY <1>4, <2>1, TimelyTick
<1>5. CASE UNCHANGED vars
  BY <1>5, TimelySame DEF vars, AsStarted, port, locals
<1>6. CASE Stop
  BY <1>6 DEF Stop, AsStarted
<1>7. ASSUME NEW c \in Configs, UpdateConfig(c) PROVE FALSE
  BY <1>7, BoundsAssumption DEF UpdateConfig, AsStarted, TypeOK, PortType
<1> QED
  BY <1>1, <1>2, <1>3, <1>4, <1>5, <1>6, <1>7 DEF Next

LEMMA AllTimely == ASSUME Prompt PROVE Spec => []Timely
<1>1. TypeOK /\ Timely /\ [Next]_vars => Timely'
  BY TimelyStep
<1> QED
  BY <1>1, TimelyInit, TypeCorrect, PTL DEF Spec

InWindow ==
  \A i \in {wire'.item} \union {out'[k] : k \in DOMAIN out'} :
    Starts(i) /\ config.enabled => IsGateOpen(config, i.tc, now)

LEMMA WindowStep ==
  ASSUME TypeOK, Timely, AsStarted, [Next]_vars
  PROVE  InWindow
<1> USE DEF TypeOK
<1>0. RxTimely /\ DrainTimely /\ WireTimely /\ \A tc : GateOpen(tc) <=> IsGateOpen(config, tc, now)
  BY DEF Timely, GateOpen
<1>h. out \in Seq([frame : Nat, tc : Nat, held : BOOLEAN])
  BY DEF HistoryType
<1>n. ASSUME UNCHANGED out, wire.pc = "busy" \/ wire'.pc # "busy"
      PROVE  InWindow
  BY <1>n, <1>h DEF Starts, InWindow
<1>s. ASSUME NEW i \in Item, Send(i), UNCHANGED wire, config.enabled => GateOpen(i.tc)
      PROVE  InWindow
  <2>1. out'[Len(out')].tc = i.tc
    BY <1>s, <1>h DEF Send
  <2> QED
    BY <1>0, <1>s, <2>1 DEF Starts, InWindow
<1>1. CASE WireTake
  <2>1. /\ wire.best \in TC /\ wire_queues[wire.best] # << >> /\ UNCHANGED out
        /\ wire'.item = Head(wire_queues[wire.best]).item
    BY <1>1, WireLocals DEF WireTake, WireType
  <2>2. Head(wire_queues[wire.best]).item.tc = wire.best
    <3>1. wire_queues[wire.best] \in Seq([item : Item, seq : Nat])
      BY <2>1 DEF WireQueueType
    <3>2. 1 \in DOMAIN wire_queues[wire.best]
      BY <2>1, <3>1
    <3> QED
      BY <2>1, <3>1, <3>2 DEF WireQueueType
  <2>3. GateOpen(wire.best)
    BY <1>0, <1>1 DEF WireTimely, WireTake
  <2> QED
    BY <1>0, <1>h, <2>1, <2>2, <2>3 DEF Starts, InWindow
<1>2. CASE EnqueueSend
  <2>1. thread["rx"].item \in Item
    BY DEF ThreadType, Producers
  <2> QED
    BY <1>0, <1>2, <1>s, <2>1 DEF EnqueueSend, RxTimely
<1>3. ASSUME NEW i \in batch.ready, DrainSend(i) PROVE InWindow
  BY <1>0, <1>3, <1>s DEF DrainSend, BatchType, DrainTimely
<1>4. ASSUME NEW tc \in RawTC, EnqueueBypass(tc) PROVE InWindow
  BY <1>4 DEF EnqueueBypass, InWindow
<1>5. CASE WireSend
  BY <1>5 DEF WireSend, Starts, InWindow
<1>6. CASE \/ \E tc \in RawTC : EnqueueSample(tc)
           \/ EnqueueJudge \/ EnqueueHold \/ EnqueueCount \/ EnqueueLoadSeq
           \/ \E t \in Producers : WireAppend(t) \/ BumpLoad(t) \/ BumpStore(t) \/ Counted(t)
           \/ DrainSample \/ DrainScan \/ DrainDone
           \/ \E i \in batch.ready : DrainLoadSeq(i)
           \/ (\E c \in Configs : UpdateConfig(c)) \/ Stop \/ UNCHANGED vars
  BY <1>6, <1>n DEF EnqueueSample, EnqueueJudge, EnqueueHold, EnqueueCount, EnqueueLoadSeq, WireAppend,
     BumpLoad, BumpStore, DrainSample, DrainScan, DrainDone, DrainLoadSeq, UpdateConfig, Stop,
     vars, locals, Counted
<1>7. CASE WireSample \/ WireSkip \/ WireOffset \/ WireJudge \/ WireNothing
  <2>1. UNCHANGED out /\ wire'.pc # "busy"
    BY <1>7, WireLocals DEF WireSample, WireSkip, WireOffset, WireJudge, WireNothing
  <2> QED
    BY <1>n, <2>1
<1>8. CASE Tick
  <2>1. UNCHANGED out /\ wire'.pc = wire.pc
    BY <1>8 DEF Tick, WireType
  <2> QED
    BY <1>n, <2>1
<1> QED
  BY <1>1, <1>2, <1>3, <1>4, <1>5, <1>6, <1>7, <1>8
     DEF Next, Arrival, EnqueueRest, DrainLoop, WireLoop, Producers

\* Whenever a frame starts to leave a port that runs under the configuration it
\* started with, the gate of its class is open: enqueue, the drain loop and the
\* wire loop all judge the gate at an instant that has not passed when they act,
\* provided a round takes less than a tick.
THEOREM WindowsKept ==
  ASSUME Prompt
  PROVE  Spec /\ []AsStarted => StartsInWindow
<1>1. TypeOK /\ Timely /\ AsStarted /\ [Next]_vars => [InWindow]_vars
  BY WindowStep
<1> QED
  BY <1>1, AllTimely, TypeCorrect, PTL DEF Spec, StartsInWindow, InWindow

\* No frame sleeps through an open window of a port whose configuration is not
\* changed: the drain loop empties the gate queue of every open class in each
\* tick, and enqueue holds a frame of such a class no more.
THEOREM NobodySleeps ==
  ASSUME Prompt
  PROVE  Spec /\ [](updates = 0) => NoSleeper
<1> DEFINE Awake ==
      now' # now /\ running => \A tc \in TC : IsGateOpen(config, tc, now) => queues[tc] = {}
<1>1. ASSUME TypeOK, Timely, updates = 0, [Next]_vars
      PROVE  Awake
  <2> SUFFICES ASSUME now' # now, running
               PROVE  \A tc \in TC : IsGateOpen(config, tc, now) => queues[tc] = {}
    OBVIOUS
  <2>1. Tick
    BY <1>1 DEF Next, Arrival, EnqueueRest, EnqueueBypass, EnqueueSample, EnqueueJudge, EnqueueSend,
       EnqueueHold, EnqueueCount, EnqueueLoadSeq, WireAppend, BumpLoad, BumpStore,
       DrainLoop, DrainSample, DrainScan, DrainDone, DrainSend, DrainLoadSeq,
       WireLoop, WireSample, WireSkip, WireOffset, WireJudge, WireTake, WireNothing, WireSend,
       UpdateConfig, Stop, vars, Counted
  <2>2. thread["drain"].pc = "idle" /\ "drain" \in polled /\ DrainTimely
    BY <1>1, <2>1 DEF Tick, Caught, Timely, AsStarted
  <2> QED
    BY <2>2 DEF DrainTimely, GateOpen
<1>2. TypeOK /\ Timely /\ updates = 0 /\ [Next]_vars => [Awake]_vars
  BY <1>1
<1> QED
  BY <1>2, AllTimely, TypeCorrect, PTL DEF Spec, NoSleeper

-----------------------------------------------------------------------------
(***************************************************************************)
(* The gate list.  The entries of a valid list partition the cycle, so     *)
(* that a class some entry opens is open once in every cycle.              *)
(***************************************************************************)
LEMMA EntryFacts ==
  ASSUME NEW gcl \in GateList
  PROVE  /\ Len(gcl) \in Nat /\ DOMAIN gcl = 1 .. Len(gcl)
         /\ \A i \in 1 .. Len(gcl) : gcl[i].duration_us \in Nat /\ gcl[i].gates \in SUBSET TC
<1>1. Len(gcl) \in Nat /\ DOMAIN gcl = 1 .. Len(gcl)
  BY LenProperties DEF GateList
<1>2. \A i \in 1 .. Len(gcl) : gcl[i] \in [gates : SUBSET TC, duration_us : Nat]
  BY ElementOfSeq DEF GateList
<1> QED
  BY <1>1, <1>2

LEMMA EndsLaid ==
  ASSUME NEW gcl \in GateList
  PROVE  Laid(Ends(gcl), [i \in 1 .. Len(gcl) |-> gcl[i].duration_us], Len(gcl))
<1>1. PICK n \in Nat : n = Len(gcl)
  BY EntryFacts
<1> DEFINE d == [i \in 1 .. n |-> gcl[i].duration_us]
           SumUpTo(e) == e = [i \in 0 .. n |-> IF i = 0 THEN 0 ELSE e[i - 1] + gcl[i].duration_us]
<1>2. ASSUME NEW e PROVE Laid(e, d, n) <=> SumUpTo(e)
  <2>1. \A i \in 0 .. n : i # 0 => d[i] = gcl[i].duration_us
    OBVIOUS
  <2> HIDE DEF d
  <2> QED
    BY <2>1 DEF Laid
<1>3. \E e : Laid(e, d, n)
  BY <1>1, LaidExists
<1>4. Ends(gcl) = CHOOSE e : SumUpTo(e)
  BY <1>1 DEF Ends
<1> HIDE DEF SumUpTo
<1>5. SumUpTo(Ends(gcl))
  BY <1>2, <1>3, <1>4
<1> QED
  BY <1>1, <1>2, <1>5

\* Where the entries of a valid list end.
LEMMA ValidEnds ==
  ASSUME NEW cfg, cfg.gcl \in GateList, Validate(cfg)
  PROVE  LET e == Ends(cfg.gcl)
             n == Len(cfg.gcl)
         IN  /\ e[0] = 0 /\ e[n] = cfg.cycle_us
             /\ \A i \in 1 .. n : e[i] = e[i - 1] + cfg.gcl[i].duration_us
             /\ \A i \in 0 .. n : e[i] \in Nat
             /\ \A i, j \in 0 .. n : i < j => e[i] < e[j]
<1>1. PICK gcl \in GateList : gcl = cfg.gcl
  OBVIOUS
<1>2. PICK n \in Nat : n = Len(gcl) /\ DOMAIN gcl = 1 .. n
  BY EntryFacts
<1>3. PICK d : d = [i \in 1 .. n |-> gcl[i].duration_us]
  OBVIOUS
<1>4. PICK e : e = Ends(gcl)
  OBVIOUS
<1>5. Laid(e, d, n)
  BY <1>2, <1>3, <1>4, EndsLaid
<1>6. \A i \in 1 .. n : d[i] \in Nat \ {0} /\ d[i] \in Nat /\ d[i] = gcl[i].duration_us
  <2>1. \A i \in 1 .. n : gcl[i].duration_us \in Nat
    BY <1>2, EntryFacts
  <2>2. \A i \in 1 .. n : gcl[i].duration_us > 0
    BY <1>1, <1>2 DEF Validate
  <2> QED
    BY <1>3, <2>1, <2>2
<1>7. /\ e[0] = 0 /\ \A i \in 1 .. n : e[i] = e[i - 1] + d[i]
      /\ \A i \in 0 .. n : e[i] \in Nat
  <2>1. \A i \in 1 .. n : d[i] \in Nat
    BY <1>6
  <2> QED
    BY <1>5, <2>1, LaidEnds
<1>8. \A i, j \in 0 .. n : i < j => e[i] < e[j]
  <2>1. \A i \in 1 .. n : d[i] \in Nat \ {0}
    BY <1>6
  <2> QED
    BY <1>5, <2>1, LaidIncrease
<1>9. e[n] = cfg.cycle_us
  BY <1>1, <1>2, <1>4 DEF Validate, TotalDuration
<1> QED
  BY <1>1, <1>2, <1>4, <1>6, <1>7, <1>8, <1>9

\* A class that some entry of a valid list opens is open once in every stretch of
\* a cycle's length.
LEMMA OpensOnce ==
  ASSUME NEW cfg, cfg.gcl \in GateList, cfg.cycle_us \in Nat \ {0}, cfg.base_time_ns \in Int,
  Validate(cfg),
         NEW k \in DOMAIN cfg.gcl, NEW tc \in cfg.gcl[k].gates, NEW a \in Int
  PROVE  \E t \in a .. a + cfg.cycle_us - 1 : IsGateOpen(cfg, tc, t)
<1>1. PICK gcl \in GateList : gcl = cfg.gcl
  OBVIOUS
<1>2. PICK e : e = Ends(gcl)
  OBVIOUS
<1>3. PICK n \in Nat : n = Len(gcl) /\ DOMAIN gcl = 1 .. n
  BY EntryFacts
<1>4. /\ e[0] = 0 /\ e[n] = cfg.cycle_us
      /\ \A i \in 0 .. n : e[i] \in Nat
      /\ \A i, j \in 0 .. n : i < j => e[i] < e[j]
  BY <1>1, <1>2, <1>3, ValidEnds
<1>5. k \in 1 .. n /\ k - 1 \in 0 .. n
  BY <1>1, <1>3
<1>6. e[k - 1] \in 0 .. cfg.cycle_us - 1
  BY <1>3, <1>4, <1>5
<1>7. PICK t \in a .. a + cfg.cycle_us - 1 : CycleOffset(cfg, t) = e[k - 1]
  <2>1. PICK c \in Nat \ {0} : c = cfg.cycle_us
    OBVIOUS
  <2>2. PICK b \in Int : b = cfg.base_time_ns
    OBVIOUS
  <2>3. PICK o \in 0 .. c - 1 : o = e[k - 1]
    BY <1>6, <2>1
  <2>4. PICK t \in Int : a <= t /\ t < a + c /\ Offset(t, b, c) = o
    BY OffsetIn
  <2>5. t \in a .. a + c - 1
    BY <2>4
  <2> QED
    BY <2>1, <2>2, <2>3, <2>4, <2>5 DEF CycleOffset, Offset
<1>8. GateAt(cfg, tc, e[k - 1])
  <2> DEFINE hits == {i \in DOMAIN gcl : e[i - 1] <= e[k - 1] /\ e[k - 1] < e[i]}
  <2>1. k \in hits
    BY <1>3, <1>4, <1>5
  <2>2. ASSUME NEW j \in hits PROVE k <= j
    <3>1. j \in 0 .. n /\ e[k - 1] < e[j]
      BY <1>3
    <3>2. ~ j < k - 1 /\ j # k - 1
      BY <1>4, <1>5, <3>1
    <3> QED
      BY <1>5, <3>1, <3>2
  <2> HIDE DEF hits
  <2>3. \E i \in hits : tc \in gcl[i].gates /\ \A j \in hits : i <= j
    BY <1>1, <2>1, <2>2
  <2> QED
    BY <1>1, <1>2, <2>3 DEF GateAt, hits
<1> QED
  BY <1>7, <1>8 DEF IsGateOpen

-----------------------------------------------------------------------------
(***************************************************************************)
(* A frame that is held has met no open gate since it arrived.             *)
(***************************************************************************)
ShutSince(tc, at) == \A t \in at .. now - 1 : ~IsGateOpen(config, tc, t)

Unserved ==
  AsStarted =>
    /\ \A tc \in TC : \A i \in queues[tc] : ShutSince(tc, i.at)
    /\ thread["rx"].pc \in {"gate", "closed"} => thread["rx"].item.at = now
    /\ thread["drain"].pc = "scan" => batch.max_age = 3 * config.cycle_us

LEMMA UnservedInit == Init => Unserved
  BY DEF Init, Unserved, NoThread, Producers

LEMMA UnservedRx ==
  ASSUME TypeOK, Unserved, AsStarted, Arrival \/ EnqueueRest
  PROVE  Unserved'
<1>0. /\ thread \in [Producers -> [pc : RxStates \union DrainStates, item : Item,
                                   offset : Nat, seq : Nat]]
      /\ "rx" \in Producers /\ "drain" \in Producers
      /\ thread["rx"].item \in Item
      /\ thread["rx"].pc # "sent" => thread["rx"].item.tc \in TC
      /\ \A r : [thread EXCEPT !["rx"] = r]["rx"] = r /\ [thread EXCEPT !["rx"] = r]["drain"] = thread["drain"]
  BY DEF TypeOK, ThreadType, Producers
<1>i. now \in Int
  BY BoundsAssumption DEF TypeOK, PortType
<1>1. UNCHANGED <<now, config, batch>> /\ thread'["drain"] = thread["drain"]
  BY <1>0 DEF Arrival, EnqueueRest, EnqueueBypass, EnqueueSample, EnqueueJudge, EnqueueSend,
     EnqueueHold,
     EnqueueCount, EnqueueLoadSeq, WireAppend, BumpLoad, BumpStore, Goto, port, locals, Calls,
     Counts, Counted
<1>2. ASSUME NEW tc, NEW at, ShutSince(tc, at) PROVE ShutSince(tc, at)'
  BY <1>1, <1>2 DEF ShutSince
<1>3. ASSUME UNCHANGED queues,
             thread'["rx"].pc \in {"gate", "closed"} => thread'["rx"].item.at = now
      PROVE  Unserved'
  BY <1>1, <1>2, <1>3 DEF Unserved
<1>4. CASE thread'["rx"].pc \in {"idle", "count", "open", "append", "bump", "store",
"sent"} /\ UNCHANGED queues
  BY <1>3, <1>4
<1>5. CASE \E tc \in RawTC : EnqueueBypass(tc)
  BY <1>0, <1>4, <1>5 DEF EnqueueBypass, Calls, NoThread
<1>6. CASE \E tc \in RawTC : EnqueueSample(tc)
  BY <1>0, <1>3, <1>6 DEF EnqueueSample
<1>7. CASE EnqueueJudge
  <2>1. thread'["rx"].pc = "open" \/ thread'["rx"].item = thread["rx"].item
    BY <1>0, <1>7 DEF EnqueueJudge, NoThread
  <2>2. thread["rx"].item.at = now /\ UNCHANGED queues
    BY <1>7 DEF EnqueueJudge, Unserved
  <2> QED
    BY <1>3, <2>1, <2>2
<1>8. CASE EnqueueHold
  <2>1. PICK item : item = [thread["rx"].item EXCEPT !.held = TRUE]
    OBVIOUS
  <2>2. item.at = now /\ item.tc \in TC
    BY <1>0, <1>8, <2>1 DEF EnqueueHold, Unserved, Item
  <2>3. queues' = [queues EXCEPT ![item.tc] = @ \union {item}]
    BY <1>8, <2>1 DEF EnqueueHold
  <2>4. thread'["rx"].pc = "count"
    BY <1>0, <1>8 DEF EnqueueHold, Goto
  <2>5. ASSUME NEW tc \in TC, NEW i \in queues'[tc]
        PROVE  ShutSince(tc, i.at)'
    <3>1. CASE i \in queues[tc]
      BY <1>2, <3>1 DEF Unserved
    <3>2. CASE i = item
      BY <1>i, <1>1, <2>2, <3>2 DEF ShutSince
    <3> QED
      BY <2>3, <2>5, <3>1, <3>2 DEF TypeOK, QueueType
  <2> QED
    BY <1>1, <2>4, <2>5 DEF Unserved
<1>9. CASE EnqueueSend \/ EnqueueCount \/ EnqueueLoadSeq
            \/ WireAppend("rx") \/ BumpLoad("rx") \/ BumpStore("rx") \/ Counted("rx")
  <2>1. \A pc : Goto("rx", pc) => thread'["rx"].pc = pc
    BY <1>0 DEF Goto, NoThread
  <2>2. \A pc, n : thread' = [thread EXCEPT !["rx"] = [@ EXCEPT !.pc = pc, !.seq = n]]
                    => thread'["rx"].pc = pc
    BY <1>0
  <2>3. BumpStore("rx") \/ Counted("rx") => thread'["rx"].pc = "idle"
    BY <1>0 DEF BumpStore, Counted, Counts, NoThread
  <2>4. EnqueueSend => thread'["rx"].pc = "sent"
    BY <1>0 DEF EnqueueSend, Calls, NoThread
  <2>5. UNCHANGED queues
    BY <1>9 DEF EnqueueSend, EnqueueCount, EnqueueLoadSeq, WireAppend, BumpLoad, BumpStore, Counted
  <2> QED
    BY <1>4, <1>9, <2>1, <2>2, <2>3, <2>4, <2>5 DEF EnqueueCount, EnqueueLoadSeq, WireAppend, BumpLoad
<1> QED
  BY <1>5, <1>6, <1>7, <1>8, <1>9 DEF Arrival, EnqueueRest

LEMMA UnservedDrain ==
  ASSUME TypeOK, Unserved, AsStarted, DrainLoop
  PROVE  Unserved'
<1>0. /\ thread \in [Producers -> [pc : RxStates \union DrainStates, item : Item,
                                   offset : Nat, seq : Nat]]
      /\ "rx" \in Producers /\ "drain" \in Producers
      /\ \A r : [thread EXCEPT !["drain"] = r]["drain"] = r /\ [thread EXCEPT !["drain"] = r]["rx"] = thread["rx"]
  BY DEF TypeOK, ThreadType, Producers
<1>1. UNCHANGED <<now, config>> /\ thread'["rx"] = thread["rx"]
  BY <1>0 DEF DrainLoop, DrainSample, DrainScan, DrainDone, DrainSend, DrainLoadSeq, WireAppend,
     BumpLoad,
     BumpStore, Goto, port, Calls, Counts, Counted
<1>2. ASSUME \A tc \in TC : queues'[tc] \subseteq queues[tc],
             thread'["drain"].pc = "scan" => batch'.max_age = 3 * config.cycle_us
      PROVE  Unserved'
  <2>1. ASSUME NEW tc \in TC, NEW i \in queues'[tc]
        PROVE  ShutSince(tc, i.at)'
    BY <1>1, <1>2, <2>1 DEF Unserved, ShutSince
  <2> QED
    BY <1>1, <1>2, <2>1 DEF Unserved
<1>3. CASE DrainSample
  <2>1. batch'.max_age = 3 * config.cycle_us /\ UNCHANGED queues
    BY <1>3, ConfigsAssumption DEF DrainSample, TypeOK, PortType
  <2> QED
    BY <1>2, <2>1
<1>4. CASE DrainScan
  <2>1. thread'["drain"].pc = "batch" /\ \A tc \in TC : queues'[tc] \subseteq queues[tc]
    BY <1>0, <1>4 DEF DrainScan, Goto
  <2> QED
    BY <1>2, <2>1
<1>5. ASSUME UNCHANGED queues, thread'["drain"].pc # "scan"
      PROVE  Unserved'
  BY <1>2, <1>5
<1>6. CASE DrainDone
  BY <1>0, <1>5, <1>6 DEF DrainDone, Goto, NoThread
<1>7. ASSUME NEW i \in batch.ready, DrainSend(i) \/ DrainLoadSeq(i)
      PROVE  Unserved'
  <2>1. CASE DrainSend(i)
    BY <1>0, <1>5, <2>1 DEF DrainSend, TakeReady, Calls, NoThread
  <2>2. CASE DrainLoadSeq(i)
    BY <1>0, <1>5, <2>2 DEF DrainLoadSeq
  <2> QED
    BY <1>7, <2>1, <2>2
<1>8. CASE WireAppend("drain") \/ BumpLoad("drain") \/ BumpStore("drain") \/ Counted("drain")
  BY <1>0, <1>5, <1>8 DEF WireAppend, BumpLoad, BumpStore, Goto, NoThread, Counts, Counted
<1> QED
  BY <1>3, <1>4, <1>6, <1>7, <1>8 DEF DrainLoop

LEMMA Stretch ==
  ASSUME NEW a \in Int, NEW b \in Int, NEW c \in Int, c <= b + 1, NEW t \in a .. c - 1
  PROVE  t = b \/ t \in a .. b - 1
  OBVIOUS

\* When the clock moves on, no gate was open for a frame that stays; when it goes
\* back to LoopTo, the stretch only gets shorter.
LEMMA UnservedTick ==
  ASSUME TypeOK, Timely, Unserved, AsStarted, Prompt, Tick
  PROVE  Unserved'
<1>1. /\ thread["rx"].pc = "idle" /\ thread["drain"].pc = "idle" /\ "drain" \in polled
      /\ UNCHANGED <<thread, queues, config>>
  BY DEF Tick, Caught, AsStarted, port
<1>2. now \in Int /\ now' \in Int /\ now' <= now + 1
  BY BoundsAssumption DEF Tick, TypeOK, PortType
<1>3. ASSUME NEW tc \in TC, NEW i \in queues[tc]
      PROVE  ShutSince(tc, i.at)'
  <2>1. ~IsGateOpen(config, tc, now)
    BY <1>1, <1>3 DEF Timely, DrainTimely, GateOpen
  <2>2. \A t \in i.at .. now - 1 : ~IsGateOpen(config, tc, t)
    BY <1>3 DEF Unserved, ShutSince
  <2>3. i.at \in Int
    BY <1>3 DEF TypeOK, QueueType, Item
  <2>4. PICK n \in Int : n = now'
    BY <1>2
  <2>5. ASSUME NEW t \in i.at .. n - 1
        PROVE  t = now \/ t \in i.at .. now - 1
    <3>1. PICK at \in Int : at = i.at
      BY <2>3
    <3>2. PICK m \in Int : m = now /\ n <= m + 1
      BY <1>2, <2>4
    <3>3. t \in at .. n - 1
      BY <3>1
    <3> QED
      BY <3>1, <3>2, <3>3, Stretch
  <2>6. \A t \in i.at .. now' - 1 : ~IsGateOpen(config, tc, t)
    BY <2>1, <2>2, <2>4, <2>5
  <2> QED
    BY <1>1, <2>6 DEF ShutSince
<1> QED
  BY <1>1, <1>3 DEF Unserved

LEMMA UnservedStep ==
  ASSUME Prompt, TypeOK, Timely, Unserved, [Next]_vars
  PROVE  Unserved'
<1> SUFFICES ASSUME AsStarted' PROVE Unserved'
  BY DEF Unserved
<1>1. ASSUME UNCHANGED <<now, config, queues, thread, batch>>, AsStarted
      PROVE  Unserved'
  BY <1>1 DEF Unserved, ShutSince
<1>2. CASE Arrival \/ EnqueueRest
  <2>1. AsStarted
    BY <1>2 DEF AsStarted, Arrival, EnqueueRest, EnqueueBypass, EnqueueSample, EnqueueJudge,
       EnqueueSend,
       EnqueueHold, EnqueueCount, EnqueueLoadSeq, WireAppend, BumpLoad, BumpStore, port, Counted
  <2> QED
    BY <1>2, <2>1, UnservedRx
<1>3. CASE DrainLoop
  <2>1. AsStarted
    BY <1>3 DEF AsStarted, DrainLoop, DrainSample, DrainScan, DrainDone, DrainSend, DrainLoadSeq,
       WireAppend,
       BumpLoad, BumpStore, port, Counted
  <2> QED
    BY <1>3, <2>1, UnservedDrain
<1>4. CASE WireLoop \/ UNCHANGED vars
  BY <1>1, <1>4 DEF AsStarted, WireLoop, WireSample, WireSkip, WireOffset, WireJudge, WireTake,
     WireNothing,
     WireSend, port, vars, locals
<1>5. CASE Tick
  BY <1>5, UnservedTick DEF Tick, AsStarted, port
<1>6. CASE Stop
  BY <1>6 DEF Stop, AsStarted
<1>7. ASSUME NEW c \in Configs, UpdateConfig(c) PROVE FALSE
  BY <1>7, BoundsAssumption DEF UpdateConfig, AsStarted, TypeOK, PortType
<1> QED
  BY <1>2, <1>3, <1>4, <1>5, <1>6, <1>7 DEF Next

\* What the drain loop expires belongs to a class that no entry opens.
LEMMA ExpiredShut ==
  ASSUME TypeOK, Timely, Unserved, AsStarted, DrainScan,
         NEW tc \in TC, NEW i \in Expired(tc), NEW k \in DOMAIN config.gcl
  PROVE  tc \notin config.gcl[k].gates
<1> SUFFICES ASSUME tc \in config.gcl[k].gates PROVE FALSE
  OBVIOUS
<1>1. /\ config.gcl \in GateList /\ config.cycle_us \in Nat \ {0}
      /\ config.base_time_ns \in Int /\ Validate(config)
  BY ConfigsAssumption DEF TypeOK, PortType, GateList
<1>2. i \in queues[tc] /\ i.at \in Int /\ now \in Int
  BY BoundsAssumption DEF Expired, TypeOK, QueueType, Item, PortType
<1>3. now - i.at > 3 * config.cycle_us
  BY DEF DrainScan, Expired, Timely, DrainTimely, Unserved
<1>4. PICK t \in i.at .. i.at + config.cycle_us - 1 : IsGateOpen(config, tc, t)
  BY <1>1, <1>2, OpensOnce
<1>5. t \in i.at .. now - 1
  BY <1>1, <1>2, <1>3
<1> QED
  BY <1>2, <1>4, <1>5 DEF Unserved, ShutSince

\* Until the configuration of a running port is changed, the age limit of three
\* cycles discards only frames of a class that no entry of the gate list opens,
\* provided the drain loop completes a round in each tick: a frame of any other
\* class meets an open gate within one cycle, whatever the list and its base time.
THEOREM ServedWithinCycle ==
  ASSUME Prompt
  PROVE  Spec => [](AsStarted => DropsOnlyShut)
<1> DEFINE Inv == AsStarted => DropsOnlyShut
<1>1. Init => Unserved /\ Inv
  BY UnservedInit DEF Init, DropsOnlyShut
<1>2. ASSUME TypeOK, Timely, Unserved, Inv, [Next]_vars
      PROVE  Unserved' /\ Inv'
  <2>1. Unserved'
    BY <1>2, UnservedStep
  <2>2. ASSUME AsStarted', ~DrainScan
        PROVE  DropsOnlyShut'
    <3>1. AsStarted /\ UNCHANGED <<dropped, config>>
      <4>1. CASE Arrival \/ EnqueueRest
        BY <2>2, <4>1 DEF AsStarted, Arrival, EnqueueRest, EnqueueBypass, EnqueueSample, EnqueueJudge,
           EnqueueSend, EnqueueHold, EnqueueCount, EnqueueLoadSeq, WireAppend, BumpLoad, BumpStore,
           port, Counted
      <4>2. CASE DrainLoop
        BY <2>2, <4>2 DEF AsStarted, DrainLoop, DrainSample, DrainDone, DrainSend, DrainLoadSeq,
           WireAppend,
           BumpLoad, BumpStore, port, Counted
      <4>3. CASE WireLoop \/ Tick \/ UNCHANGED vars
        BY <2>2, <4>3 DEF AsStarted, WireLoop, WireSample, WireSkip, WireOffset, WireJudge, WireTake,
           WireNothing, WireSend, Tick, port, vars
      <4>4. CASE Stop
        BY <2>2, <4>4 DEF Stop, AsStarted
      <4>5. ASSUME NEW c \in Configs, UpdateConfig(c) PROVE FALSE
        BY <1>2, <2>2, <4>5, BoundsAssumption DEF UpdateConfig, AsStarted, TypeOK, PortType
      <4> QED
        BY <1>2, <4>1, <4>2, <4>3, <4>4, <4>5 DEF Next
    <3> QED
      BY <1>2, <3>1 DEF DropsOnlyShut
  <2>3. ASSUME AsStarted', DrainScan
        PROVE  DropsOnlyShut'
    <3>1. AsStarted /\ UNCHANGED config
      BY <2>3 DEF DrainScan, AsStarted, port
    <3>2. ASSUME NEW d \in dropped', d \notin dropped, NEW k \in DOMAIN config.gcl
          PROVE  d.tc \notin config.gcl[k].gates
      <4>1. PICK tc \in TC : \E i \in Expired(tc) : d = [frame |-> i.frame, tc |-> i.tc]
        BY <2>3, <3>2 DEF DrainScan
      <4>2. PICK i \in Expired(tc) : d = [frame |-> i.frame, tc |-> i.tc]
        BY <4>1
      <4>3. i.tc = tc
        BY <1>2 DEF Expired, TypeOK, QueueType
      <4> QED
        BY <1>2, <2>3, <3>1, <4>2, <4>3, ExpiredShut
    <3> QED
      BY <1>2, <3>1, <3>2 DEF DropsOnlyShut
  <2> QED
    BY <2>1, <2>2, <2>3
<1>3. TypeOK /\ Timely /\ Unserved /\ Inv /\ [Next]_vars => Unserved' /\ Inv'
  BY <1>2
<1> QED
  BY <1>1, <1>3, TypeCorrect, AllTimely, PTL DEF Spec

-----------------------------------------------------------------------------
(***************************************************************************)
(* Frames are spread over the locations: each of the first n is at one of  *)
(* them.  F maps a location to the set of the frames there.                *)
(***************************************************************************)
Spread(F, n) ==
  /\ UNION {F[l] : l \in Locations} = 1 .. n
  /\ \A l, m \in Locations : l # m => F[l] \intersect F[m] = {}

At == [l \in Locations |-> FramesAt(l)]

\* A step from F to G gathers at b the frames S[l] of every other location l.
Gathering(F, G, S, b) ==
  /\ S[b] = {} /\ \A l \in Locations : S[l] \subseteq F[l]
  /\ \A l \in Locations : l # b => G[l] = F[l] \ S[l]
  /\ G[b] = F[b] \union UNION {S[l] : l \in Locations}

LEMMA Gathered ==
  ASSUME NEW F, NEW G, NEW S, NEW n, NEW b \in Locations, Spread(F, n), Gathering(F, G, S, b)
  PROVE  Spread(G, n)
<1> USE DEF Gathering
<1>1. UNION {G[l] : l \in Locations} = UNION {F[l] : l \in Locations}
  <2>1. ASSUME NEW l \in Locations, NEW f \in G[l]
        PROVE  \E m \in Locations : f \in F[m]
    BY <2>1
  <2>2. ASSUME NEW l \in Locations, NEW f \in F[l]
        PROVE  \E m \in Locations : f \in G[m]
    BY <2>2
  <2> QED
    BY <2>1, <2>2
<1>2. ASSUME NEW l \in Locations, NEW m \in Locations, l # m, NEW f \in G[l], f \in G[m]
      PROVE  FALSE
  <2>1. \A p, q \in Locations : f \in F[p] /\ f \in F[q] => p = q
    BY DEF Spread
  <2>2. CASE l # b /\ m # b
    BY <1>2, <2>1, <2>2
  <2>3. ASSUME NEW p \in Locations, p # b, f \in G[p], f \in G[b]
        PROVE  FALSE
    BY <2>1, <2>3
  <2> QED
    BY <1>2, <2>2, <2>3
<1> QED
  BY <1>1, <1>2 DEF Spread

\* A step from F to G takes frame f from a to b.
Moving(F, G, f, a, b) ==
  /\ a # b /\ f \in F[a] /\ G[a] = F[a] \ {f} /\ G[b] = F[b] \union {f}
  /\ \A l \in Locations : l \notin {a, b} => G[l] = F[l]

LEMMA Moved ==
  ASSUME NEW F, NEW G, NEW f, NEW n, NEW a \in Locations, NEW b \in Locations,
         Spread(F, n), Moving(F, G, f, a, b)
  PROVE  Spread(G, n)
<1> DEFINE T == [l \in Locations |-> IF l = a THEN {f} ELSE {}]
<1>1. T[a] = {f} /\ \A l \in Locations : l # a => T[l] = {}
  OBVIOUS
<1> HIDE DEF T
<1>2. ASSUME NEW l \in Locations
      PROVE  T[l] \subseteq F[l] /\ (l # b => G[l] = F[l] \ T[l])
  <2>1. CASE l = a
    BY <1>1, <2>1 DEF Moving
  <2>2. CASE l # a
    BY <1>1, <2>2 DEF Moving
  <2> QED
    BY <2>1, <2>2
<1>3. UNION {T[l] : l \in Locations} = {f}
  BY <1>1
<1>4. Gathering(F, G, T, b)
  BY <1>1, <1>2, <1>3 DEF Gathering, Moving
<1> QED
  BY <1>4, Gathered

\* Frame n + 1 arrives at b.
LEMMA Entered ==
  ASSUME NEW F, NEW G, NEW n \in Nat, NEW b \in Locations, Spread(F, n),
         G[b] = F[b] \union {n + 1}, \A l \in Locations : l # b => G[l] = F[l]
  PROVE  Spread(G, n + 1)
<1>1. \A l \in Locations : F[l] \subseteq 1 .. n
  BY DEF Spread
<1>2. UNION {G[l] : l \in Locations} = (UNION {F[l] : l \in Locations}) \union {n + 1}
  <2>1. ASSUME NEW l \in Locations, NEW f \in G[l]
        PROVE  f = n + 1 \/ \E m \in Locations : f \in F[m]
    BY <2>1
  <2>2. ASSUME NEW l \in Locations
        PROVE  F[l] \subseteq G[l]
    <3>1. CASE l = b
      BY <3>1
    <3>2. CASE l # b
      BY <3>2
    <3> QED
      BY <3>1, <3>2
  <2>3. n + 1 \in G[b]
    OBVIOUS
  <2> QED
    BY <2>1, <2>2, <2>3
<1>3. 1 .. n + 1 = (1 .. n) \union {n + 1}
  OBVIOUS
<1>4. n + 1 \notin 1 .. n
  OBVIOUS
<1>5. UNION {G[l] : l \in Locations} = 1 .. n + 1
  BY <1>2, <1>3 DEF Spread
<1>6. \A l, m \in Locations : l # m => G[l] \intersect G[m] = {}
  BY <1>1, <1>4 DEF Spread
<1> QED
  BY <1>5, <1>6 DEF Spread

LEMMA LocationFacts ==
  /\ <<"rx">> \in Locations /\ <<"drain">> \in Locations /\ <<"ready">> \in Locations
  /\ <<"busy">> \in Locations /\ <<"out">> \in Locations /\ <<"dropped">> \in Locations
  /\ \A tc \in TC : <<"gate", tc>> \in Locations /\ <<"wire", tc>> \in Locations
  BY DEF Locations

LEMMA LocationCases ==
  ASSUME NEW l \in Locations
  PROVE  \/ l = <<"rx">> \/ l = <<"drain">> \/ l = <<"ready">>
         \/ l = <<"busy">> \/ l = <<"out">> \/ l = <<"dropped">>
         \/ \E tc \in TC : l = <<"gate", tc>> \/ l = <<"wire", tc>>
  BY DEF Locations

\* The frames at each location.
Placing ==
  /\ At[<<"rx">>] = InHand("rx") /\ At[<<"drain">>] = InHand("drain")
  /\ At[<<"ready">>] = {i.frame : i \in batch.ready}
  /\ At[<<"busy">>] = IF wire.pc = "busy" THEN {wire.item.frame} ELSE {}
  /\ At[<<"out">>] = {out[k].frame : k \in DOMAIN out}
  /\ At[<<"dropped">>] = {d.frame : d \in dropped}
  /\ \A tc \in TC :
       /\ At[<<"gate", tc>>] = {i.frame : i \in queues[tc]}
       /\ At[<<"wire", tc>>] = {wire_queues[tc][k].item.frame : k \in DOMAIN wire_queues[tc]}

LEMMA Places == Placing
<1>1. {<<"rx">>, <<"drain">>, <<"ready">>, <<"busy">>, <<"out">>, <<"dropped">>} \subseteq Locations
  BY DEF Locations
<1>2. \A tc \in TC : <<"gate", tc>> \in Locations /\ <<"wire", tc>> \in Locations
  BY DEF Locations
<1>3. \A l \in Locations : At[l] = FramesAt(l)
  BY DEF At
<1>4. FramesAt(<<"rx">>) = InHand("rx")
  BY DEF FramesAt
<1>5. FramesAt(<<"drain">>) = InHand("drain")
  BY DEF FramesAt
<1>6. FramesAt(<<"ready">>) = {i.frame : i \in batch.ready}
  BY DEF FramesAt
<1>7. FramesAt(<<"busy">>) = IF wire.pc = "busy" THEN {wire.item.frame} ELSE {}
  BY DEF FramesAt
<1>8. FramesAt(<<"out">>) = {out[k].frame : k \in DOMAIN out}
  BY DEF FramesAt
<1>9. FramesAt(<<"dropped">>) = {d.frame : d \in dropped}
  BY DEF FramesAt
<1>10. ASSUME NEW tc \in TC
       PROVE  FramesAt(<<"gate", tc>>) = {i.frame : i \in queues[tc]}
  BY DEF FramesAt
<1>11. ASSUME NEW tc \in TC
       PROVE  FramesAt(<<"wire", tc>>)
                = {wire_queues[tc][k].item.frame : k \in DOMAIN wire_queues[tc]}
  BY DEF FramesAt
<1> QED
  BY <1>1, <1>2, <1>3, <1>4, <1>5, <1>6, <1>7, <1>8, <1>9, <1>10, <1>11 DEF Placing

LEMMA PlacesNext == Placing'
  BY Places, PTL

\* A step that changes nothing at the locations outside M.
LEMMA Others ==
  ASSUME NEW M,
         <<"rx">> \in M \/ InHand("rx")' = InHand("rx"),
         <<"drain">> \in M \/ InHand("drain")' = InHand("drain"),
         <<"ready">> \in M \/ batch'.ready = batch.ready,
         <<"busy">> \in M \/ (wire'.item = wire.item /\ (wire'.pc = "busy" <=> wire.pc = "busy")),
         <<"out">> \in M \/ out' = out,
         <<"dropped">> \in M \/ dropped' = dropped,
         \A tc \in TC : <<"gate", tc>> \in M \/ queues'[tc] = queues[tc],
         \A tc \in TC : <<"wire", tc>> \in M \/ wire_queues'[tc] = wire_queues[tc]
  PROVE  \A l \in Locations : l \notin M => At'[l] = At[l]
<1> SUFFICES ASSUME NEW l \in Locations, l \notin M PROVE At'[l] = At[l]
  OBVIOUS
<1>1. ASSUME l = <<"rx">> \/ l = <<"drain">>
      PROVE  At'[l] = At[l]
  BY <1>1, Places, PlacesNext DEF Placing
<1>2. CASE l = <<"ready">>
  BY <1>2, Places, PlacesNext DEF Placing
<1>3. CASE l = <<"busy">>
  BY <1>3, Places, PlacesNext DEF Placing
<1>4. CASE l = <<"out">>
  <2>1. out' = out
    BY <1>4
  <2>2. {out'[k].frame : k \in DOMAIN out'} = {out[k].frame : k \in DOMAIN out}
    BY <2>1
  <2> QED
    BY <1>4, <2>2, Places, PlacesNext DEF Placing
<1>5. CASE l = <<"dropped">>
  BY <1>5, Places, PlacesNext DEF Placing
<1>6. ASSUME NEW tc \in TC, l = <<"gate", tc>>
      PROVE  At'[l] = At[l]
  BY <1>6, Places, PlacesNext, ZenonT(30) DEF Placing
<1>7. ASSUME NEW tc \in TC, l = <<"wire", tc>>
      PROVE  At'[l] = At[l]
  <2>1. wire_queues'[tc] = wire_queues[tc]
    BY <1>7
  <2>2. {wire_queues'[tc][k].item.frame : k \in DOMAIN wire_queues'[tc]}
          = {wire_queues[tc][k].item.frame : k \in DOMAIN wire_queues[tc]}
    BY <2>1
  <2> QED
    BY <1>7, <2>2, Places, PlacesNext, ZenonT(30) DEF Placing
<1> QED
  BY <1>1, <1>2, <1>3, <1>4, <1>5, <1>6, <1>7, LocationCases

-----------------------------------------------------------------------------
(***************************************************************************)
(* Conserved.  Its parts, and that the drain loop has no frame left when   *)
(* it begins a round (it would overwrite them).                            *)
(***************************************************************************)
OutOnce == NoRepeat(out, LAMBDA o : o.frame)
WireOnce == \A tc \in TC : NoRepeat(wire_queues[tc], LAMBDA w : w.item.frame)
GateOnce == \A tc \in TC : NoTwins(queues[tc])
ReadyOnce == NoTwins(batch.ready)
BatchIdle == thread["drain"].pc \in {"idle", "scan"} => batch.ready = {}

Kept == Spread(At, arrived) /\ OutOnce /\ WireOnce /\ GateOnce /\ ReadyOnce /\ BatchIdle

LEMMA KeptConserves == Kept => Conserved
<1>1. ASSUME Spread(At, arrived)
      PROVE  /\ UNION {FramesAt(l) : l \in Locations} = 1 .. arrived
             /\ \A l, m \in Locations : l # m => FramesAt(l) \intersect FramesAt(m) = {}
  <2>1. \A l \in Locations : At[l] = FramesAt(l)
    BY DEF At
  <2>2. UNION {FramesAt(l) : l \in Locations} = UNION {At[l] : l \in Locations}
    BY <2>1
  <2> QED
    BY <1>1, <2>1, <2>2 DEF Spread
<1> QED
  BY <1>1 DEF Kept, Conserved, OutOnce, WireOnce, GateOnce, ReadyOnce

LEMMA KeptInit == Init => Kept
<1> SUFFICES ASSUME Init PROVE Kept
  OBVIOUS
<1>1. InHand("rx") = {} /\ InHand("drain") = {}
  BY DEF Init, InHand, NoThread, Producers
<1>2. /\ batch.ready = {} /\ wire.pc = "idle" /\ out = << >> /\ dropped = {} /\ arrived = 0
      /\ \A tc \in TC : queues[tc] = {} /\ wire_queues[tc] = << >>
  BY DEF Init, NoBatch, NoWire
<1>3. \A l \in Locations : At[l] = {}
  <2>1. /\ At[<<"rx">>] = {} /\ At[<<"drain">>] = {} /\ At[<<"ready">>] = {}
        /\ At[<<"busy">>] = {} /\ At[<<"out">>] = {} /\ At[<<"dropped">>] = {}
    BY <1>1, <1>2, Places DEF Placing
  <2>2. \A tc \in TC : At[<<"gate", tc>>] = {} /\ At[<<"wire", tc>>] = {}
    BY <1>2, Places DEF Placing
  <2> QED
    BY <2>1, <2>2, LocationCases
<1>4. Spread(At, arrived)
  BY <1>2, <1>3 DEF Spread
<1> QED
  BY <1>2, <1>4 DEF Kept, OutOnce, WireOnce, GateOnce, ReadyOnce, BatchIdle, NoRepeat, NoTwins

\* A step that moves no frame.
LEMMA Stayed ==
  ASSUME NEW F, NEW G, NEW n, Spread(F, n), \A l \in Locations : G[l] = F[l]
  PROVE  Spread(G, n)
<1>1. UNION {G[l] : l \in Locations} = UNION {F[l] : l \in Locations}
  OBVIOUS
<1> QED
  BY <1>1 DEF Spread

\* Numbers are dealt in order, so a new frame is nowhere yet.
LEMMA NewFrame ==
  ASSUME TypeOK, Kept
  PROVE  /\ arrived \in Nat
         /\ \A l \in Locations : arrived + 1 \notin At[l]
<1>1. arrived \in Nat
  BY BoundsAssumption DEF TypeOK, HistoryType
<1>2. \A l \in Locations : At[l] \subseteq 1 .. arrived
  BY DEF Kept, Spread
<1> QED
  BY <1>1, <1>2

\* A frame that is at l is nowhere else.
LEMMA Elsewhere ==
  ASSUME Kept, NEW l \in Locations, NEW f \in At[l]
  PROVE  \A m \in Locations : m # l => f \notin At[m]
  BY DEF Kept, Spread

\* What a step must show, and the parts that come with what it leaves alone.
LEMMA KeptParts ==
  ASSUME Spread(At', arrived'), OutOnce', WireOnce', GateOnce', ReadyOnce', BatchIdle'
  PROVE  Kept'
  BY DEF Kept, Spread

LEMMA OnceUnchanged ==
  ASSUME Kept
  PROVE  /\ UNCHANGED out => OutOnce'
         /\ UNCHANGED wire_queues => WireOnce'
         /\ UNCHANGED queues => GateOnce'
         /\ UNCHANGED batch => ReadyOnce'
         /\ UNCHANGED batch /\ thread'["drain"].pc \in {thread["drain"].pc, "batch", "append", "bump", "store", "sent"}
              => BatchIdle'
  BY DEF Kept, OutOnce, WireOnce, GateOnce, ReadyOnce, BatchIdle, NoRepeat

\* A frame that has not left leaves.
LEMMA Left ==
  ASSUME TypeOK, OutOnce, NEW r \in [frame : Nat, tc : Nat, held : BOOLEAN],
         r.frame \notin At[<<"out">>], out' = Append(out, r)
  PROVE  OutOnce' /\ At'[<<"out">>] = At[<<"out">>] \union {r.frame}
<1> DEFINE R == [frame : Nat, tc : Nat, held : BOOLEAN]
<1>1. out \in Seq(R) /\ r \in R
  BY DEF TypeOK, HistoryType
<1>2. /\ Len(out) \in Nat /\ DOMAIN out = 1 .. Len(out) /\ DOMAIN out' = 1 .. Len(out) + 1
      /\ out'[Len(out) + 1] = r /\ \A k \in 1 .. Len(out) : out'[k] = out[k]
  BY <1>1, AppendProperties
<1>3. \A k \in 1 .. Len(out) : out[k].frame # r.frame
  BY <1>2, Places DEF Placing
<1>4. \A j, k \in 1 .. Len(out) : out[j].frame = out[k].frame => j = k
  BY <1>2 DEF OutOnce, NoRepeat
<1>5. \A j, k \in 1 .. Len(out) + 1 : out'[j].frame = out'[k].frame => j = k
  BY <1>2, <1>3, <1>4
<1>6. OutOnce'
  BY <1>2, <1>5 DEF OutOnce, NoRepeat
<1>7. {out'[k].frame : k \in 1 .. Len(out) + 1} = {out[k].frame : k \in 1 .. Len(out)} \union {r.frame}
  BY <1>2
<1>8. At[<<"out">>] = {out[k].frame : k \in 1 .. Len(out)}
  BY <1>2, Places DEF Placing
<1>9. At'[<<"out">>] = {out'[k].frame : k \in 1 .. Len(out) + 1}
  BY <1>2, PlacesNext DEF Placing
<1> QED
  BY <1>6, <1>7, <1>8, <1>9

\* A step of enqueue that keeps every frame where it is or lets one arrive.
LEMMA KeptEnqueue ==
  ASSUME TypeOK, Kept, Arrival \/ EnqueueJudge \/ EnqueueCount \/ EnqueueLoadSeq
  PROVE  Kept'
<1> USE DEF Kept
<1>0. "rx" \in Producers /\ "drain" \in Producers /\ "rx" # "drain"
  BY DEF Producers
<1>1. ASSUME NEW tc \in RawTC, EnqueueBypass(tc)
      PROVE  Kept'
  <2> DEFINE r == [frame |-> arrived + 1, tc |-> tc, held |-> FALSE]
  <2>1. /\ r \in [frame : Nat, tc : Nat, held : BOOLEAN] /\ r.frame = arrived + 1
        /\ out' = Append(out, r) /\ arrived' = arrived + 1
    BY <1>1, NewFrame, BoundsAssumption DEF EnqueueBypass, Arrive, Send, NoItem
  <2> HIDE DEF r
  <2>2. OutOnce' /\ At'[<<"out">>] = At[<<"out">>] \union {arrived + 1}
    BY <2>1, Left, NewFrame, LocationFacts
  <2>3. UNCHANGED <<queues, wire_queues, batch, wire, dropped>>
    BY <1>1 DEF EnqueueBypass, wires
  <2>6. /\ thread["rx"].pc = "idle" /\ thread'["rx"].pc = "sent"
        /\ thread'["drain"] = thread["drain"]
    BY <1>0, <1>1, CallsShape DEF EnqueueBypass, Arrive, TypeOK
  <2>4. \A l \in Locations : l # <<"out">> => At'[l] = At[l]
    <3>1. \A l \in Locations : l \notin {<<"out">>} => At'[l] = At[l]
      BY <2>3, <2>6, Others DEF InHand
    <3> QED
      BY <3>1
  <2>5. Spread(At', arrived')
    BY <2>1, <2>2, <2>4, NewFrame, LocationFacts, Entered
  <2> QED
    BY <2>2, <2>3, <2>5, <2>6, KeptParts, OnceUnchanged
<1>2. ASSUME NEW tc \in RawTC, EnqueueSample(tc)
      PROVE  Kept'
  <2>1. /\ thread["rx"].pc = "idle" /\ thread'["rx"].pc = "gate" /\ arrived' = arrived + 1
        /\ thread'["rx"].item.frame = arrived + 1 /\ thread'["drain"] = thread["drain"]
    BY <1>0, <1>2 DEF EnqueueSample, Arrive, TypeOK, ThreadType
  <2>2. UNCHANGED <<queues, wire_queues, batch, wire, out, dropped>>
    BY <1>2 DEF EnqueueSample, wires
  <2>3. \A l \in Locations : l # <<"rx">> => At'[l] = At[l]
    <3>1. \A l \in Locations : l \notin {<<"rx">>} => At'[l] = At[l]
      BY <2>1, <2>2, Others DEF InHand
    <3> QED
      BY <3>1
  <2>4. At'[<<"rx">>] = At[<<"rx">>] \union {arrived + 1}
    BY <2>1, Places, PlacesNext DEF Placing, InHand
  <2>5. Spread(At', arrived')
    BY <2>1, <2>3, <2>4, NewFrame, LocationFacts, Entered, ZenonT(30)
  <2> QED
    BY <2>1, <2>2, <2>5, KeptParts, OnceUnchanged
<1>3. CASE EnqueueJudge \/ EnqueueCount \/ EnqueueLoadSeq
  <2>1. UNCHANGED <<queues, wire_queues, batch, wire, out, dropped, arrived>>
    BY <1>3 DEF EnqueueJudge, EnqueueCount, EnqueueLoadSeq, wires
  <2>2. InHand("rx")' = InHand("rx") /\ thread'["drain"] = thread["drain"]
    <3>1. thread \in [Producers -> [pc : RxStates \union DrainStates, item : Item,
                                    offset : Nat, seq : Nat]]
      BY DEF TypeOK, ThreadType
    <3>2. CASE EnqueueJudge
      <4>1. /\ thread'["rx"].pc \in {"open", "closed"} /\ thread["rx"].pc = "gate"
            /\ thread'["rx"].item.frame = thread["rx"].item.frame
            /\ thread'["drain"] = thread["drain"]
        BY <1>0, <3>1, <3>2 DEF EnqueueJudge, NoThread, Item
      <4> QED
        BY <4>1 DEF InHand
    <3>3. CASE EnqueueCount
      BY <1>0, <3>1, <3>3 DEF EnqueueCount, Goto, NoThread, InHand
    <3>4. CASE EnqueueLoadSeq
      BY <1>0, <3>1, <3>4 DEF EnqueueLoadSeq, InHand
    <3> QED
      BY <1>3, <3>2, <3>3, <3>4
  <2>3. \A l \in Locations : l \notin {} => At'[l] = At[l]
    BY <2>1, <2>2, Others DEF InHand
  <2>4. Spread(At', arrived')
    BY <2>1, <2>3, Stayed
  <2> QED
    BY <2>1, <2>2, <2>4, KeptParts, OnceUnchanged
<1> QED
  BY <1>1, <1>2, <1>3 DEF Arrival

\* The frame in the hand of a producer is sent, held or put on a wire queue.
LEMMA KeptHandOver ==
  ASSUME TypeOK, Kept, EnqueueSend \/ EnqueueHold
  PROVE  Kept'
<1> USE DEF Kept
<1>0. /\ thread \in [Producers -> [pc : RxStates \union DrainStates, item : Item,
                                   offset : Nat, seq : Nat]]
      /\ "rx" \in Producers /\ "drain" \in Producers /\ "rx" # "drain"
  BY DEF TypeOK, ThreadType, Producers
<1> DEFINE item == thread["rx"].item
           f == item.frame
<1>1. item \in Item /\ item.tc \in TC
  BY <1>0, ThreadFacts DEF TypeOK, EnqueueSend, EnqueueHold
<1>2. CASE EnqueueSend
  <2> DEFINE r == [frame |-> f, tc |-> item.tc, held |-> item.held]
  <2>1. /\ thread["rx"].pc = "open" /\ thread'["rx"].pc = "sent"
        /\ thread'["drain"] = thread["drain"]
        /\ UNCHANGED <<queues, wire_queues, batch, wire, dropped, arrived>>
    BY <1>0, <1>2, CallsShape DEF EnqueueSend, TypeOK, wires
  <2>2. /\ r \in [frame : Nat, tc : Nat, held : BOOLEAN] /\ r.frame = f
        /\ out' = Append(out, r)
    BY <1>1, <1>2, ClassFacts DEF EnqueueSend, Send, Item
  <2> HIDE DEF r
  <2>3. At[<<"rx">>] = {f} /\ At'[<<"rx">>] = At[<<"rx">>] \ {f}
    BY <2>1, Places, PlacesNext DEF Placing, InHand
  <2> HIDE DEF f
  <2>4. OutOnce' /\ At'[<<"out">>] = At[<<"out">>] \union {f}
    BY <2>2, <2>3, Left, Elsewhere, LocationFacts
  <2>5. \A l \in Locations : l \notin {<<"rx">>, <<"out">>} => At'[l] = At[l]
    BY <2>1, Others DEF InHand
  <2>6. Moving(At, At', f, <<"rx">>, <<"out">>)
    BY <2>3, <2>4, <2>5 DEF Moving
  <2>7. Spread(At', arrived')
    BY <2>1, <2>6, LocationFacts, Moved
  <2> QED
    BY <2>1, <2>4, <2>7, KeptParts, OnceUnchanged
<1>3. CASE EnqueueHold
  <2> DEFINE h == [item EXCEPT !.held = TRUE]
             q == item.tc
  <2>1. /\ thread["rx"].pc = "closed" /\ thread'["rx"].pc = "count"
        /\ thread'["drain"] = thread["drain"]
        /\ UNCHANGED <<wire_queues, batch, wire, out, dropped, arrived>>
    BY <1>0, <1>3 DEF EnqueueHold, Goto, wires
  <2>2. h.frame = f /\ q \in TC /\ queues' = [queues EXCEPT ![q] = @ \union {h}]
    BY <1>1, <1>3 DEF EnqueueHold, Item
  <2>3. At[<<"rx">>] = {f} /\ At'[<<"rx">>] = At[<<"rx">>] \ {f}
    BY <2>1, Places, PlacesNext DEF Placing, InHand
  <2> HIDE DEF h, q, f, item
  <2>4. queues'[q] = queues[q] \union {h} /\ \A tc \in TC : tc # q => queues'[tc] = queues[tc]
    BY <2>2 DEF TypeOK, QueueType
  <2>5. At'[<<"gate", q>>] = At[<<"gate", q>>] \union {f}
    <3>1. At[<<"gate", q>>] = {i.frame : i \in queues[q]}
      BY <2>2, Places DEF Placing
    <3>2. At'[<<"gate", q>>] = {i.frame : i \in queues'[q]}
      BY <2>2, PlacesNext DEF Placing
    <3> QED
      BY <2>2, <2>4, <3>1, <3>2
  <2>6. \A l \in Locations : l \notin {<<"rx">>, <<"gate", q>>} => At'[l] = At[l]
    BY <2>1, <2>4, Others DEF InHand
  <2>7. Spread(At', arrived')
    <3>1. <<"gate", q>> # <<"rx">> /\ <<"gate", q>> \in Locations
      BY <2>2, LocationFacts
    <3>2. Moving(At, At', f, <<"rx">>, <<"gate", q>>)
      BY <2>3, <2>5, <2>6, <3>1 DEF Moving
    <3> QED
      BY <2>1, <3>1, <3>2, LocationFacts, Moved
  <2>8. f \notin At[<<"gate", q>>]
    <3>1. <<"gate", q>> # <<"rx">> /\ <<"gate", q>> \in Locations
      BY <2>2, LocationFacts
    <3> QED
      BY <2>3, <3>1, Elsewhere, LocationFacts
  <2>9. \A i \in queues[q] : i.frame # h.frame
    <3>1. At[<<"gate", q>>] = {i.frame : i \in queues[q]} /\ f = h.frame
      BY <2>2, Places DEF Placing
    <3> QED
      BY <2>8, <3>1
  <2>10. GateOnce'
    BY <2>2, <2>4, <2>9 DEF GateOnce, NoTwins
  <2> QED
    BY <2>1, <2>7, <2>10, KeptParts, OnceUnchanged
<1> QED
  BY <1>2, <1>3

LEMMA KeptAppend ==
  ASSUME TypeOK, Kept, NEW t \in Producers,
         WireAppend(t) \/ BumpLoad(t) \/ BumpStore(t) \/ Counted(t)
  PROVE  Kept'
<1> USE DEF Kept
<1>0. /\ thread \in [Producers -> [pc : RxStates \union DrainStates, item : Item,
                                   offset : Nat, seq : Nat]]
      /\ <<t>> \in Locations /\ t \in {"rx", "drain"}
      /\ \A u \in {"rx", "drain"} : u # t => thread'[u] = thread[u]
      /\ thread'["drain"].pc \in {thread["drain"].pc, "batch", "append", "bump", "store"}
      /\ UNCHANGED <<queues, batch, wire, out, dropped, arrived>>
  BY LocationFacts, ZenonT(30)
  DEF TypeOK, ThreadType, Producers, WireAppend, BumpLoad, BumpStore, Counted, Counts, Goto, NoThread
<1>1. CASE WireAppend(t)
  <2> DEFINE w == [item |-> thread[t].item, seq |-> thread[t].seq]
             q == thread[t].item.tc
             f == thread[t].item.frame
             s == wire_queues[q]
             W == [item : Item, seq : Nat]
  <2>1. w \in W /\ w.item.frame = f /\ q \in TC
    BY <1>1, ThreadFacts DEF TypeOK, WireAppend
  <2>2. /\ wire_queues' = [wire_queues EXCEPT ![q] = Append(@, w)]
        /\ thread[t].pc = "append" /\ thread'[t].pc = "bump"
    BY <1>0, <1>1 DEF WireAppend, Goto
  <2>3. At[<<t>>] = {f} /\ At'[<<t>>] = At[<<t>>] \ {f}
    BY <1>0, <2>2, Places, PlacesNext DEF Placing, InHand
  <2> HIDE DEF w, q, f
  <2>4. s \in Seq(W) /\ wire_queues'[q] = Append(s, w)
        /\ \A tc \in TC : tc # q => wire_queues'[tc] = wire_queues[tc]
    BY <2>1, <2>2 DEF TypeOK, WireQueueType
  <2>5. /\ Len(s) \in Nat /\ DOMAIN s = 1 .. Len(s)
        /\ DOMAIN wire_queues'[q] = 1 .. Len(s) + 1
        /\ wire_queues'[q][Len(s) + 1] = w
        /\ \A k \in 1 .. Len(s) : wire_queues'[q][k] = wire_queues[q][k]
    BY <2>1, <2>4, AppendProperties
  <2>6. At[<<"wire", q>>] = {wire_queues[q][k].item.frame : k \in 1 .. Len(s)}
    BY <2>1, <2>5, Places DEF Placing
  <2>7. At'[<<"wire", q>>] = {wire_queues'[q][k].item.frame : k \in 1 .. Len(s) + 1}
    BY <2>1, <2>5, PlacesNext DEF Placing
  <2> HIDE DEF s
  <2>8. At'[<<"wire", q>>] = At[<<"wire", q>>] \union {f}
    BY <2>1, <2>5, <2>6, <2>7
  <2>9. <<"wire", q>> # <<t>> /\ <<"wire", q>> \in Locations
    BY <1>0, <2>1, LocationFacts
  <2>10. \A l \in Locations : l \notin {<<t>>, <<"wire", q>>} => At'[l] = At[l]
    <3>1. \A tc \in TC : <<"wire", tc>> \in {<<t>>, <<"wire", q>>}
                           \/ wire_queues'[tc] = wire_queues[tc]
      BY <2>4
    <3>2. \A u \in {"rx", "drain"} : <<u>> \in {<<t>>, <<"wire", q>>} \/ InHand(u)' = InHand(u)
      BY <1>0 DEF InHand
    <3> QED
      BY <1>0, <3>1, <3>2, Others
  <2>11. Spread(At', arrived')
    <3>1. Moving(At, At', f, <<t>>, <<"wire", q>>)
      BY <2>3, <2>8, <2>9, <2>10 DEF Moving
    <3> QED
      BY <1>0, <2>9, <3>1, Moved
  <2>12. f \notin At[<<"wire", q>>]
    BY <1>0, <2>3, <2>9, Elsewhere
  <2>13. \A k \in 1 .. Len(s) : wire_queues[q][k].item.frame # f
    BY <2>6, <2>12
  <2>14. WireOnce'
    <3>1. \A j, k \in 1 .. Len(s) :
            wire_queues[q][j].item.frame = wire_queues[q][k].item.frame => j = k
      BY <2>1, <2>5 DEF WireOnce, NoRepeat, s
    <3>2. \A j, k \in 1 .. Len(s) + 1 :
            wire_queues'[q][j].item.frame = wire_queues'[q][k].item.frame => j = k
      BY <2>1, <2>5, <2>13, <3>1, SMTT(30)
    <3> QED
      BY <2>4, <2>5, <3>2 DEF WireOnce, NoRepeat
  <2> QED
    BY <1>0, <2>11, <2>14, KeptParts, OnceUnchanged
<1>2. CASE BumpLoad(t) \/ BumpStore(t) \/ Counted(t)
  <2>1. UNCHANGED wire_queues /\ InHand(t) = {} /\ InHand(t)' = {}
    BY <1>0, <1>2, ZenonT(30) DEF BumpLoad, BumpStore, Counted, Counts, NoThread, InHand, wires
  <2>2. InHand("rx")' = InHand("rx") /\ InHand("drain")' = InHand("drain")
    BY <1>0, <2>1 DEF InHand
  <2>3. \A l \in Locations : l \notin {} => At'[l] = At[l]
    BY <1>0, <2>1, <2>2, Others
  <2>4. Spread(At', arrived')
    BY <1>0, <2>3, Stayed
  <2> QED
    BY <1>0, <2>1, <2>4, KeptParts, OnceUnchanged
<1> QED
  BY <1>1, <1>2

\* The drain loop sends an item of its batch, or takes it to the wire.
LEMMA KeptReady ==
  ASSUME TypeOK, Kept, NEW item \in batch.ready, DrainSend(item) \/ DrainLoadSeq(item)
  PROVE  Kept'
<1> USE DEF Kept
<1>0. /\ thread \in [Producers -> [pc : RxStates \union DrainStates, item : Item,
                                   offset : Nat, seq : Nat]]
      /\ "rx" \in Producers /\ "drain" \in Producers /\ "rx" # "drain"
  BY DEF TypeOK, ThreadType, Producers
<1> DEFINE f == item.frame
<1>1. item \in Item /\ thread["drain"].pc = "batch" /\ batch'.ready = batch.ready \ {item}
  BY DEF TypeOK, BatchType, DrainSend, DrainLoadSeq, TakeReady
<1>2. /\ At[<<"ready">>] = {i.frame : i \in batch.ready} /\ f \in At[<<"ready">>]
      /\ At'[<<"ready">>] = {i.frame : i \in batch.ready \ {item}}
  BY <1>1, Places, PlacesNext DEF Placing
<1>3. At'[<<"ready">>] = At[<<"ready">>] \ {f} /\ ReadyOnce'
  BY <1>1, <1>2 DEF ReadyOnce, NoTwins
<1>4. CASE DrainSend(item)
  <2> DEFINE r == [frame |-> f, tc |-> item.tc, held |-> item.held]
  <2>1. /\ UNCHANGED <<queues, wire_queues, wire, dropped, arrived>>
        /\ thread'["drain"].pc = "sent" /\ thread'["rx"] = thread["rx"]
    BY <1>0, <1>4, CallsShape DEF DrainSend, TypeOK, wires
  <2>2. /\ r \in [frame : Nat, tc : Nat, held : BOOLEAN] /\ r.frame = f
        /\ out' = Append(out, r)
    BY <1>1, <1>4 DEF DrainSend, Send, Item
  <2> HIDE DEF r, f
  <2>3. OutOnce' /\ At'[<<"out">>] = At[<<"out">>] \union {f}
    BY <1>2, <2>2, Left, Elsewhere, LocationFacts
  <2>4. \A l \in Locations : l \notin {<<"ready">>, <<"out">>} => At'[l] = At[l]
    BY <1>1, <2>1, Others DEF InHand
  <2>5. Moving(At, At', f, <<"ready">>, <<"out">>)
    BY <1>2, <1>3, <2>3, <2>4 DEF Moving
  <2>6. Spread(At', arrived')
    BY <2>1, <2>5, LocationFacts, Moved
  <2>7. BatchIdle'
    BY <1>1, <2>1 DEF BatchIdle
  <2> QED
    BY <1>3, <2>1, <2>3, <2>6, <2>7, KeptParts, OnceUnchanged
<1>5. CASE DrainLoadSeq(item)
  <2>1. /\ thread'["drain"].pc = "append" /\ thread'["drain"].item.frame = f
        /\ thread'["rx"] = thread["rx"]
        /\ UNCHANGED <<queues, wire_queues, wire, out, dropped, arrived>>
    BY <1>0, <1>1, <1>5 DEF DrainLoadSeq, Item, wires
  <2>2. At[<<"drain">>] = {} /\ At'[<<"drain">>] = {f}
    BY <1>1, <2>1, Places, PlacesNext DEF Placing, InHand
  <2> HIDE DEF f
  <2>3. \A l \in Locations : l \notin {<<"ready">>, <<"drain">>} => At'[l] = At[l]
    BY <2>1, Others DEF InHand
  <2>4. Moving(At, At', f, <<"ready">>, <<"drain">>)
    BY <1>2, <1>3, <2>2, <2>3 DEF Moving
  <2>5. Spread(At', arrived')
    BY <2>1, <2>4, LocationFacts, Moved
  <2>6. BatchIdle'
    BY <2>1 DEF BatchIdle
  <2> QED
    BY <1>3, <2>1, <2>5, <2>6, KeptParts, OnceUnchanged
<1> QED
  BY <1>4, <1>5

\* The scan drops the expired items, then takes the open queues into the batch.
LEMMA KeptScan ==
  ASSUME TypeOK, Kept, DrainScan
  PROVE  Kept'
<1> USE DEF Kept
<1>0. /\ thread \in [Producers -> [pc : RxStates \union DrainStates, item : Item,
                                   offset : Nat, seq : Nat]]
      /\ "rx" \in Producers /\ "drain" \in Producers /\ "rx" # "drain"
  BY DEF TypeOK, ThreadType, Producers
<1> DEFINE GatesAt(l) == {tc \in TC : l = <<"gate", tc>>}
           E == [l \in Locations |-> {i.frame : i \in UNION {Expired(tc) : tc \in GatesAt(l)}}]
           R == [l \in Locations |-> {i.frame : i \in UNION {Released(tc) : tc \in GatesAt(l)}}]
           H == [l \in Locations |-> IF l = <<"dropped">> THEN At'[l] ELSE At[l] \ E[l]]
<1>1. /\ thread["drain"].pc = "scan" /\ thread'["drain"].pc = "batch"
      /\ thread'["rx"] = thread["rx"] /\ batch.ready = {}
      /\ UNCHANGED <<wire_queues, wire, out, arrived>>
  BY <1>0 DEF DrainScan, Goto, BatchIdle, wires
<1>2. /\ \A tc \in TC : queues'[tc] = queues[tc] \ (Expired(tc) \union Released(tc))
      /\ batch'.ready = UNION {Released(tc) : tc \in TC}
  BY DEF DrainScan, NoBatch
<1>3. \A tc \in TC : /\ Expired(tc) \subseteq queues[tc] /\ Released(tc) \subseteq queues[tc]
                     /\ Expired(tc) \intersect Released(tc) = {}
  BY DEF Expired, Released
<1>4. \A tc \in TC : \A i, j \in queues[tc] : i.frame = j.frame => i = j
  BY DEF GateOnce, NoTwins
<1>5. \A tc \in TC : /\ E[<<"gate", tc>>] = {i.frame : i \in Expired(tc)}
                     /\ R[<<"gate", tc>>] = {i.frame : i \in Released(tc)}
  <2> TAKE tc \in TC
  <2>1. GatesAt(<<"gate", tc>>) = {tc}
    OBVIOUS
  <2>2. UNION {Expired(d) : d \in {tc}} = Expired(tc) /\ UNION {Released(d) : d \in {tc}} = Released(tc)
    OBVIOUS
  <2>3. <<"gate", tc>> \in Locations
    BY LocationFacts
  <2> QED
    BY <2>1, <2>2, <2>3
<1>6. \A l \in Locations : (\A tc \in TC : l # <<"gate", tc>>) => E[l] = {} /\ R[l] = {}
  <2> TAKE l \in Locations
  <2> HAVE \A tc \in TC : l # <<"gate", tc>>
  <2>1. GatesAt(l) = {}
    OBVIOUS
  <2> QED
    BY <2>1
<1>7. \A tc \in TC : At[<<"gate", tc>>] = {i.frame : i \in queues[tc]}
  BY Places DEF Placing
<1>8. \A tc \in TC : At'[<<"gate", tc>>] = {i.frame : i \in queues'[tc]}
  BY PlacesNext DEF Placing
<1>9. ASSUME NEW tc \in TC
      PROVE  /\ E[<<"gate", tc>>] \subseteq At[<<"gate", tc>>]
             /\ R[<<"gate", tc>>] \subseteq At[<<"gate", tc>>]
             /\ R[<<"gate", tc>>] \intersect E[<<"gate", tc>>] = {}
             /\ At'[<<"gate", tc>>] = (At[<<"gate", tc>>] \ E[<<"gate", tc>>]) \ R[<<"gate", tc>>]
  <2> HIDE DEF E, R
  <2>1. \A f : f \in E[<<"gate", tc>>] <=> \E i \in Expired(tc) : f = i.frame
    BY <1>5
  <2>2. \A f : f \in R[<<"gate", tc>>] <=> \E i \in Released(tc) : f = i.frame
    BY <1>5
  <2>3. \A f : f \in At[<<"gate", tc>>] <=> \E i \in queues[tc] : f = i.frame
    BY <1>7
  <2>4. \A f : f \in At'[<<"gate", tc>>]
                 <=> \E i \in queues[tc] : i \notin Expired(tc) /\ i \notin Released(tc) /\ f = i.frame
    BY <1>2, <1>8
  <2> QED
    BY <1>3, <1>4, <2>1, <2>2, <2>3, <2>4
<1>10. /\ \A l \in Locations : \A f \in E[l] : \E tc \in TC : \E i \in Expired(tc) : f = i.frame
      /\ \A tc \in TC : \A i \in Expired(tc) : \E l \in Locations : i.frame \in E[l]
  <2> HIDE DEF E, R
  <2>1. ASSUME NEW l \in Locations, NEW f \in E[l]
        PROVE  \E tc \in TC : \E i \in Expired(tc) : f = i.frame
    <3>1. PICK tc \in TC : l = <<"gate", tc>>
      BY <1>6, <2>1
    <3> QED
      BY <1>5, <2>1, <3>1
  <2>2. ASSUME NEW tc \in TC, NEW i \in Expired(tc)
        PROVE  \E l \in Locations : i.frame \in E[l]
    <3>1. i.frame \in E[<<"gate", tc>>] /\ <<"gate", tc>> \in Locations
      BY <1>5, LocationFacts
    <3> QED
      BY <3>1
  <2> QED
    BY <2>1, <2>2
<1>11. /\ \A l \in Locations : \A f \in R[l] : \E tc \in TC : \E i \in Released(tc) : f = i.frame
      /\ \A tc \in TC : \A i \in Released(tc) : \E l \in Locations : i.frame \in R[l]
  <2> HIDE DEF E, R
  <2>1. ASSUME NEW l \in Locations, NEW f \in R[l]
        PROVE  \E tc \in TC : \E i \in Released(tc) : f = i.frame
    <3>1. PICK tc \in TC : l = <<"gate", tc>>
      BY <1>6, <2>1
    <3> QED
      BY <1>5, <2>1, <3>1
  <2>2. ASSUME NEW tc \in TC, NEW i \in Released(tc)
        PROVE  \E l \in Locations : i.frame \in R[l]
    <3>1. i.frame \in R[<<"gate", tc>>] /\ <<"gate", tc>> \in Locations
      BY <1>5, LocationFacts
    <3> QED
      BY <3>1
  <2> QED
    BY <2>1, <2>2
<1>12. \A l \in Locations :
         E[l] \subseteq At[l] /\ R[l] \subseteq At[l] /\ R[l] \intersect E[l] = {}
  <2> HIDE DEF E, R
  <2> QED
    BY <1>6, <1>9
<1>13. At'[<<"dropped">>] = At[<<"dropped">>] \union UNION {E[l] : l \in Locations}
  <2>1. At[<<"dropped">>] = {d.frame : d \in dropped}
    BY Places DEF Placing
  <2>2. At'[<<"dropped">>] = {d.frame : d \in dropped'}
    BY PlacesNext DEF Placing
  <2>3. dropped' = dropped \union {[frame |-> i.frame, tc |-> i.tc] :
                                     i \in UNION {Expired(tc) : tc \in TC}}
    BY DEF DrainScan
  <2>4. ASSUME NEW d \in dropped', d \notin dropped
        PROVE  \E tc \in TC : \E i \in Expired(tc) : d.frame = i.frame
    BY <2>3, <2>4
  <2>5. ASSUME NEW tc \in TC, NEW i \in Expired(tc)
        PROVE  \E d \in dropped' : d.frame = i.frame
    <3>1. [frame |-> i.frame, tc |-> i.tc] \in dropped'
      BY <2>3
    <3> QED
      BY <3>1
  <2>6. \A d \in dropped : d \in dropped'
    BY <2>3
  <2> HIDE DEF E, R
  <2>7. ASSUME NEW f \in At'[<<"dropped">>]
        PROVE  f \in At[<<"dropped">>] \/ \E l \in Locations : f \in E[l]
    <3>1. PICK d \in dropped' : f = d.frame
      BY <2>2
    <3> QED
      BY <1>10, <2>1, <2>4, <3>1
  <2>8. ASSUME NEW f \in At[<<"dropped">>]
        PROVE  f \in At'[<<"dropped">>]
    BY <2>1, <2>2, <2>6
  <2>9. ASSUME NEW l \in Locations, NEW f \in E[l]
        PROVE  f \in At'[<<"dropped">>]
    BY <1>10, <2>2, <2>5
  <2> QED
    BY <2>7, <2>8, <2>9
<1>14. At'[<<"ready">>] = At[<<"ready">>] \union UNION {R[l] : l \in Locations}
  <2>1. At[<<"ready">>] = {}
    BY <1>1, Places DEF Placing
  <2>2. At'[<<"ready">>] = {i.frame : i \in UNION {Released(tc) : tc \in TC}}
    BY <1>2, PlacesNext DEF Placing
  <2> HIDE DEF E, R
  <2> QED
    BY <1>11, <2>1, <2>2
<1>15. \A l \in Locations : l \in {<<"dropped">>, <<"ready">>} \/ At'[l] = (At[l] \ E[l]) \ R[l]
  <2> HIDE DEF E, R
  <2>1. ASSUME NEW l \in Locations, \A tc \in TC : l # <<"gate", tc>>
        PROVE  l \in {<<"dropped">>, <<"ready">>} \/ At'[l] = (At[l] \ E[l]) \ R[l]
    <3> DEFINE M == {<<"dropped">>, <<"ready">>} \union {<<"gate", tc>> : tc \in TC}
    <3>1. \A m \in Locations : m \notin M => At'[m] = At[m]
      BY <1>1, Others DEF InHand
    <3>2. E[l] = {} /\ R[l] = {}
      BY <1>6, <2>1
    <3> QED
      BY <2>1, <3>1, <3>2
  <2> QED
    BY <1>9, <2>1
<1>16. Gathering(At, H, E, <<"dropped">>)
  <2> HIDE DEF E, R
  <2>1. E[<<"dropped">>] = {}
    BY <1>6, LocationFacts
  <2>2. H[<<"dropped">>] = At'[<<"dropped">>]
    BY LocationFacts
  <2>3. \A l \in Locations : l # <<"dropped">> => H[l] = At[l] \ E[l]
    OBVIOUS
  <2> HIDE DEF H
  <2> QED
    BY <1>12, <1>13, <2>1, <2>2, <2>3 DEF Gathering
<1>17. Gathering(H, At', R, <<"ready">>)
  <2> HIDE DEF E, R
  <2>1. R[<<"ready">>] = {} /\ R[<<"dropped">>] = {} /\ E[<<"ready">>] = {}
    BY <1>6, LocationFacts
  <2>2. H[<<"dropped">>] = At'[<<"dropped">>]
    BY LocationFacts
  <2>3. \A l \in Locations : l # <<"dropped">> => H[l] = At[l] \ E[l]
    OBVIOUS
  <2> HIDE DEF H
  <2>4. \A l \in Locations : R[l] \subseteq H[l]
    BY <1>12, <2>1, <2>2, <2>3
  <2>5. \A l \in Locations : l # <<"ready">> => At'[l] = H[l] \ R[l]
    BY <1>15, <2>1, <2>2, <2>3
  <2>6. At'[<<"ready">>] = H[<<"ready">>] \union UNION {R[l] : l \in Locations}
    BY <1>14, <2>1, <2>3, LocationFacts
  <2> QED
    BY <2>1, <2>4, <2>5, <2>6 DEF Gathering
<1> HIDE DEF E, R, H
<1>18. Spread(At', arrived')
  <2>1. Spread(H, arrived)
    BY <1>16, LocationFacts, Gathered
  <2> QED
    BY <1>1, <1>17, <2>1, LocationFacts, Gathered
<1>19. GateOnce'
  BY <1>2, <1>4 DEF GateOnce, NoTwins
<1>20. ReadyOnce'
  <2> SUFFICES ASSUME NEW c \in TC, NEW d \in TC, NEW i \in Released(c), NEW j \in Released(d),
                      i.frame = j.frame
               PROVE  i = j
    BY <1>2 DEF ReadyOnce, NoTwins
  <2>1. i.frame \in At[<<"gate", c>>] /\ i.frame \in At[<<"gate", d>>]
    BY <1>3, <1>7
  <2>2. c = d
    <3>1. <<"gate", c>> = <<"gate", d>>
      BY <2>1, Elsewhere, LocationFacts
    <3> QED
      BY <3>1
  <2> QED
    BY <1>3, <1>4, <2>2
<1>21. BatchIdle'
  BY <1>1 DEF BatchIdle
<1> QED
  BY <1>1, <1>18, <1>19, <1>20, <1>21, KeptParts, OnceUnchanged

\* The head of a wire queue goes onto the wire.
LEMMA KeptTake ==
  ASSUME TypeOK, Kept, WireTake
  PROVE  Kept'
<1> USE DEF Kept
<1> DEFINE q == wire.best
           s == wire_queues[q]
           W == [item : Item, seq : Nat]
           f == Head(s).item.frame
<1>1. /\ q \in TC /\ s \in Seq(W) /\ s # << >> /\ wire.pc = "look"
      /\ wire_queues' = [wire_queues EXCEPT ![q] = Tail(s)]
      /\ wire'.pc = "busy" /\ wire'.item = Head(s).item
      /\ UNCHANGED <<queues, thread, batch, out, dropped, arrived>>
  BY DEF WireTake, TypeOK, WireType, WireQueueType, NoWire
<1>2. /\ Len(s) \in Nat /\ Len(s) > 0 /\ DOMAIN s = 1 .. Len(s) /\ Head(s) = s[1]
      /\ DOMAIN Tail(s) = 1 .. Len(s) - 1 /\ \A k \in 1 .. Len(s) - 1 : Tail(s)[k] = s[k + 1]
  BY <1>1, HeadTailProperties
<1>3. wire_queues'[q] = Tail(s) /\ \A tc \in TC : tc # q => wire_queues'[tc] = wire_queues[tc]
  BY <1>1 DEF TypeOK, WireQueueType
<1>4. At[<<"busy">>] = {} /\ At'[<<"busy">>] = {f}
  BY <1>1, Places, PlacesNext DEF Placing
<1>5. \A j, k \in 1 .. Len(s) : s[j].item.frame = s[k].item.frame => j = k
  BY <1>1, <1>2 DEF WireOnce, NoRepeat
<1>6. At[<<"wire", q>>] = {s[k].item.frame : k \in 1 .. Len(s)}
  BY <1>1, <1>2, Places DEF Placing
<1>7. At'[<<"wire", q>>] = {Tail(s)[k].item.frame : k \in 1 .. Len(s) - 1}
  <2>1. At'[<<"wire", q>>] = {wire_queues'[q][k].item.frame : k \in DOMAIN wire_queues'[q]}
    BY <1>1, PlacesNext DEF Placing
  <2>2. DOMAIN wire_queues'[q] = 1 .. Len(s) - 1
    BY <1>2, <1>3
  <2> QED
    BY <1>3, <2>1, <2>2
<1> HIDE DEF q, s
<1>8. f \in At[<<"wire", q>>] /\ At'[<<"wire", q>>] = At[<<"wire", q>>] \ {f}
  <2>1. f \in At[<<"wire", q>>]
    BY <1>2, <1>6
  <2>2. ASSUME NEW k \in 1 .. Len(s), k # 1
        PROVE  s[k].item.frame \in At'[<<"wire", q>>] /\ s[k].item.frame # f
    <3>1. k - 1 \in 1 .. Len(s) - 1 /\ Tail(s)[k - 1] = s[k]
      BY <1>2, <2>2
    <3>2. s[k].item.frame \in At'[<<"wire", q>>]
      BY <1>7, <3>1
    <3>3. s[k].item.frame # f
      BY <1>2, <1>5, <2>2
    <3> QED
      BY <3>2, <3>3
  <2>3. ASSUME NEW k \in 1 .. Len(s) - 1
        PROVE  Tail(s)[k].item.frame \in At[<<"wire", q>>] /\ Tail(s)[k].item.frame # f
    <3>1. k + 1 \in 1 .. Len(s) /\ k + 1 # 1 /\ Tail(s)[k] = s[k + 1]
      BY <1>2, <2>3
    <3>2. s[k + 1].item.frame # f
      BY <2>2, <3>1
    <3> QED
      BY <1>6, <3>1, <3>2
  <2>4. \A g \in At[<<"wire", q>>] : g # f => g \in At'[<<"wire", q>>]
    BY <1>2, <1>6, <2>2
  <2>5. \A g \in At'[<<"wire", q>>] : g \in At[<<"wire", q>>] /\ g # f
    BY <1>7, <2>3
  <2> QED
    BY <2>1, <2>4, <2>5
<1>9. \A l \in Locations : l \notin {<<"wire", q>>, <<"busy">>} => At'[l] = At[l]
  BY <1>1, <1>3, Others DEF InHand
<1>10. <<"wire", q>> # <<"busy">> /\ <<"wire", q>> \in Locations
  BY <1>1, LocationFacts
<1>11. Moving(At, At', f, <<"wire", q>>, <<"busy">>)
  BY <1>4, <1>8, <1>9, <1>10 DEF Moving
<1>12. Spread(At', arrived')
  BY <1>1, <1>10, <1>11, LocationFacts, Moved
<1>13. WireOnce'
  <2>1. \A j, k \in 1 .. Len(s) - 1 : Tail(s)[j].item.frame = Tail(s)[k].item.frame => j = k
    BY <1>2, <1>5
  <2>2. \A j, k \in DOMAIN wire_queues'[q] :
          wire_queues'[q][j].item.frame = wire_queues'[q][k].item.frame => j = k
    BY <1>2, <1>3, <2>1
  <2> QED
    BY <1>3, <2>2 DEF WireOnce, NoRepeat
<1> QED
  BY <1>1, <1>12, <1>13, KeptParts, OnceUnchanged

\* The frame on the wire has been sent.
LEMMA KeptWireSend ==
  ASSUME TypeOK, Kept, WireSend
  PROVE  Kept'
<1> USE DEF Kept
<1> DEFINE f == wire.item.frame
           r == [frame |-> f, tc |-> wire.item.tc, held |-> wire.item.held]
<1>1. /\ wire.pc = "busy" /\ wire'.pc = "idle" /\ out' = Append(out, r)
      /\ UNCHANGED <<queues, wire_queues, thread, batch, dropped, arrived>>
  BY DEF WireSend, Send, NoWire, wires
<1>2. r \in [frame : Nat, tc : Nat, held : BOOLEAN] /\ r.frame = f
  BY DEF TypeOK, WireType, Item
<1>3. At[<<"busy">>] = {f} /\ At'[<<"busy">>] = At[<<"busy">>] \ {f}
  BY <1>1, Places, PlacesNext DEF Placing
<1> HIDE DEF f, r
<1>4. OutOnce' /\ At'[<<"out">>] = At[<<"out">>] \union {f}
  BY <1>1, <1>2, <1>3, Left, Elsewhere, LocationFacts
<1>5. \A l \in Locations : l \notin {<<"busy">>, <<"out">>} => At'[l] = At[l]
  BY <1>1, Others DEF InHand
<1>6. Moving(At, At', f, <<"busy">>, <<"out">>)
  BY <1>3, <1>4, <1>5 DEF Moving
<1>7. Spread(At', arrived')
  BY <1>1, <1>6, LocationFacts, Moved
<1> QED
  BY <1>1, <1>4, <1>7, KeptParts, OnceUnchanged

\* Every other step leaves the frames where they are.
LEMMA KeptIdle ==
  ASSUME TypeOK, Kept,
         \/ DrainSample \/ DrainDone
         \/ WireSample \/ WireSkip \/ WireOffset \/ WireJudge \/ WireNothing
         \/ (\E c \in Configs : UpdateConfig(c)) \/ Stop \/ Tick \/ UNCHANGED vars
  PROVE  Kept'
<1> USE DEF Kept
<1>1. UNCHANGED <<queues, wire_queues, out, dropped, arrived>>
  BY DEF DrainSample, DrainDone, WireSample, WireSkip, WireOffset, WireJudge, WireNothing,
         UpdateConfig, Stop, Tick, vars, wires
<1>2. /\ batch'.ready = batch.ready /\ BatchIdle'
      /\ InHand("rx")' = InHand("rx") /\ InHand("drain")' = InHand("drain")
  <2>1. CASE DrainSample \/ DrainDone
    <3>1. /\ thread'["rx"] = thread["rx"] /\ thread["drain"].pc \in {"idle", "batch"}
          /\ thread'["drain"].pc \in {"scan", "idle"} /\ batch.ready = {} /\ batch'.ready = {}
      BY <2>1 DEF DrainSample, DrainDone, Goto, NoThread, NoBatch, BatchIdle,
                  TypeOK, ThreadType, Producers
    <3> QED
      BY <3>1 DEF InHand, BatchIdle
  <2>2. CASE UNCHANGED <<thread, batch>>
    BY <2>2 DEF InHand, BatchIdle
  <2> QED
    BY <2>1, <2>2 DEF WireSample, WireSkip, WireOffset, WireJudge, WireNothing,
                      UpdateConfig, Stop, Tick, vars, locals
<1>3. \/ wire'.pc # "busy" /\ wire.pc # "busy"
      \/ wire'.pc = wire.pc /\ wire'.item = wire.item
  <2>1. CASE WireSample \/ WireNothing
    <3>1. wire.pc \in {"look", "idle"} /\ wire' \in {NoWire, [NoWire EXCEPT !.pc = "look", !.now = now]}
      BY <2>1 DEF WireSample, WireNothing
    <3>2. NoWire \in [pc : {"idle"}, tc : {0}, now : {0}, offset : {0}, best : {-1},
                     item : {NoItem}, left : {0}]
      BY DEF NoWire
    <3>3. wire'.pc \in {"look", "idle"}
      BY <3>1, <3>2
    <3> QED
      BY <3>1, <3>3
  <2>2. CASE WireSkip \/ WireOffset \/ WireJudge
    <3>1. wire.pc \in {"look", "gate"} /\ wire'.pc \in {"look", "gate"}
      BY <2>2 DEF WireSkip, WireOffset, WireJudge, TypeOK, WireType
    <3> QED
      BY <3>1
  <2>3. CASE Tick
    BY <2>3 DEF Tick, TypeOK, WireType
  <2>4. CASE UNCHANGED wire
    BY <2>4
  <2> QED
    BY <2>1, <2>2, <2>3, <2>4 DEF DrainSample, DrainDone, UpdateConfig, Stop, vars, locals
<1>4. At'[<<"busy">>] = At[<<"busy">>]
  BY <1>3, Places, PlacesNext DEF Placing
<1>5. \A l \in Locations : l \notin {<<"busy">>} => At'[l] = At[l]
  BY <1>1, <1>2, Others
<1>6. \A l \in Locations : At'[l] = At[l]
  BY <1>4, <1>5
<1>7. Spread(At', arrived')
  BY <1>1, <1>6, Stayed
<1>8. ReadyOnce'
  BY <1>2 DEF ReadyOnce
<1> QED
  BY <1>1, <1>2, <1>7, <1>8, KeptParts, OnceUnchanged

LEMMA KeptStep ==
  ASSUME TypeOK, Kept, [Next]_vars
  PROVE  Kept'
<1>1. CASE Arrival
  BY <1>1, KeptEnqueue
<1>2. CASE EnqueueRest
  BY <1>2, KeptEnqueue, KeptHandOver, KeptAppend DEF EnqueueRest, Producers
<1>3. CASE DrainLoop
  BY <1>3, KeptIdle, KeptScan, KeptReady, KeptAppend DEF DrainLoop, Producers
<1>4. CASE WireLoop
  BY <1>4, KeptIdle, KeptTake, KeptWireSend DEF WireLoop
<1> QED
  BY <1>1, <1>2, <1>3, <1>4, KeptIdle DEF Next

LEMMA AllKept == Spec => []Kept
<1>1. TypeOK /\ Kept /\ [Next]_vars => Kept'
  BY KeptStep
<1> QED
  BY <1>1, KeptInit, TypeCorrect, PTL DEF Spec

\* With any interleaving of the threads, any updates and any timing, each frame
\* that enqueue accepted is at exactly one place: held at its gate, in the batch,
\* queued for the wire, in a thread's hands, sent once, or dropped.
THEOREM FramesConserved == Spec => []Conserved
  BY AllKept, KeptConserves, PTL

-----------------------------------------------------------------------------
(***************************************************************************)
(* StatsBalance.  It needs Kept: an item that enqueue holds is not in the  *)
(* queue already, so the queue grows.                                      *)
(***************************************************************************)
BatchFinite == \A tc \in TC : IsFiniteSet(InBatch(tc))

Balanced == BatchFinite /\ StatsBalance

LEMMA BalancedInit == Init => Balanced
<1> SUFFICES ASSUME Init, NEW tc \in TC
             PROVE  /\ IsFiniteSet(InBatch(tc))
                    /\ stats.queued[tc] + Counting(tc)
                         = (stats.sent[tc] - stats.sent_immediate[tc]) + stats.dropped[tc]
                             + Cardinality(queues[tc]) + Cardinality(InBatch(tc)) + Carried(tc)
  BY DEF Balanced, BatchFinite, StatsBalance
<1>1. Counting(tc) = 0 /\ Carried(tc) = 0
  BY DEF Init, Counting, Carried, NoThread, Producers
<1>2. InBatch(tc) = {} /\ queues[tc] = {}
  BY DEF Init, InBatch, NoBatch
<1>3. /\ stats.queued[tc] = 0 /\ stats.sent[tc] = 0
      /\ stats.sent_immediate[tc] = 0 /\ stats.dropped[tc] = 0
  BY DEF Init
<1> QED
  BY <1>1, <1>2, <1>3, FS_EmptySet

\* The counters are numbers, and so are the sizes of the queues and the batch.
LEMMA BalanceTypes ==
  ASSUME TypeOK, Finite, BatchFinite, NEW tc \in TC
  PROVE  /\ stats.queued[tc] \in Nat /\ stats.dropped[tc] \in Nat
         /\ stats.sent[tc] \in Nat /\ stats.sent_immediate[tc] \in Nat
         /\ Cardinality(queues[tc]) \in Nat /\ Cardinality(InBatch(tc)) \in Nat
         /\ Counting(tc) \in {0, 1} /\ Carried(tc) \in {0, 1}
<1>1. Cardinality(queues[tc]) \in Nat /\ Cardinality(InBatch(tc)) \in Nat
  BY FS_CardinalityType DEF Finite, BatchFinite
<1> QED
  BY <1>1 DEF TypeOK, StatsType, Counting, Carried

\* What counting a frame as sent does to the number of those sent after waiting.
LEMMA RecordSentEffect ==
  ASSUME TypeOK, NEW tc \in TC \union RawTC, NEW q \in BOOLEAN, RecordSent(tc, q)
  PROVE  /\ stats'.queued = stats.queued /\ stats'.dropped = stats.dropped
         /\ \A d \in TC : stats'.sent[d] - stats'.sent_immediate[d]
              = (stats.sent[d] - stats.sent_immediate[d]) + (IF d = tc /\ q THEN 1 ELSE 0)
<1>1. stats' = [sent |-> [stats.sent EXCEPT ![tc] = @ + 1],
                sent_immediate |-> [stats.sent_immediate EXCEPT ![tc] = IF q THEN @ ELSE @ + 1],
                queued |-> stats.queued, dropped |-> stats.dropped]
  BY DEF TypeOK, StatsType, RecordSent
<1>2. ASSUME NEW d \in TC
      PROVE  stats'.sent[d] - stats'.sent_immediate[d]
               = (stats.sent[d] - stats.sent_immediate[d]) + (IF d = tc /\ q THEN 1 ELSE 0)
  <2>1. stats.sent[d] \in Nat /\ stats.sent_immediate[d] \in Nat
    BY DEF TypeOK, StatsType
  <2>2. /\ stats'.sent[d] = IF d = tc THEN stats.sent[d] + 1 ELSE stats.sent[d]
        /\ stats'.sent_immediate[d] = IF d = tc /\ ~q THEN stats.sent_immediate[d] + 1
                                      ELSE stats.sent_immediate[d]
    BY <1>1 DEF TypeOK, StatsType
  <2> QED
    BY <2>1, <2>2
<1> QED
  BY <1>1, <1>2

\* A step that touches neither queues nor batch, nor what either producer has in
\* hand, and counts no frame or one that never waited.
LEMMA BalanceKept ==
  ASSUME TypeOK, Finite, Balanced, UNCHANGED <<queues>>, batch'.ready = batch.ready,
         \A tc \in TC : Counting(tc)' = Counting(tc) /\ Carried(tc)' = Carried(tc),
         \/ UNCHANGED stats
         \/ \E tc \in TC \union RawTC : RecordSent(tc, FALSE)
  PROVE  Balanced'
<1>1. /\ stats'.queued = stats.queued /\ stats'.dropped = stats.dropped
      /\ \A d \in TC : stats'.sent[d] - stats'.sent_immediate[d]
                         = stats.sent[d] - stats.sent_immediate[d]
  <2>1. CASE UNCHANGED stats
    BY <2>1
  <2>2. ASSUME NEW tc \in TC \union RawTC, RecordSent(tc, FALSE)
        PROVE  /\ stats'.queued = stats.queued /\ stats'.dropped = stats.dropped
               /\ \A d \in TC : stats'.sent[d] - stats'.sent_immediate[d]
                                  = stats.sent[d] - stats.sent_immediate[d]
    <3>1. \A d \in TC : stats.sent[d] - stats.sent_immediate[d] \in Int
      BY DEF TypeOK, StatsType
    <3>2. \A d \in TC : stats'.sent[d] - stats'.sent_immediate[d]
                          = (stats.sent[d] - stats.sent_immediate[d]) + 0
      BY <2>2, RecordSentEffect
    <3>3. stats'.queued = stats.queued /\ stats'.dropped = stats.dropped
      BY <2>2, RecordSentEffect
    <3> QED
      BY <3>1, <3>2, <3>3
  <2> QED
    BY <2>1, <2>2
<1>2. \A d \in TC : InBatch(d)' = InBatch(d)
  BY DEF InBatch
<1> QED
  BY <1>1, <1>2 DEF Balanced, BatchFinite, StatsBalance

LEMMA BalanceEnqueue ==
  ASSUME TypeOK, Finite, Kept, Balanced, Arrival \/ EnqueueRest
  PROVE  Balanced'
<1>0. /\ thread \in [Producers -> [pc : RxStates \union DrainStates, item : Item,
                                   offset : Nat, seq : Nat]]
      /\ "rx" \in Producers /\ "drain" \in Producers /\ "rx" # "drain"
      /\ thread["rx"].item \in Item
      /\ thread["rx"].item.tc \in TC \union RawTC
      /\ thread["rx"].pc # "sent" => thread["rx"].item.tc \in TC
  BY DEF TypeOK, ThreadType, Producers
<1>1. CASE EnqueueSend \/ \E tc \in RawTC : EnqueueBypass(tc)
  <2>1. /\ UNCHANGED <<queues, batch, stats>>
        /\ thread["rx"].pc \in {"idle", "open"} /\ \E i : Calls("rx", i)
    BY <1>1 DEF EnqueueSend, EnqueueBypass, Arrive
  <2>2. thread'["rx"].pc = "sent" /\ thread'["drain"] = thread["drain"]
    BY <1>0, <2>1, CallsShape DEF TypeOK
  <2> QED
    BY <2>1, <2>2, BalanceKept DEF Counting, Carried
<1>2. CASE \/ \E tc \in RawTC : EnqueueSample(tc)
           \/ EnqueueJudge \/ EnqueueLoadSeq
           \/ WireAppend("rx") \/ BumpLoad("rx")
  <2>1. UNCHANGED <<queues, batch, stats>>
    BY <1>2 DEF EnqueueSample, EnqueueJudge, EnqueueLoadSeq, WireAppend, BumpLoad
  <2>2. /\ thread["rx"].pc # "count" /\ thread'["rx"].pc # "count"
        /\ thread'["drain"] = thread["drain"]
    <3>1. CASE EnqueueJudge
      <4>1. /\ thread["rx"].pc = "gate" /\ thread'["rx"].pc \in {"open", "closed"}
            /\ thread'["drain"] = thread["drain"]
        BY <1>0, <3>1 DEF EnqueueJudge, NoThread
      <4> QED
        BY <4>1
    <3>2. CASE \E tc \in RawTC : EnqueueSample(tc)
      BY <1>0, <3>2 DEF EnqueueSample, Arrive
    <3>3. CASE EnqueueLoadSeq
      BY <1>0, <3>3 DEF EnqueueLoadSeq
    <3>4. CASE WireAppend("rx")
      BY <1>0, <3>4 DEF WireAppend, Goto
    <3>5. CASE BumpLoad("rx")
      BY <1>0, <3>5 DEF BumpLoad
    <3> QED
      BY <1>2, <3>1, <3>2, <3>3, <3>4, <3>5
  <2> QED
    BY <2>1, <2>2, BalanceKept DEF Counting, Carried
<1>3. CASE BumpStore("rx") \/ Counted("rx")
  <2>1. /\ UNCHANGED <<queues, batch>> /\ Counts("rx")
        /\ thread["rx"].pc \in {"store", "sent"}
    BY <1>3 DEF BumpStore, Counted
  <2>2. thread'["rx"].pc = "idle" /\ thread'["drain"] = thread["drain"]
    BY <1>0, <2>1, CountsShape DEF TypeOK
  <2>3. RecordSent(thread["rx"].item.tc, FALSE)
    BY <2>1 DEF Counts, RecordSent
  <2> QED
    BY <1>0, <2>1, <2>2, <2>3, BalanceKept DEF Counting, Carried
<1>4. CASE EnqueueHold
  <2> DEFINE q == thread["rx"].item.tc
             h == [thread["rx"].item EXCEPT !.held = TRUE]
  <2>1. /\ thread["rx"].pc = "closed" /\ thread'["rx"].pc = "count"
        /\ thread'["rx"].item = thread["rx"].item /\ thread'["drain"] = thread["drain"]
        /\ UNCHANGED <<batch, stats>>
    BY <1>0, <1>4 DEF EnqueueHold, Goto
  <2>2. /\ q \in TC /\ h.frame = thread["rx"].item.frame
        /\ queues' = [queues EXCEPT ![q] = @ \union {h}]
    BY <1>0, <1>4 DEF EnqueueHold, Item
  <2>3. h \notin queues[q]
    <3>1. thread["rx"].item.frame \in At[<<"rx">>]
      BY <2>1, Places DEF Placing, InHand
    <3>2. thread["rx"].item.frame \notin At[<<"gate", q>>]
      <4>1. <<"gate", q>> # <<"rx">> /\ <<"gate", q>> \in Locations
        BY <2>2, LocationFacts
      <4> QED
        BY <3>1, <4>1, Elsewhere, LocationFacts
    <3>3. At[<<"gate", q>>] = {i.frame : i \in queues[q]}
      BY <2>2, Places DEF Placing
    <3> HIDE DEF h
    <3> QED
      BY <2>2, <3>2, <3>3
  <2> HIDE DEF h
  <2>4. \A d \in TC : queues'[d] = IF d = q THEN queues[d] \union {h} ELSE queues[d]
    BY <2>2 DEF TypeOK, QueueType
  <2> SUFFICES ASSUME NEW d \in TC
               PROVE  /\ IsFiniteSet(InBatch(d)')
                      /\ (stats.queued[d] + Counting(d)
                            = (stats.sent[d] - stats.sent_immediate[d]) + stats.dropped[d]
                                + Cardinality(queues[d]) + Cardinality(InBatch(d)) + Carried(d))'
    BY DEF Balanced, BatchFinite, StatsBalance
  <2>5. /\ InBatch(d)' = InBatch(d) /\ Carried(d)' = Carried(d)
        /\ Counting(d) = 0 /\ Counting(d)' = IF d = q THEN 1 ELSE 0
    BY <2>1 DEF InBatch, Carried, Counting
  <2>6. Cardinality(queues'[d]) = Cardinality(queues[d]) + (IF d = q THEN 1 ELSE 0)
    <3>1. CASE d = q
      <4>1. Cardinality(queues[d] \union {h}) = Cardinality(queues[d]) + 1
        BY <2>3, <3>1, FS_AddElement DEF Finite
      <4>2. queues'[d] = queues[d] \union {h}
        BY <2>4, <3>1
      <4> QED
        BY <3>1, <4>1, <4>2
    <3>2. CASE d # q
      <4>1. queues'[d] = queues[d]
        BY <2>4, <3>2
      <4>2. Cardinality(queues[d]) \in Nat
        BY BalanceTypes DEF Balanced
      <4> QED
        BY <3>2, <4>1, <4>2
    <3> QED
      BY <3>1, <3>2
  <2>7. IsFiniteSet(InBatch(d)')
    BY <2>5 DEF Balanced, BatchFinite
  <2>8. stats.queued[d] + Counting(d)
          = (stats.sent[d] - stats.sent_immediate[d]) + stats.dropped[d]
              + Cardinality(queues[d]) + Cardinality(InBatch(d)) + Carried(d)
    BY DEF Balanced, StatsBalance
  <2> HIDE DEF q
  <2> QED
    BY <2>1, <2>5, <2>6, <2>7, <2>8, BalanceTypes DEF Balanced
<1>5. CASE EnqueueCount
  <2> DEFINE q == thread["rx"].item.tc
  <2>1. /\ thread["rx"].pc = "count" /\ thread'["rx"].pc = "idle"
        /\ thread'["drain"] = thread["drain"]
        /\ UNCHANGED <<batch, queues>>
    BY <1>0, <1>5 DEF EnqueueCount, Goto, NoThread
  <2>2. /\ stats'.sent = stats.sent /\ stats'.sent_immediate = stats.sent_immediate
        /\ stats'.dropped = stats.dropped
        /\ \A d \in TC : stats'.queued[d] = stats.queued[d] + (IF d = q THEN 1 ELSE 0)
    <3>1. stats' = [sent |-> stats.sent, sent_immediate |-> stats.sent_immediate,
                    queued |-> [stats.queued EXCEPT ![q] = @ + 1], dropped |-> stats.dropped]
      BY <1>5 DEF EnqueueCount, TypeOK, StatsType
    <3>2. stats.queued \in [TC \union RawTC -> Nat]
      BY DEF TypeOK, StatsType
    <3> QED
      BY <1>0, <3>1, <3>2
  <2> SUFFICES ASSUME NEW d \in TC
               PROVE  /\ IsFiniteSet(InBatch(d)')
                      /\ (stats.queued[d] + Counting(d)
                            = (stats.sent[d] - stats.sent_immediate[d]) + stats.dropped[d]
                                + Cardinality(queues[d]) + Cardinality(InBatch(d)) + Carried(d))'
    BY DEF Balanced, BatchFinite, StatsBalance
  <2>3. /\ InBatch(d)' = InBatch(d) /\ Carried(d)' = Carried(d)
        /\ Counting(d) = (IF d = q THEN 1 ELSE 0) /\ Counting(d)' = 0
    BY <2>1 DEF InBatch, Carried, Counting
  <2>4. IsFiniteSet(InBatch(d)')
    BY <2>3 DEF Balanced, BatchFinite
  <2>5. stats.queued[d] + Counting(d)
          = (stats.sent[d] - stats.sent_immediate[d]) + stats.dropped[d]
              + Cardinality(queues[d]) + Cardinality(InBatch(d)) + Carried(d)
    BY DEF Balanced, StatsBalance
  <2> HIDE DEF q
  <2> QED
    BY <2>1, <2>2, <2>3, <2>4, <2>5, BalanceTypes DEF Balanced
<1> QED
  BY <1>1, <1>2, <1>3, <1>4, <1>5 DEF Arrival, EnqueueRest

\* The scan: what leaves a gate queue is counted as dropped or is in the batch.
LEMMA BalanceScan ==
  ASSUME TypeOK, Finite, Kept, Balanced, DrainScan
  PROVE  Balanced'
<1>0. /\ thread \in [Producers -> [pc : RxStates \union DrainStates, item : Item,
                                   offset : Nat, seq : Nat]]
      /\ "rx" \in Producers /\ "drain" \in Producers /\ "rx" # "drain"
  BY DEF TypeOK, ThreadType, Producers
<1>1. /\ thread["drain"].pc = "scan" /\ thread'["drain"].pc = "batch"
      /\ thread'["rx"] = thread["rx"] /\ batch.ready = {}
  BY <1>0 DEF DrainScan, Goto, Kept, BatchIdle
<1> SUFFICES ASSUME NEW d \in TC
             PROVE  /\ IsFiniteSet(InBatch(d)')
                    /\ (stats.queued[d] + Counting(d)
                          = (stats.sent[d] - stats.sent_immediate[d]) + stats.dropped[d]
                              + Cardinality(queues[d]) + Cardinality(InBatch(d)) + Carried(d))'
  BY DEF Balanced, BatchFinite, StatsBalance
<1> DEFINE E == Expired(d)
           R == Released(d)
           Q == queues[d]
<1>2. /\ Carried(d) = 0 /\ Carried(d)' = 0 /\ Counting(d)' = Counting(d)
  BY <1>1 DEF Carried, Counting
<1>3. E \subseteq Q /\ R \subseteq Q \ E /\ IsFiniteSet(Q)
  BY DEF Expired, Released, Finite
<1>4. queues'[d] = (Q \ E) \ R
  BY DEF DrainScan
<1>5. InBatch(d) = {} /\ InBatch(d)' = R
  <2>1. \A c \in TC : \A i \in Released(c) : i.tc = c
    BY DEF Released, TypeOK, QueueType
  <2>2. batch'.ready = UNION {Released(c) : c \in TC}
    BY DEF DrainScan, NoBatch
  <2> QED
    BY <1>1, <2>1, <2>2 DEF InBatch
<1>6. /\ stats'.sent = stats.sent /\ stats'.sent_immediate = stats.sent_immediate
      /\ stats'.queued = stats.queued /\ stats'.dropped[d] = stats.dropped[d] + Cardinality(E)
  <2>1. stats' = [sent |-> stats.sent, sent_immediate |-> stats.sent_immediate,
                  queued |-> stats.queued,
                  dropped |-> [tc \in TC \union RawTC |->
                    stats.dropped[tc] + (IF tc \in TC THEN Cardinality(Expired(tc)) ELSE 0)]]
    BY DEF DrainScan, TypeOK, StatsType
  <2> QED
    BY <2>1
<1> HIDE DEF E, R, Q
<1>7. /\ IsFiniteSet(R) /\ IsFiniteSet(E) /\ IsFiniteSet(Q \ E)
      /\ Cardinality(Q \ E) = Cardinality(Q) - Cardinality(E)
      /\ Cardinality((Q \ E) \ R) = Cardinality(Q \ E) - Cardinality(R)
  <2>1. Q \intersect E = E /\ (Q \ E) \intersect R = R
    BY <1>3
  <2>2. IsFiniteSet(Q \ E) /\ Cardinality(Q \ E) = Cardinality(Q) - Cardinality(E)
    BY <1>3, <2>1, FS_Difference
  <2>3. Cardinality((Q \ E) \ R) = Cardinality(Q \ E) - Cardinality(R)
    BY <2>1, <2>2, FS_Difference
  <2>4. IsFiniteSet(E) /\ IsFiniteSet(R)
    BY <1>3, <2>2, FS_Subset
  <2> QED
    BY <2>2, <2>3, <2>4
<1>8. Cardinality(E) \in Nat /\ Cardinality(R) \in Nat /\ Cardinality(Q \ E) \in Nat
  BY <1>7, FS_CardinalityType
<1>9. stats.queued[d] + Counting(d)
        = (stats.sent[d] - stats.sent_immediate[d]) + stats.dropped[d] + Cardinality(Q) + 0 + 0
  BY <1>2, <1>5, FS_EmptySet DEF Balanced, StatsBalance, Q
<1>10. /\ stats.queued[d] \in Nat /\ stats.dropped[d] \in Nat /\ Counting(d) \in {0, 1}
       /\ stats.sent[d] \in Nat /\ stats.sent_immediate[d] \in Nat /\ Cardinality(Q) \in Nat
  BY BalanceTypes DEF Balanced, Q
<1>11. stats'.queued[d] + Counting(d)'
         = (stats'.sent[d] - stats'.sent_immediate[d]) + stats'.dropped[d]
             + Cardinality(queues'[d]) + Cardinality(InBatch(d)') + Carried(d)'
  <2>1. PICK q \in Nat, e \in Nat, r \in Nat :
          q = Cardinality(Q) /\ e = Cardinality(E) /\ r = Cardinality(R)
    BY <1>8, <1>10
  <2>x. PICK x \in Nat : x = stats.queued[d]
    BY <1>10
  <2>s. PICK s \in Nat : s = stats.sent[d]
    BY <1>10
  <2>i. PICK i \in Nat : i = stats.sent_immediate[d]
    BY <1>10
  <2>p. PICK p \in Nat : p = stats.dropped[d]
    BY <1>10
  <2>k. PICK k \in Nat : k = Counting(d)
    BY <1>10
  <2>2. stats.queued[d] = x /\ stats.sent[d] = s /\ stats.sent_immediate[d] = i
        /\ stats.dropped[d] = p /\ Counting(d) = k
    BY <2>x, <2>s, <2>i, <2>p, <2>k
  <2>3. x + k = (s - i) + p + q
    BY <1>9, <2>1, <2>2
  <2>4. Cardinality(Q \ E) = q - e /\ Cardinality((Q \ E) \ R) = (q - e) - r
    BY <1>7, <2>1
  <2>5. /\ stats'.queued[d] = x /\ stats'.sent[d] = s /\ stats'.sent_immediate[d] = i
        /\ stats'.dropped[d] = p + e
    BY <1>6, <2>1, <2>2
  <2>6. /\ Counting(d)' = k /\ Carried(d)' = 0 /\ Cardinality(InBatch(d)') = r
        /\ Cardinality(queues'[d]) = (q - e) - r
    BY <1>2, <1>4, <1>5, <2>1, <2>2, <2>4
  <2>7. x + k = (s - i) + (p + e) + ((q - e) - r) + r + 0
    BY <2>3
  <2> QED
    BY <2>5, <2>6, <2>7
<1> QED
  BY <1>5, <1>7, <1>11

\* Taking an item from the batch, to send it or into the hand.
LEMMA BalanceReady ==
  ASSUME TypeOK, Finite, Kept, Balanced, NEW item \in batch.ready,
         DrainSend(item) \/ DrainLoadSeq(item)
  PROVE  Balanced'
<1>0. /\ thread \in [Producers -> [pc : RxStates \union DrainStates, item : Item,
                                   offset : Nat, seq : Nat]]
      /\ "rx" \in Producers /\ "drain" \in Producers /\ "rx" # "drain"
  BY DEF TypeOK, ThreadType, Producers
<1>q. PICK q \in TC : q = item.tc
  BY DEF TypeOK, BatchType
<1>1. /\ thread["drain"].pc = "batch" /\ item \in Item
      /\ batch'.ready = batch.ready \ {item} /\ UNCHANGED queues
  BY DEF DrainSend, DrainLoadSeq, TakeReady, TypeOK, BatchType
<1> SUFFICES ASSUME NEW d \in TC
             PROVE  /\ IsFiniteSet(InBatch(d)')
                    /\ (stats.queued[d] + Counting(d)
                          = (stats.sent[d] - stats.sent_immediate[d]) + stats.dropped[d]
                              + Cardinality(queues[d]) + Cardinality(InBatch(d)) + Carried(d))'
  BY DEF Balanced, BatchFinite, StatsBalance
<1>2. stats.queued[d] + Counting(d)
        = (stats.sent[d] - stats.sent_immediate[d]) + stats.dropped[d]
            + Cardinality(queues[d]) + Cardinality(InBatch(d)) + Carried(d)
  BY DEF Balanced, StatsBalance
<1>3. IsFiniteSet(InBatch(d)') /\ Cardinality(InBatch(d)') =
        IF d = q THEN Cardinality(InBatch(d)) - 1 ELSE Cardinality(InBatch(d))
  <2>1. InBatch(d)' = InBatch(d) \ {item} /\ (item \in InBatch(d) <=> d = q)
    BY <1>q, <1>1 DEF InBatch
  <2>2. IsFiniteSet(InBatch(d))
    BY DEF Balanced, BatchFinite
  <2> QED
    BY <2>1, <2>2, FS_RemoveElement
<1>4. Counting(d)' = Counting(d) /\ Carried(d) = 0
  <2>1. thread'["rx"] = thread["rx"]
    BY <1>0, CallsShape DEF DrainSend, DrainLoadSeq, TypeOK
  <2> QED
    BY <1>1, <2>1 DEF Counting, Carried
<1>5. /\ stats.queued[d] \in Nat /\ stats.dropped[d] \in Nat /\ Counting(d) \in {0, 1}
      /\ stats.sent[d] \in Nat /\ stats.sent_immediate[d] \in Nat
      /\ Cardinality(queues[d]) \in Nat /\ Cardinality(InBatch(d)) \in Nat
  BY BalanceTypes DEF Balanced
<1>6. thread'["drain"].pc \in {"append", "sent"} /\ thread'["drain"].item.tc = q /\ UNCHANGED stats
  <2>1. CASE DrainSend(item)
    <3>1. Calls("drain", [item EXCEPT !.at = 0]) /\ UNCHANGED stats
      BY <2>1 DEF DrainSend
    <3>2. [item EXCEPT !.at = 0].tc = q
      BY <1>q, <1>1 DEF Item
    <3> QED
      BY <1>0, <3>1, <3>2, CallsShape DEF TypeOK
  <2>2. CASE DrainLoadSeq(item)
    BY <1>0, <1>q, <1>1, <2>2 DEF DrainLoadSeq, Item
  <2> QED
    BY <2>1, <2>2
<1>7. Carried(d)' = IF d = q THEN 1 ELSE 0
  BY <1>6 DEF Carried
<1>8. stats'.queued[d] + Counting(d)'
        = (stats'.sent[d] - stats'.sent_immediate[d]) + stats'.dropped[d]
            + Cardinality(queues'[d]) + Cardinality(InBatch(d)') + Carried(d)'
  <2>1. stats' = stats /\ queues' = queues
    BY <1>1, <1>6
  <2> QED
    BY <1>2, <1>3, <1>4, <1>5, <1>7, <2>1
<1> QED
  BY <1>3, <1>8

LEMMA BalanceDrain ==
  ASSUME TypeOK, Finite, Kept, Balanced, DrainLoop
  PROVE  Balanced'
<1>0. /\ thread \in [Producers -> [pc : RxStates \union DrainStates, item : Item,
                                   offset : Nat, seq : Nat]]
      /\ "rx" \in Producers /\ "drain" \in Producers /\ "rx" # "drain"
      /\ thread["drain"].item.tc \in TC \union RawTC
  BY DEF TypeOK, ThreadType, Producers
<1>1. CASE DrainSample \/ DrainDone
  <2>1. /\ batch.ready = {} /\ batch'.ready = {} /\ UNCHANGED <<queues, stats>>
        /\ thread["drain"].pc \in {"idle", "batch"} /\ thread'["drain"].pc \in {"scan", "idle"}
        /\ thread'["rx"] = thread["rx"]
    BY <1>0, <1>1 DEF DrainSample, DrainDone, NoBatch, Goto, NoThread, Kept, BatchIdle
  <2> QED
    BY <2>1, BalanceKept DEF Counting, Carried
<1>2. CASE WireAppend("drain") \/ BumpLoad("drain")
  <2>1. /\ thread["drain"].pc \in {"append", "bump"} /\ thread'["drain"].pc \in {"bump", "store"}
        /\ thread'["drain"].item = thread["drain"].item /\ thread'["rx"] = thread["rx"]
        /\ UNCHANGED <<queues, batch, stats>>
    <3>1. CASE WireAppend("drain")
      BY <1>0, <3>1 DEF WireAppend, Goto
    <3>2. CASE BumpLoad("drain")
      BY <1>0, <3>2 DEF BumpLoad
    <3> QED
      BY <1>2, <3>1, <3>2
  <2> QED
    BY <2>1, BalanceKept DEF Counting, Carried
<1>3. CASE BumpStore("drain") \/ Counted("drain")
  <2>q. PICK q \in TC \union RawTC : q = thread["drain"].item.tc
    BY <1>0
  <2>1. /\ thread["drain"].pc \in {"store", "sent"} /\ Counts("drain")
        /\ UNCHANGED <<queues, batch>>
    BY <1>3 DEF BumpStore, Counted
  <2>2. thread'["drain"].pc = "batch" /\ thread'["rx"] = thread["rx"]
    BY <1>0, <2>1, CountsShape DEF TypeOK
  <2>3. RecordSent(q, TRUE)
    BY <2>q, <2>1 DEF Counts, RecordSent
  <2> SUFFICES ASSUME NEW d \in TC
               PROVE  /\ IsFiniteSet(InBatch(d)')
                      /\ (stats.queued[d] + Counting(d)
                            = (stats.sent[d] - stats.sent_immediate[d]) + stats.dropped[d]
                                + Cardinality(queues[d]) + Cardinality(InBatch(d)) + Carried(d))'
    BY DEF Balanced, BatchFinite, StatsBalance
  <2>4. /\ stats'.queued = stats.queued /\ stats'.dropped = stats.dropped
        /\ stats'.sent[d] - stats'.sent_immediate[d]
             = (stats.sent[d] - stats.sent_immediate[d]) + (IF d = q /\ TRUE THEN 1 ELSE 0)
    BY <2>3, RecordSentEffect
  <2>5. /\ Counting(d)' = Counting(d) /\ InBatch(d)' = InBatch(d) /\ queues' = queues
        /\ Carried(d) = (IF d = q THEN 1 ELSE 0) /\ Carried(d)' = 0
    BY <2>1, <2>2, <2>q DEF Counting, Carried, InBatch
  <2>6. stats.queued[d] + Counting(d)
          = (stats.sent[d] - stats.sent_immediate[d]) + stats.dropped[d]
              + Cardinality(queues[d]) + Cardinality(InBatch(d)) + Carried(d)
    BY DEF Balanced, StatsBalance
  <2>7. /\ stats.queued[d] \in Nat /\ stats.dropped[d] \in Nat /\ Counting(d) \in {0, 1}
        /\ stats.sent[d] \in Nat /\ stats.sent_immediate[d] \in Nat
        /\ Cardinality(queues[d]) \in Nat /\ Cardinality(InBatch(d)) \in Nat
    BY BalanceTypes DEF Balanced
  <2>8. stats'.queued[d] + Counting(d)'
          = (stats'.sent[d] - stats'.sent_immediate[d]) + stats'.dropped[d]
              + Cardinality(queues'[d]) + Cardinality(InBatch(d)') + Carried(d)'
    BY <2>4, <2>5, <2>6, <2>7
  <2>9. IsFiniteSet(InBatch(d)')
    BY <2>5 DEF Balanced, BatchFinite
  <2> QED
    BY <2>8, <2>9
<1> QED
  BY <1>1, <1>2, <1>3, BalanceScan, BalanceReady DEF DrainLoop

LEMMA BalanceOther ==
  ASSUME TypeOK, Finite, Kept, Balanced,
         WireLoop \/ (\E c \in Configs : UpdateConfig(c)) \/ Stop \/ Tick \/ UNCHANGED vars
  PROVE  Balanced'
<1>1. UNCHANGED <<queues, batch, thread, stats>>
  BY DEF WireLoop, WireSample, WireSkip, WireOffset, WireJudge, WireTake, WireNothing,
         WireSend, UpdateConfig, Stop, Tick, vars, locals
<1> QED
  BY <1>1, BalanceKept DEF Counting, Carried

\* The counters of the dashboard agree with the queues at every moment, although
\* enqueue and the drain loop count after they have released the lock.
THEOREM CountersBalance == Spec => []StatsBalance
<1>1. TypeOK /\ Finite /\ Kept /\ Balanced /\ [Next]_vars => Balanced'
  BY BalanceEnqueue, BalanceDrain, BalanceOther DEF Next
<1>2. Balanced => StatsBalance
  BY DEF Balanced
<1> QED
  BY <1>1, <1>2, BalancedInit, TypesKept, AllKept, PTL DEF Spec

-----------------------------------------------------------------------------
(***************************************************************************)
(* The items inside, by the location of their frames.                      *)
(***************************************************************************)
Sited(l) ==
  CASE l = <<"rx">>    -> Hand("rx")
    [] l = <<"drain">> -> Hand("drain")
    [] l = <<"ready">> -> batch.ready
    [] l = <<"busy">>  -> BusyItems
    [] l = <<"out">>   -> {}
    [] l = <<"dropped">> -> {}
    [] l[1] = "gate"   -> queues[l[2]]
    [] l[1] = "wire"   -> WireItemsOf(l[2])

LEMMA HandFacts ==
  ASSUME NEW t
  PROVE  /\ thread[t].pc \in {"gate", "open", "closed", "append"}
              => Hand(t) = {thread[t].item} /\ InHand(t) = {thread[t].item.frame}
         /\ thread[t].pc \notin {"gate", "open", "closed", "append"}
              => Hand(t) = {} /\ InHand(t) = {}
  BY DEF Hand, InHand

LEMMA HandFactsNext ==
  ASSUME NEW t
  PROVE  /\ thread'[t].pc \in {"gate", "open", "closed", "append"}
              => Hand(t)' = {thread'[t].item}
         /\ thread'[t].pc \notin {"gate", "open", "closed", "append"}
              => Hand(t)' = {}
  BY DEF Hand, InHand

LEMMA SitedFacts ==
  /\ Sited(<<"rx">>) = Hand("rx") /\ Sited(<<"drain">>) = Hand("drain")
  /\ Sited(<<"ready">>) = batch.ready /\ Sited(<<"busy">>) = BusyItems
  /\ Sited(<<"out">>) = {} /\ Sited(<<"dropped">>) = {}
  /\ \A tc \in TC : Sited(<<"gate", tc>>) = queues[tc] /\ Sited(<<"wire", tc>>) = WireItemsOf(tc)
<1>1. Sited(<<"rx">>) = Hand("rx")
  BY DEF Sited
<1>2. Sited(<<"drain">>) = Hand("drain")
  BY DEF Sited
<1>3. Sited(<<"ready">>) = batch.ready
  BY DEF Sited
<1>4. Sited(<<"busy">>) = BusyItems
  BY DEF Sited
<1>5. Sited(<<"out">>) = {} /\ Sited(<<"dropped">>) = {}
  BY DEF Sited
<1>6. ASSUME NEW tc \in TC
      PROVE  Sited(<<"gate", tc>>) = queues[tc]
  BY DEF Sited
<1>7. ASSUME NEW tc \in TC
      PROVE  Sited(<<"wire", tc>>) = WireItemsOf(tc)
  BY DEF Sited
<1> QED
  BY <1>1, <1>2, <1>3, <1>4, <1>5, <1>6, <1>7

LEMMA ItemsSited == Items = UNION {Sited(l) : l \in Locations}
<1>1. ASSUME NEW i
      PROVE  i \in Items <=> \/ i \in Hand("rx") \/ i \in Hand("drain") \/ i \in batch.ready
                             \/ i \in BusyItems
                             \/ \E tc \in TC : i \in queues[tc] \/ i \in WireItemsOf(tc)
  BY DEF Items, GateItems, WireItems
<1>2. ASSUME NEW i, i \in Items
      PROVE  \E l \in Locations : i \in Sited(l)
  BY <1>1, <1>2, SitedFacts, LocationFacts
<1>3. ASSUME NEW l \in Locations, NEW i \in Sited(l)
      PROVE  i \in Items
  BY <1>1, <1>3, SitedFacts, LocationCases
<1> QED
  BY <1>2, <1>3

\* The frame of an item is where the item is, and two items at one place are
\* of different frames.
LEMMA SitedAt ==
  ASSUME TypeOK, Kept, NEW l \in Locations
  PROVE  /\ \A i \in Sited(l) : i.frame \in At[l]
         /\ \A i, j \in Sited(l) : i.frame = j.frame => i = j
<1> DEFINE Same(S) == \A i, j \in S : i.frame = j.frame => i = j
<1>1. ASSUME NEW t \in {"rx", "drain"}, l = <<t>>
      PROVE  Sited(l) = Hand(t) /\ At[l] = InHand(t)
  BY <1>1, SitedFacts, Places DEF Placing
<1>2. CASE \E t \in {"rx", "drain"} : l = <<t>>
  BY <1>1, <1>2, HandFacts
<1>3. CASE l = <<"ready">>
  BY <1>3, SitedFacts, Places DEF Placing, Kept, ReadyOnce, NoTwins
<1>4. CASE l = <<"busy">>
  BY <1>4, SitedFacts, Places DEF Placing, BusyItems
<1>5. CASE l \in {<<"out">>, <<"dropped">>}
  BY <1>5, SitedFacts
<1>6. ASSUME NEW tc \in TC, l = <<"gate", tc>>
      PROVE  (\A i \in Sited(l) : i.frame \in At[l]) /\ Same(Sited(l))
  <2>1. Sited(l) = queues[tc] /\ At[l] = {i.frame : i \in queues[tc]}
    BY <1>6, SitedFacts, Places DEF Placing
  <2>2. Same(queues[tc])
    BY DEF Kept, GateOnce, NoTwins
  <2> QED
    BY <2>1, <2>2
<1>7. ASSUME NEW tc \in TC, l = <<"wire", tc>>
      PROVE  (\A i \in Sited(l) : i.frame \in At[l]) /\ Same(Sited(l))
  <2>1. /\ Sited(l) = WireItemsOf(tc)
        /\ At[l] = {wire_queues[tc][k].item.frame : k \in DOMAIN wire_queues[tc]}
    BY <1>7, SitedFacts, Places DEF Placing
  <2>2. \A j, k \in DOMAIN wire_queues[tc] :
          wire_queues[tc][j].item.frame = wire_queues[tc][k].item.frame => j = k
    BY DEF Kept, WireOnce, NoRepeat
  <2> QED
    BY <2>1, <2>2 DEF WireItemsOf
<1>8. CASE \E tc \in TC : l = <<"gate", tc>> \/ l = <<"wire", tc>>
  BY <1>6, <1>7, <1>8
<1> QED
  BY <1>2, <1>3, <1>4, <1>5, <1>8, LocationCases

\* An item is at one place only, and each frame inside has one item.
LEMMA ItemsOnce ==
  ASSUME TypeOK, Kept
  PROVE  /\ \A l, m \in Locations : \A i \in Sited(l) : i \in Sited(m) => l = m
         /\ \A i, j \in Items : i.frame = j.frame => i = j
<1>1. ASSUME NEW l \in Locations, NEW m \in Locations, NEW i \in Sited(l), NEW j \in Sited(m),
             i.frame = j.frame
      PROVE  l = m /\ i = j
  BY <1>1, SitedAt, Elsewhere
<1> QED
  BY <1>1, ItemsSited

\* Where the items of Items lie, as sets: no two of them share an item.
LEMMA Apart ==
  ASSUME TypeOK, Kept, NEW i
  PROVE  /\ i \in Hand("rx") => i \notin UNION {Hand("drain"), batch.ready, GateItems, WireItems, BusyItems}
         /\ i \in batch.ready => i \notin UNION {Hand("rx"), Hand("drain"), GateItems, WireItems, BusyItems}
         /\ i \in GateItems => i \notin UNION {Hand("rx"), Hand("drain"), batch.ready, WireItems, BusyItems}
         /\ i \in BusyItems => i \notin UNION {Hand("rx"), Hand("drain"), batch.ready, GateItems, WireItems}
<1>1. \A l, m \in Locations : i \in Sited(l) /\ i \in Sited(m) => l = m
  BY ItemsOnce
<1>2. i \in GateItems <=> \E tc \in TC : i \in Sited(<<"gate", tc>>)
  BY SitedFacts DEF GateItems
<1>3. i \in WireItems <=> \E tc \in TC : i \in Sited(<<"wire", tc>>)
  BY SitedFacts DEF WireItems
<1>4. /\ i \in Hand("rx") <=> i \in Sited(<<"rx">>)
      /\ i \in Hand("drain") <=> i \in Sited(<<"drain">>)
      /\ i \in batch.ready <=> i \in Sited(<<"ready">>)
      /\ i \in BusyItems <=> i \in Sited(<<"busy">>)
  BY SitedFacts
<1>5. \A tc \in TC : /\ <<"gate", tc>> \in Locations /\ <<"wire", tc>> \in Locations
                     /\ <<"gate", tc>> \notin {<<"rx">>, <<"drain">>, <<"ready">>, <<"busy">>}
                     /\ <<"wire", tc>> \notin {<<"rx">>, <<"drain">>, <<"ready">>, <<"busy">>}
  BY LocationFacts
<1>6. \A tc, d \in TC : <<"gate", tc>> # <<"wire", d>>
  OBVIOUS
<1>7. /\ <<"rx">> # <<"drain">> /\ <<"rx">> # <<"ready">> /\ <<"rx">> # <<"busy">>
      /\ <<"drain">> # <<"ready">> /\ <<"drain">> # <<"busy">> /\ <<"ready">> # <<"busy">>
  OBVIOUS
<1> QED
  BY <1>1, <1>2, <1>3, <1>4, <1>5, <1>6, <1>7, LocationFacts
-----------------------------------------------------------------------------
(***************************************************************************)
(* Held frames.  They wait in the order of their numbers: in the gate      *)
(* queues, then in the batch, then in the hand of the drain loop.  The     *)
(* frame in the hand of the rx thread is the newest.                       *)
(***************************************************************************)
Stored == batch.ready \union GateItems
Held == Hand("drain") \union Stored

Older(a, b) == a.tc = b.tc => a.frame < b.frame

Marked == \A i \in Held : i.held
Aged == \A i \in Stored : i.at <= now /\ i.at <= LastArrival
InAge == \A i, j \in Stored : i.tc = j.tc /\ i.frame < j.frame => i.at <= j.at
InLine ==
  /\ \A i \in Hand("drain"), j \in Stored : Older(i, j)
  /\ \A i \in batch.ready, j \in GateItems : Older(i, j)
Newest ==
  \A i \in Hand("rx") :
    /\ i.frame = arrived /\ ~i.held
    /\ thread["rx"].pc \in {"gate", "closed"} =>
         i.at <= now /\ i.at <= LastArrival /\ \A j \in Stored : j.at <= i.at

Waiting == Marked /\ Aged /\ InAge /\ InLine /\ Newest

LEMMA ItemTypes ==
  ASSUME TypeOK
  PROVE  /\ \A t \in Producers : Hand(t) \subseteq Item /\ \A i \in Hand(t) : i.tc \in TC
         /\ batch.ready \subseteq Item /\ GateItems \subseteq Item /\ Stored \subseteq Item
         /\ Held \subseteq Item
         /\ \A tc \in TC : WireItemsOf(tc) \subseteq Item /\ \A i \in WireItemsOf(tc) : i.tc = tc
         /\ BusyItems \subseteq Item
         /\ Items \subseteq Item
         /\ now \in Nat /\ arrived \in Nat /\ LastArrival \in Nat
<1> USE DEF TypeOK
<1>1. \A t \in Producers : Hand(t) \subseteq Item /\ \A i \in Hand(t) : i.tc \in TC
  BY ThreadFacts DEF Hand, InHand
<1>2. batch.ready \subseteq Item /\ GateItems \subseteq Item
  BY DEF BatchType, QueueType, GateItems
<1>3. ASSUME NEW tc \in TC
      PROVE  WireItemsOf(tc) \subseteq Item /\ \A i \in WireItemsOf(tc) : i.tc = tc
  <2>1. wire_queues[tc] \in Seq([item : Item, seq : Nat])
    BY DEF WireQueueType
  <2>2. \A k \in DOMAIN wire_queues[tc] : wire_queues[tc][k] \in [item : Item, seq : Nat]
    BY <2>1, ElementOfSeq, LenProperties
  <2> QED
    BY <2>2 DEF WireItemsOf, WireQueueType
<1>4. BusyItems \subseteq Item
  BY DEF WireType, BusyItems
<1>5. now \in Nat /\ arrived \in Nat /\ LastArrival \in Nat
  BY BoundsAssumption DEF PortType, HistoryType
<1>6. "rx" \in Producers /\ "drain" \in Producers
  BY DEF Producers
<1> QED
  BY <1>1, <1>2, <1>3, <1>4, <1>5, <1>6 DEF Stored, Held, Items, WireItems

\* A frame inside has a number dealt already, and only the item in the hand of
\* the rx thread can have the last one while it is there.
LEMMA FramesDealt ==
  ASSUME TypeOK, Kept
  PROVE  /\ \A i \in Items : i.frame <= arrived
         /\ Newest => \A i \in Hand("rx"), j \in Items : j # i => j.frame < i.frame
<1>1. \A i \in Items : i.frame \in 1 .. arrived
  BY ItemsSited, SitedAt DEF Kept, Spread
<1>2. ASSUME Newest, NEW i \in Hand("rx"), NEW j \in Items, j # i
      PROVE  j.frame < i.frame
  <2>1. i \in Items
    BY DEF Items
  <2> QED
    BY <1>1, <1>2, <2>1, ItemsOnce DEF Newest
<1> QED
  BY <1>1, <1>2

LEMMA WaitingInit == Init => Waiting
<1> SUFFICES ASSUME Init PROVE Waiting
  OBVIOUS
<1>1. Hand("rx") = {} /\ Hand("drain") = {}
  BY HandFacts DEF Init, NoThread, Producers
<1>2. Stored = {}
  BY DEF Init, NoBatch, Stored, GateItems
<1> QED
  BY <1>1, <1>2 DEF Waiting, Held, Marked, Aged, InAge, InLine, Newest, Stored


\* A step that stores no item and takes none into the hand of the drain loop.
LEMMA WaitingFewer ==
  ASSUME TypeOK, TypeOK', Waiting, now' >= now \/ now' >= LastArrival,
         Hand("drain")' \subseteq Hand("drain"), batch'.ready \subseteq batch.ready,
         GateItems' \subseteq GateItems
  PROVE  Marked' /\ Aged' /\ InAge' /\ InLine' /\ Stored' \subseteq Stored
<1> USE DEF Waiting
<1>1. Stored' \subseteq Stored
  BY DEF Stored
<1>2. Marked'
  BY <1>1 DEF Marked, Held
<1>3. Aged'
  <2> SUFFICES ASSUME NEW i \in Stored' PROVE i.at <= now' /\ i.at <= LastArrival
    BY DEF Aged
  <2>1. i \in Stored /\ i.at \in Nat
    BY <1>1, ItemTypes DEF Item
  <2>2. now \in Nat /\ LastArrival \in Nat
    BY ItemTypes
  <2>3. now' \in Nat
    BY BoundsAssumption DEF TypeOK, PortType
  <2> QED
    BY <2>1, <2>2, <2>3 DEF Aged
<1>4. InAge'
  BY <1>1 DEF InAge
<1>5. InLine'
  BY <1>1 DEF InLine, Older
<1> QED
  BY <1>1, <1>2, <1>3, <1>4, <1>5
\* What each action does to the items inside.
LEMMA ThreadShape ==
  ASSUME TypeOK
  PROVE  /\ thread \in [Producers -> [pc : RxStates \union DrainStates, item : Item,
                                      offset : Nat, seq : Nat]]
         /\ "rx" \in Producers /\ "drain" \in Producers /\ "rx" # "drain"
         /\ \A t \in Producers :
              thread[t].item \in Item /\ (thread[t].pc # "sent" => thread[t].item.tc \in TC)
  BY DEF TypeOK, ThreadType, Producers

LEMMA SampleEffect ==
  ASSUME TypeOK, NEW tc \in RawTC, EnqueueSample(tc)
  PROVE  \E i \in Item :
           /\ i.frame = arrived + 1 /\ i.tc = Clamp(tc) /\ i.at = now /\ ~i.held
           /\ i.tc \in TC /\ now <= LastArrival
           /\ Hand("rx") = {} /\ Hand("rx")' = {i} /\ Hand("drain")' = Hand("drain")
           /\ arrived' = arrived + 1
           /\ UNCHANGED <<now, queues, wire_queues, batch, wire, out, dropped, updates, config>>
<1> DEFINE i == [frame |-> arrived + 1, tc |-> Clamp(tc), at |-> now, held |-> FALSE]
<1>1. Clamp(tc) \in TC /\ TC \subseteq Nat
  BY ClampType, ClassFacts, BoundsAssumption
<1>2. i \in Item
  <2>1. now \in Nat /\ arrived + 1 \in Nat
    BY BoundsAssumption DEF TypeOK, PortType, HistoryType
  <2>2. Clamp(tc) \in Nat
    BY <1>1
  <2> QED
    BY <2>1, <2>2 DEF Item
<1>3. thread["rx"].pc = "idle" /\ now <= LastArrival /\ arrived' = arrived + 1
  BY DEF EnqueueSample, Arrive
<1>4. /\ thread'["rx"].pc = "gate" /\ thread'["rx"].item = i
      /\ thread'["drain"] = thread["drain"]
  BY ThreadShape DEF EnqueueSample
<1>5. UNCHANGED <<now, queues, wire_queues, batch, wire, out, dropped, updates, config>>
  BY DEF EnqueueSample, wires, port
<1>6. Hand("rx") = {} /\ Hand("rx")' = {i} /\ Hand("drain")' = Hand("drain")
  BY <1>3, <1>4, HandFacts, HandFactsNext DEF Hand, InHand
<1>7. i.frame = arrived + 1 /\ i.tc = Clamp(tc) /\ i.at = now /\ ~i.held
  OBVIOUS
<1> HIDE DEF i
<1> QED
  BY <1>1, <1>2, <1>3, <1>5, <1>6, <1>7

LEMMA JudgeEffect ==
  ASSUME TypeOK, EnqueueJudge
  PROVE  \E i, j \in Item :
           /\ Hand("rx") = {i} /\ Hand("rx")' = {j} /\ Outer(j) = Outer(i)
           /\ thread["rx"].pc = "gate"
           /\ thread'["rx"].pc = "open" \/ (thread'["rx"].pc = "closed" /\ j = i)
           /\ Hand("drain")' = Hand("drain")
           /\ UNCHANGED <<now, queues, wire_queues, batch, wire, out, dropped, arrived, updates, config>>
<1> DEFINE i == thread["rx"].item
           j == thread'["rx"].item
<1>1. thread["rx"].pc = "gate" /\ i \in Item
  BY ThreadShape DEF EnqueueJudge
<1>2. /\ \/ thread'["rx"].pc = "open" /\ j = [i EXCEPT !.at = 0]
         \/ thread'["rx"].pc = "closed" /\ j = i
      /\ thread'["drain"] = thread["drain"]
  BY ThreadShape DEF EnqueueJudge, NoThread
<1>3. j \in Item /\ Outer(j) = Outer(i)
  BY <1>1, <1>2 DEF Item, Outer
<1>4. UNCHANGED <<now, queues, wire_queues, batch, wire, out, dropped, arrived, updates, config>>
  BY DEF EnqueueJudge, wires, port
<1>5. Hand("rx") = {i} /\ Hand("rx")' = {j} /\ Hand("drain")' = Hand("drain")
  BY <1>1, <1>2, HandFacts, HandFactsNext DEF Hand, InHand
<1> HIDE DEF i, j
<1> QED
  BY <1>1, <1>2, <1>3, <1>4, <1>5

LEMMA EnqueueSendEffect ==
  ASSUME TypeOK, EnqueueSend
  PROVE  \E i \in Item :
           /\ Hand("rx") = {i} /\ Hand("rx")' = {} /\ Hand("drain")' = Hand("drain")
           /\ out' = Append(out, Outer(i)) /\ config.port_speed_bps = 0
           /\ thread'["rx"].pc = "sent"
           /\ UNCHANGED <<now, queues, wire_queues, batch, wire, dropped, arrived, updates, config>>
<1>1. thread["rx"].pc = "open" /\ thread["rx"].item \in Item
  BY ThreadShape DEF EnqueueSend
<1>2. thread'["rx"].pc = "sent" /\ thread'["drain"] = thread["drain"]
  BY ThreadShape, CallsShape DEF EnqueueSend, TypeOK
<1>3. /\ out' = Append(out, Outer(thread["rx"].item)) /\ config.port_speed_bps = 0
      /\ UNCHANGED <<now, queues, wire_queues, batch, wire, dropped, arrived, updates, config>>
  BY DEF EnqueueSend, wires, port, Send, Outer
<1>4. Hand("rx") = {thread["rx"].item} /\ Hand("rx")' = {} /\ Hand("drain")' = Hand("drain")
  BY <1>1, <1>2, HandFacts, HandFactsNext DEF Hand, InHand
<1> QED
  BY <1>1, <1>2, <1>3, <1>4

LEMMA HoldEffect ==
  ASSUME TypeOK, EnqueueHold
  PROVE  \E i, j \in Item :
           /\ Hand("rx") = {i} /\ Hand("rx")' = {} /\ Hand("drain")' = Hand("drain")
           /\ thread["rx"].pc = "closed" /\ thread'["rx"].pc = "count"
           /\ j = [i EXCEPT !.held = TRUE] /\ i.tc \in TC
           /\ queues' = [queues EXCEPT ![i.tc] = @ \union {j}]
           /\ UNCHANGED <<now, wire_queues, batch, wire, out, dropped, arrived, updates, config>>
<1> DEFINE i == thread["rx"].item
           j == [i EXCEPT !.held = TRUE]
<1>1. thread["rx"].pc = "closed" /\ i \in Item /\ i.tc \in TC
  BY ThreadShape DEF EnqueueHold
<1>2. thread'["rx"].pc = "count" /\ thread'["drain"] = thread["drain"]
  BY ThreadShape DEF EnqueueHold, Goto
<1>3. j \in Item /\ j.tc = i.tc
  BY <1>1 DEF Item
<1>4. /\ queues' = [queues EXCEPT ![i.tc] = @ \union {j}]
      /\ UNCHANGED <<now, wire_queues, batch, wire, out, dropped, arrived, updates, config>>
  BY <1>3 DEF EnqueueHold, wires, port
<1>5. Hand("rx") = {i} /\ Hand("rx")' = {} /\ Hand("drain")' = Hand("drain")
  BY <1>1, <1>2, HandFacts, HandFactsNext DEF Hand, InHand
<1>6. j = [i EXCEPT !.held = TRUE]
  OBVIOUS
<1> HIDE DEF i, j
<1> QED
  BY <1>1, <1>2, <1>3, <1>4, <1>5, <1>6

LEMMA AppendEffect ==
  ASSUME TypeOK, NEW t \in Producers, WireAppend(t)
  PROVE  \E i \in Item, w \in [item : Item, seq : Nat] :
           /\ w.item = i /\ i.tc \in TC
           /\ Hand(t) = {i} /\ Hand(t)' = {} /\ \A u \in Producers : u # t => Hand(u)' = Hand(u)
           /\ thread[t].pc = "append"
           /\ thread'[t].pc = "bump" /\ \A u \in Producers : u # t => thread'[u] = thread[u]
           /\ wire_queues' = [wire_queues EXCEPT ![i.tc] = Append(@, w)]
           /\ UNCHANGED <<now, queues, batch, wire, out, dropped, arrived, updates, config>>
<1> DEFINE w == [item |-> thread[t].item, seq |-> thread[t].seq]
<1>1. thread[t].item \in Item /\ thread[t].item.tc \in TC /\ w \in [item : Item, seq : Nat]
  BY ThreadShape DEF WireAppend
<1>2. /\ thread[t].pc = "append" /\ thread'[t].pc = "bump"
      /\ \A u \in Producers : u # t => thread'[u] = thread[u]
  BY ThreadShape DEF WireAppend, Goto
<1>3. /\ wire_queues' = [wire_queues EXCEPT ![thread[t].item.tc] = Append(@, w)]
      /\ UNCHANGED <<now, queues, batch, wire, out, dropped, arrived, updates, config>>
  BY DEF WireAppend, port
<1>4. /\ Hand(t) = {thread[t].item} /\ Hand(t)' = {}
      /\ \A u \in Producers : u # t => Hand(u)' = Hand(u)
  BY <1>2, HandFacts, HandFactsNext DEF Hand, InHand
<1>5. w.item = thread[t].item
  OBVIOUS
<1> HIDE DEF w
<1> QED
  BY <1>1, <1>2, <1>3, <1>4, <1>5
LEMMA DrainSendEffect ==
  ASSUME TypeOK, NEW i \in batch.ready, DrainSend(i)
  PROVE  /\ i \in Item /\ batch'.ready = batch.ready \ {i}
         /\ \A j \in batch.ready : Before(i, j)
         /\ thread["drain"].pc = "batch" /\ ~batch.use_wire /\ batch'.use_wire = batch.use_wire
         /\ Hand("drain") = {} /\ Hand("drain")' = {} /\ Hand("rx")' = Hand("rx")
         /\ thread'["rx"] = thread["rx"] /\ out' = Append(out, Outer(i))
         /\ UNCHANGED <<now, queues, wire_queues, wire, dropped, arrived, updates, config>>
<1>1. /\ batch'.ready = batch.ready \ {i} /\ thread["drain"].pc = "batch"
      /\ \A j \in batch.ready : Before(i, j)
      /\ ~batch.use_wire /\ batch'.use_wire = batch.use_wire
  BY DEF DrainSend, TakeReady, TypeOK, BatchType
<1>2. /\ out' = Append(out, Outer(i))
      /\ UNCHANGED <<now, queues, wire_queues, wire, dropped, arrived, updates, config>>
  BY DEF DrainSend, wires, port, Send, Outer
<1>3. thread'["drain"].pc = "sent" /\ thread'["rx"] = thread["rx"]
  BY ThreadShape, CallsShape DEF DrainSend, TypeOK
<1>4. Hand("drain") = {} /\ Hand("drain")' = {} /\ Hand("rx")' = Hand("rx")
  BY <1>1, <1>3, HandFacts, HandFactsNext DEF Hand, InHand
<1> QED
  BY <1>1, <1>2, <1>3, <1>4, ItemTypes

LEMMA DrainLoadEffect ==
  ASSUME TypeOK, NEW i \in batch.ready, DrainLoadSeq(i)
  PROVE  \E j \in Item :
           /\ i \in Item /\ i.tc \in TC /\ j = [i EXCEPT !.at = 0] /\ Outer(j) = Outer(i)
           /\ batch'.ready = batch.ready \ {i} /\ \A k \in batch.ready : Before(i, k)
           /\ batch.use_wire /\ batch'.use_wire = batch.use_wire /\ thread["drain"].pc = "batch"
           /\ Hand("drain") = {} /\ Hand("drain")' = {j} /\ Hand("rx")' = Hand("rx")
           /\ thread'["rx"] = thread["rx"]
           /\ UNCHANGED <<now, queues, wire_queues, wire, out, dropped, arrived, updates, config>>
<1> DEFINE j == [i EXCEPT !.at = 0]
<1>1. i \in Item /\ i.tc \in TC
  BY DEF TypeOK, BatchType
<1>2. j \in Item /\ Outer(j) = Outer(i)
  BY <1>1 DEF Item, Outer
<1>3. /\ batch'.ready = batch.ready \ {i} /\ \A k \in batch.ready : Before(i, k)
      /\ batch.use_wire /\ batch'.use_wire = batch.use_wire /\ thread["drain"].pc = "batch"
  BY DEF DrainLoadSeq, TakeReady, TypeOK, BatchType
<1>4. /\ thread'["drain"].pc = "append" /\ thread'["drain"].item = j
      /\ thread'["rx"] = thread["rx"]
      /\ UNCHANGED <<now, queues, wire_queues, wire, out, dropped, arrived, updates, config>>
  BY ThreadShape DEF DrainLoadSeq, wires, port
<1>5. Hand("drain") = {} /\ Hand("drain")' = {j} /\ Hand("rx")' = Hand("rx")
  BY <1>3, <1>4, HandFacts, HandFactsNext DEF Hand, InHand
<1>6. j = [i EXCEPT !.at = 0]
  OBVIOUS
<1> HIDE DEF j
<1> QED
  BY <1>1, <1>2, <1>3, <1>4, <1>5, <1>6

\* The scan takes whole queues only: what it leaves of a class that it opens
\* is nothing.
Dead == UNION {Expired(tc) : tc \in TC}

LEMMA ScanEffect ==
  ASSUME TypeOK, DrainScan
  PROVE  /\ Hand("drain") = {} /\ Hand("drain")' = {} /\ thread'["rx"] = thread["rx"]
         /\ thread["drain"].pc = "scan" /\ batch'.use_wire = batch.use_wire
         /\ Dead \subseteq GateItems /\ dropped' = dropped \union {[frame |-> i.frame, tc |-> i.tc] : i \in Dead}
         /\ batch'.ready \subseteq GateItems /\ GateItems' \subseteq GateItems
         /\ batch'.ready \union GateItems' = GateItems \ Dead
         /\ \A i \in batch'.ready, j \in GateItems' : i.tc # j.tc
         /\ UNCHANGED <<now, wire_queues, wire, out, arrived, updates, config>>
<1> USE DEF TypeOK
<1>1. /\ thread["drain"].pc = "scan" /\ thread'["drain"].pc = "batch"
      /\ thread'["rx"] = thread["rx"]
  BY ThreadShape DEF DrainScan, Goto
<1>2. Hand("drain") = {} /\ Hand("drain")' = {}
  BY <1>1, HandFacts, HandFactsNext
<1>3. /\ batch'.ready = UNION {Released(tc) : tc \in TC} /\ batch'.use_wire = batch.use_wire
      /\ dropped' = dropped \union {[frame |-> i.frame, tc |-> i.tc] : i \in Dead}
      /\ UNCHANGED <<now, wire_queues, wire, out, arrived, updates, config>>
  BY DEF DrainScan, NoBatch, wires, port, Dead
<1>4. \A tc \in TC : queues'[tc] = queues[tc] \ (Expired(tc) \union Released(tc))
  BY DEF DrainScan
<1>5. \A tc \in TC : /\ Expired(tc) \subseteq queues[tc] /\ Released(tc) \subseteq queues[tc]
                     /\ Released(tc) \in {{}, queues[tc] \ Expired(tc)}
                     /\ Released(tc) \intersect Expired(tc) = {}
                     /\ \A i \in queues[tc] : i.tc = tc
  BY DEF Expired, Released, QueueType
<1>6. GateItems' = UNION {queues'[tc] : tc \in TC}
  BY DEF GateItems
<1>7. Dead \subseteq GateItems /\ batch'.ready \subseteq GateItems /\ GateItems' \subseteq GateItems
  BY <1>3, <1>4, <1>5, <1>6 DEF Dead, GateItems
<1>8. ASSUME NEW i
      PROVE  i \in batch'.ready \union GateItems' <=> i \in GateItems \ Dead
  <2>1. ASSUME NEW tc \in TC, i \in queues[tc]
        PROVE  /\ i \in Dead <=> i \in Expired(tc)
               /\ i \in batch'.ready <=> i \in Released(tc)
               /\ i \in GateItems' <=> i \in queues'[tc]
               /\ i \in GateItems
    BY <1>3, <1>4, <1>5, <1>6, <2>1 DEF Dead, GateItems
  <2>2. CASE \E tc \in TC : i \in queues[tc]
    <3>1. PICK tc \in TC : i \in queues[tc]
      BY <2>2
    <3> QED
      BY <1>4, <1>5, <2>1, <3>1
  <2>3. CASE ~\E tc \in TC : i \in queues[tc]
    BY <1>7, <2>3 DEF GateItems
  <2> QED
    BY <2>2, <2>3
<1>9. ASSUME NEW i \in batch'.ready, NEW j \in GateItems', i.tc = j.tc
      PROVE  FALSE
  <2>1. PICK tc \in TC : i \in Released(tc)
    BY <1>3
  <2>2. PICK d \in TC : j \in queues'[d]
    BY <1>6
  <2>3. tc = d
    BY <1>4, <1>5, <1>9, <2>1, <2>2
  <2>4. queues'[tc] = {}
    BY <1>4, <1>5, <2>1
  <2> QED
    BY <2>2, <2>3, <2>4
<1> QED
  BY <1>1, <1>2, <1>3, <1>7, <1>8, <1>9

LEMMA TakeEffect ==
  ASSUME TypeOK, WireTake
  PROVE  LET q == wire.best
             s == wire_queues[q]
         IN  /\ q \in TC /\ s # << >> /\ s \in Seq([item : Item, seq : Nat])
             /\ BusyItems = {} /\ BusyItems' = {Head(s).item}
             /\ wire_queues' = [wire_queues EXCEPT ![q] = Tail(s)]
             /\ UNCHANGED <<now, queues, thread, batch, out, dropped, arrived, updates, config>>
<1>1. wire.best \in TC /\ wire_queues[wire.best] # << >>
  BY DEF WireTake, TypeOK, WireType
<1>2. wire_queues[wire.best] \in Seq([item : Item, seq : Nat])
  BY <1>1 DEF TypeOK, WireQueueType
<1>3. wire.pc = "look" /\ wire'.pc = "busy" /\ wire'.item = Head(wire_queues[wire.best]).item
  <2>1. NoWire \in [pc : {"idle"}, tc : {0}, now : {0}, offset : {0}, best : {-1},
                    item : {NoItem}, left : {0}]
    BY DEF NoWire
  <2> QED
    BY <2>1 DEF WireTake
<1>4. BusyItems = {} /\ BusyItems' = {Head(wire_queues[wire.best]).item}
  BY <1>3 DEF BusyItems
<1>5. /\ wire_queues' = [wire_queues EXCEPT ![wire.best] = Tail(wire_queues[wire.best])]
      /\ UNCHANGED <<now, queues, thread, batch, out, dropped, arrived, updates, config>>
  BY DEF WireTake, port
<1> QED
  BY <1>1, <1>2, <1>4, <1>5

LEMMA WireSendEffect ==
  ASSUME TypeOK, WireSend
  PROVE  /\ wire.item \in Item /\ BusyItems = {wire.item} /\ BusyItems' = {}
         /\ out' = Append(out, Outer(wire.item))
         /\ UNCHANGED <<now, queues, wire_queues, thread, batch, dropped, arrived, updates, config>>
<1>1. wire.pc = "busy" /\ wire'.pc = "idle" /\ wire.item \in Item
  BY DEF WireSend, NoWire, TypeOK, WireType
<1>2. BusyItems = {wire.item} /\ BusyItems' = {}
  BY <1>1 DEF BusyItems
<1>3. /\ out' = Append(out, Outer(wire.item))
      /\ UNCHANGED <<now, queues, wire_queues, thread, batch, dropped, arrived, updates, config>>
  BY DEF WireSend, Send, Outer, wires, port
<1> QED
  BY <1>1, <1>2, <1>3
\* Every other step leaves the items where they are.
Still ==
  \/ EnqueueCount \/ EnqueueLoadSeq
  \/ (\E t \in Producers : BumpLoad(t) \/ BumpStore(t) \/ Counted(t))
  \/ DrainSample \/ DrainDone
  \/ WireSample \/ WireSkip \/ WireOffset \/ WireJudge \/ WireNothing
  \/ (\E c \in Configs : UpdateConfig(c)) \/ Stop \/ Tick \/ UNCHANGED vars

\* After Tick the clock is past the last arrival, or ahead.
LEMMA Onward ==
  ASSUME TypeOK, Tick
  PROVE  now' >= now \/ now' >= LastArrival
<1>1. now \in Nat /\ MaxTime \in Nat /\ LoopTo \in Nat /\ LastArrival \in Nat /\ LoopTo >= LastArrival
  BY BoundsAssumption DEF TypeOK, PortType
<1>2. now' = IF now = MaxTime THEN LoopTo ELSE now + 1
  BY DEF Tick
<1> QED
  BY <1>1, <1>2

LEMMA StillEffect ==
  ASSUME TypeOK, Kept, Still
  PROVE  /\ Hand("rx")' = Hand("rx") /\ Hand("drain")' = Hand("drain")
         /\ batch'.ready = batch.ready /\ BusyItems' = BusyItems
         /\ now' >= now \/ now' >= LastArrival
         /\ thread'["rx"].pc \in {"gate", "closed"} => thread'["rx"].pc = thread["rx"].pc
         /\ thread'["rx"].pc = "append" =>
              thread["rx"].pc = "append" \/ config.port_speed_bps > 0
         /\ UNCHANGED <<queues, wire_queues, out, dropped, arrived>>
<1>1. UNCHANGED <<queues, wire_queues, out, dropped, arrived>>
  BY DEF Still, EnqueueCount, EnqueueLoadSeq, BumpLoad, BumpStore,
         DrainSample, DrainDone, WireSample, WireSkip, WireOffset, WireJudge, WireNothing,
         UpdateConfig, Stop, Tick, vars, wires, Counted
<1>2. now' >= now \/ now' >= LastArrival
  <2>1. CASE Tick
    BY <2>1, Onward
  <2>2. CASE now' = now
    BY <2>2, ItemTypes
  <2> QED
    BY <2>1, <2>2 DEF Still, EnqueueCount, EnqueueLoadSeq, BumpLoad, BumpStore,
         DrainSample, DrainDone, WireSample, WireSkip, WireOffset, WireJudge, WireNothing,
         UpdateConfig, Stop, vars, Counted
<1>3. /\ batch'.ready = batch.ready
      /\ Hand("rx")' = Hand("rx") /\ Hand("drain")' = Hand("drain")
      /\ thread'["rx"].pc \in {"gate", "closed"} => thread'["rx"].pc = thread["rx"].pc
      /\ thread'["rx"].pc = "append" =>
           thread["rx"].pc = "append" \/ config.port_speed_bps > 0
  <2>1. CASE DrainSample \/ DrainDone
    <3>1. /\ thread'["rx"] = thread["rx"] /\ thread["drain"].pc \in {"idle", "batch"}
          /\ thread'["drain"].pc \in {"scan", "idle"} /\ batch.ready = {} /\ batch'.ready = {}
      BY <2>1, ThreadShape DEF DrainSample, DrainDone, Goto, NoThread, NoBatch, BatchIdle, Kept
    <3> QED
      BY <3>1, HandFacts, HandFactsNext DEF Hand, InHand
  <2>2. CASE UNCHANGED <<thread, batch>>
    BY <2>2 DEF Hand, InHand
  <2>3. CASE EnqueueCount
    <3>1. /\ thread["rx"].pc = "count" /\ thread'["rx"].pc = "idle"
          /\ thread'["drain"] = thread["drain"] /\ batch' = batch
      BY <2>3, ThreadShape DEF EnqueueCount, Goto, NoThread
    <3> QED
      BY <3>1, HandFacts, HandFactsNext DEF Hand, InHand
  <2>4. CASE EnqueueLoadSeq
    <3>1. /\ thread["rx"].pc = "open" /\ thread'["rx"].pc = "append"
          /\ thread'["rx"].item = thread["rx"].item /\ config.port_speed_bps > 0
          /\ thread'["drain"] = thread["drain"] /\ batch' = batch
      BY <2>4, ThreadShape DEF EnqueueLoadSeq
    <3> QED
      BY <3>1, HandFacts, HandFactsNext DEF Hand, InHand
  <2>5. ASSUME NEW t \in Producers, BumpLoad(t) \/ BumpStore(t) \/ Counted(t)
        PROVE  /\ batch'.ready = batch.ready
               /\ Hand("rx")' = Hand("rx") /\ Hand("drain")' = Hand("drain")
               /\ thread'["rx"].pc \in {"gate", "closed"} => thread'["rx"].pc = thread["rx"].pc
               /\ thread'["rx"].pc = "append" =>
                    thread["rx"].pc = "append" \/ config.port_speed_bps > 0
    <3>1. /\ thread[t].pc \in {"bump", "store", "sent"} /\ thread'[t].pc \in {"store", "idle", "batch"}
          /\ \A u \in Producers : u # t => thread'[u] = thread[u]
          /\ batch' = batch
      BY <2>5, ThreadShape, ZenonT(30) DEF BumpLoad, BumpStore, NoThread, Counts, Counted
    <3>2. Hand(t) = {} /\ Hand(t)' = {}
      BY <3>1, HandFacts, HandFactsNext
    <3>3. \A u \in Producers : u # t => Hand(u)' = Hand(u)
      BY <3>1 DEF Hand, InHand
    <3>4. t = "rx" \/ t = "drain"
      BY DEF Producers
    <3> QED
      BY <3>1, <3>2, <3>3, <3>4, ThreadShape
  <2> QED
    BY <2>1, <2>2, <2>3, <2>4, <2>5
    DEF Still, WireSample, WireSkip, WireOffset, WireJudge, WireNothing,
        UpdateConfig, Stop, Tick, vars, locals
<1>4. \/ wire'.pc # "busy" /\ wire.pc # "busy"
      \/ wire'.pc = wire.pc /\ wire'.item = wire.item
  <2>1. CASE WireSample \/ WireNothing
    <3>1. wire.pc \in {"look", "idle"} /\ wire' \in {NoWire, [NoWire EXCEPT !.pc = "look", !.now = now]}
      BY <2>1 DEF WireSample, WireNothing
    <3>2. NoWire \in [pc : {"idle"}, tc : {0}, now : {0}, offset : {0}, best : {-1},
                     item : {NoItem}, left : {0}]
      BY DEF NoWire
    <3>3. wire'.pc \in {"look", "idle"}
      BY <3>1, <3>2
    <3> QED
      BY <3>1, <3>3
  <2>2. CASE WireSkip \/ WireOffset \/ WireJudge
    <3>1. wire.pc \in {"look", "gate"} /\ wire'.pc \in {"look", "gate"}
      BY <2>2 DEF WireSkip, WireOffset, WireJudge, TypeOK, WireType
    <3> QED
      BY <3>1
  <2>3. CASE Tick
    BY <2>3 DEF Tick, TypeOK, WireType
  <2>4. CASE UNCHANGED wire
    BY <2>4
  <2> QED
    BY <2>1, <2>2, <2>3, <2>4
    DEF Still, EnqueueCount, EnqueueLoadSeq, BumpLoad, BumpStore, DrainSample, DrainDone,
        UpdateConfig, Stop, vars, locals, Counted
<1>5. BusyItems' = BusyItems
  BY <1>4 DEF BusyItems
<1> QED
  BY <1>1, <1>2, <1>3, <1>5

\* With shaping disabled a frame passes by.
LEMMA BypassEffect ==
  ASSUME TypeOK, NEW tc \in RawTC, EnqueueBypass(tc)
  PROVE  /\ Hand("rx") = {} /\ Hand("rx")' = {} /\ Hand("drain")' = Hand("drain")
         /\ thread'["rx"].pc = "sent" /\ arrived' = arrived + 1
         /\ out' = Append(out, [frame |-> arrived + 1, tc |-> tc, held |-> FALSE])
         /\ UNCHANGED <<now, queues, wire_queues, batch, wire, dropped, updates, config>>
<1>1. thread["rx"].pc = "idle" /\ arrived' = arrived + 1
  BY DEF EnqueueBypass, Arrive
<1>2. /\ out' = Append(out, [frame |-> arrived + 1, tc |-> tc, held |-> FALSE])
      /\ UNCHANGED <<now, queues, wire_queues, batch, wire, dropped, updates, config>>
  BY DEF EnqueueBypass, Send, NoItem, wires, port
<1>3. thread'["rx"].pc = "sent" /\ thread'["drain"] = thread["drain"]
  BY ThreadShape, CallsShape DEF EnqueueBypass, TypeOK
<1>4. Hand("rx") = {} /\ Hand("rx")' = {} /\ Hand("drain")' = Hand("drain")
  BY <1>1, <1>3, HandFacts, HandFactsNext DEF Hand, InHand
<1> QED
  BY <1>1, <1>2, <1>3, <1>4

\* These are all the steps.
LEMMA Steps ==
  ASSUME [Next]_vars
  PROVE  \/ \E tc \in RawTC : EnqueueBypass(tc) \/ EnqueueSample(tc)
         \/ EnqueueJudge \/ EnqueueSend \/ EnqueueHold
         \/ \E t \in Producers : WireAppend(t)
         \/ DrainScan \/ \E i \in batch.ready : DrainSend(i) \/ DrainLoadSeq(i)
         \/ WireTake \/ WireSend \/ Still
  BY DEF Next, Arrival, EnqueueRest, DrainLoop, WireLoop, Still, Producers
LEMMA WaitingEnqueue ==
  ASSUME TypeOK, TypeOK', Kept, Waiting,
         \/ \E tc \in RawTC : EnqueueBypass(tc) \/ EnqueueSample(tc)
         \/ EnqueueJudge \/ EnqueueSend
  PROVE  Waiting'
<1> USE DEF Waiting
<1>s. ASSUME Hand("drain")' = Hand("drain"), UNCHANGED <<now, batch, queues>>
      PROVE  Marked' /\ Aged' /\ InAge' /\ InLine' /\ Stored' = Stored
  <2>1. GateItems' = GateItems /\ now \in Nat
    BY <1>s, ItemTypes DEF GateItems
  <2>2. Stored' = Stored
    BY <1>s, <2>1 DEF Stored
  <2>3. Marked' /\ Aged' /\ InAge' /\ InLine'
    BY <1>s, <2>1, WaitingFewer
  <2> QED
    BY <2>2, <2>3
<1>1. ASSUME NEW tc \in RawTC, EnqueueBypass(tc)
      PROVE  Waiting'
  <2>1. Hand("rx")' = {} /\ Hand("drain")' = Hand("drain") /\ UNCHANGED <<now, batch, queues>>
    BY <1>1, BypassEffect
  <2> QED
    BY <2>1, <1>s DEF Newest
<1>2. ASSUME NEW tc \in RawTC, EnqueueSample(tc)
      PROVE  Waiting'
  <2>1. PICK i \in Item :
          /\ i.frame = arrived + 1 /\ i.at = now /\ ~i.held /\ now <= LastArrival
          /\ Hand("rx")' = {i} /\ Hand("drain")' = Hand("drain")
          /\ arrived' = arrived + 1 /\ UNCHANGED <<now, batch, queues>>
    BY <1>2, SampleEffect
  <2>2. now <= now
    BY ItemTypes
  <2>3. Newest'
    BY <2>1, <2>2, <1>s DEF Newest, Aged
  <2> QED
    BY <2>1, <2>3, <1>s
<1>3. CASE EnqueueJudge
  <2>1. PICK i, j \in Item :
          /\ Hand("rx") = {i} /\ Hand("rx")' = {j} /\ Outer(j) = Outer(i)
          /\ thread["rx"].pc = "gate"
          /\ thread'["rx"].pc = "open" \/ (thread'["rx"].pc = "closed" /\ j = i)
          /\ Hand("drain")' = Hand("drain") /\ UNCHANGED <<now, batch, queues, arrived>>
    BY <1>3, JudgeEffect
  <2>2. j.frame = i.frame /\ j.held = i.held
    BY <2>1 DEF Outer
  <2>3. Newest'
    BY <2>1, <2>2, <1>s DEF Newest
  <2> QED
    BY <2>1, <2>3, <1>s
<1>4. CASE EnqueueSend
  <2>1. Hand("rx")' = {} /\ Hand("drain")' = Hand("drain") /\ UNCHANGED <<now, batch, queues>>
    BY <1>4, EnqueueSendEffect
  <2> QED
    BY <2>1, <1>s DEF Newest
<1> QED
  BY <1>1, <1>2, <1>3, <1>4

\* The newest frame joins its gate queue.
LEMMA WaitingHold ==
  ASSUME TypeOK, TypeOK', Kept, Waiting, EnqueueHold
  PROVE  Waiting'
<1> USE DEF Waiting
<1>1. PICK i, j \in Item :
        /\ Hand("rx") = {i} /\ Hand("rx")' = {} /\ Hand("drain")' = Hand("drain")
        /\ thread["rx"].pc = "closed"
        /\ j = [i EXCEPT !.held = TRUE] /\ i.tc \in TC
        /\ queues' = [queues EXCEPT ![i.tc] = @ \union {j}]
        /\ UNCHANGED <<now, batch>>
  BY HoldEffect
<1>2. j.frame = i.frame /\ j.tc = i.tc /\ j.at = i.at /\ j.held
  BY <1>1 DEF Item
<1>3. GateItems' = GateItems \union {j}
  <2>1. \A tc \in TC : queues'[tc] = IF tc = i.tc THEN queues[tc] \union {j} ELSE queues[tc]
    BY <1>1 DEF TypeOK, QueueType
  <2> QED
    BY <1>1, <2>1 DEF GateItems
<1>4. Stored' = Stored \union {j} /\ Held' = Held \union {j} /\ batch'.ready = batch.ready
  BY <1>1, <1>3 DEF Stored, Held
<1>5. \A k \in Hand("drain") \union Stored : k.frame < i.frame
  <2>1. ASSUME NEW k \in Hand("drain") \union Stored
        PROVE  k.frame < i.frame
    <3>1. k \in Items /\ k # i
      BY <1>1, Apart DEF Items, Stored
    <3> QED
      BY <1>1, <3>1, FramesDealt
  <2> QED
    BY <2>1
<1>6. i.at <= now /\ i.at <= LastArrival /\ \A k \in Stored : k.at <= i.at
  BY <1>1 DEF Newest
<1>7. Marked' /\ Aged'
  BY <1>1, <1>2, <1>4, <1>6 DEF Marked, Aged
<1>8. InAge'
  <2> SUFFICES ASSUME NEW k \in Stored', NEW l \in Stored', k.tc = l.tc, k.frame < l.frame
               PROVE  k.at <= l.at
    BY DEF InAge
  <2>1. k \in Stored \union {j} /\ l \in Stored \union {j}
    BY <1>4
  <2>2. Stored \subseteq Item
    BY ItemTypes
  <2>3. k # j
    <3>1. \A m \in Stored \union {j} : ~(j.frame < m.frame)
      BY <1>2, <1>5, <2>2 DEF Item
    <3> QED
      BY <2>1, <3>1
  <2> QED
    BY <1>2, <1>6, <2>1, <2>3 DEF InAge
<1>9. InLine'
  BY <1>1, <1>2, <1>3, <1>4, <1>5 DEF InLine, Older, Stored
<1>10. Newest'
  BY <1>1 DEF Newest
<1> QED
  BY <1>7, <1>8, <1>9, <1>10

\* The item at the head of the batch is older than the rest and those stored.
LEMMA HeadOldest ==
  ASSUME TypeOK, Kept, Waiting, NEW i \in batch.ready, \A j \in batch.ready : Before(i, j)
  PROVE  \A j \in Stored : j # i => Older(i, j)
<1> SUFFICES ASSUME NEW j \in Stored, j # i, i.tc = j.tc PROVE i.frame < j.frame
  BY DEF Older
<1>1. CASE j \in batch.ready
  <2>1. Before(i, j) /\ i \in Item /\ j \in Item
    BY <1>1, ItemTypes
  <2>2. i.frame # j.frame
    BY <1>1 DEF Kept, ReadyOnce, NoTwins
  <2>3. ~(j.frame < i.frame /\ i.at < j.at)
    BY <1>1, <2>1 DEF Waiting, InAge, Stored, Item
  <2> QED
    BY <2>1, <2>2, <2>3 DEF Before, Item
<1>2. CASE j \in GateItems
  BY <1>2 DEF Waiting, InLine, Older
<1> QED
  BY <1>1, <1>2 DEF Stored

LEMMA WaitingDrain ==
  ASSUME TypeOK, TypeOK', Kept, Waiting,
         \/ DrainScan \/ \E i \in batch.ready : DrainSend(i) \/ DrainLoadSeq(i)
  PROVE  Waiting'
<1> USE DEF Waiting
<1>0. now \in Nat
  BY ItemTypes
<1>n. ASSUME Stored' \subseteq Stored, thread'["rx"] = thread["rx"], UNCHANGED <<now, arrived>>
      PROVE  Newest'
  BY <1>n DEF Newest, Hand, InHand
<1>1. CASE DrainScan
  <2>1. /\ Hand("drain")' = {} /\ thread'["rx"] = thread["rx"] /\ UNCHANGED <<now, arrived>>
        /\ Stored' \subseteq Stored
    BY <1>1, ScanEffect DEF Stored
  <2>2. \A i \in batch'.ready, j \in GateItems' : Older(i, j)
    BY <1>1, ScanEffect DEF Older
  <2> HIDE <1>1
  <2>3. Marked' /\ Aged' /\ InAge' /\ InLine'
    BY <2>1, <2>2, <1>0 DEF Marked, Aged, InAge, InLine, Held
  <2> QED
    BY <2>1, <2>3, <1>n
<1>2. ASSUME NEW i \in batch.ready, DrainSend(i)
      PROVE  Waiting'
  <2>1. /\ Hand("drain")' = Hand("drain") /\ thread'["rx"] = thread["rx"]
        /\ batch'.ready = batch.ready \ {i} /\ UNCHANGED <<now, queues, arrived>>
    BY <1>2, DrainSendEffect DEF Hand, InHand
  <2>2. GateItems' = GateItems
    BY <2>1 DEF GateItems
  <2>3. Marked' /\ Aged' /\ InAge' /\ InLine' /\ Stored' \subseteq Stored
    BY <1>0, <2>1, <2>2, WaitingFewer
  <2> QED
    BY <2>1, <2>3, <1>n
<1>3. ASSUME NEW i \in batch.ready, DrainLoadSeq(i)
      PROVE  Waiting'
  <2>1. PICK j \in Item :
          /\ Outer(j) = Outer(i) /\ Hand("drain") = {} /\ Hand("drain")' = {j}
          /\ thread'["rx"] = thread["rx"] /\ \A k \in batch.ready : Before(i, k)
          /\ batch'.ready = batch.ready \ {i} /\ UNCHANGED <<now, queues, arrived>>
    BY <1>3, DrainLoadEffect
  <2>2. j.tc = i.tc /\ j.frame = i.frame /\ j.held = i.held
    BY <2>1 DEF Outer
  <2>3. GateItems' = GateItems /\ i \notin GateItems
    BY <2>1, Apart DEF GateItems
  <2>4. Stored' = Stored \ {i}
    BY <2>1, <2>3 DEF Stored
  <2>5. Marked' /\ Aged' /\ InAge'
    BY <1>0, <2>1, <2>2, <2>4 DEF Marked, Aged, InAge, Held, Stored
  <2>6. \A k \in Stored' : Older(j, k)
    BY <2>1, <2>2, <2>4, HeadOldest DEF Older
  <2>7. InLine'
    BY <2>1, <2>3, <2>6 DEF InLine
  <2> QED
    BY <2>1, <2>4, <2>5, <2>7, <1>n
<1> QED
  BY <1>1, <1>2, <1>3

LEMMA WaitingOther ==
  ASSUME TypeOK, TypeOK', Kept, Waiting,
         \/ \E t \in Producers : WireAppend(t)
         \/ WireTake \/ WireSend \/ Still
  PROVE  Waiting'
<1> USE DEF Waiting
<1>1. CASE Still
  <2>1. GateItems' = GateItems
    BY <1>1, StillEffect DEF GateItems
  <2>2. Marked' /\ Aged' /\ InAge' /\ InLine' /\ Stored' = Stored
    BY <1>1, <2>1, StillEffect, WaitingFewer DEF Stored
  <2>3. \A i \in Stored \union Hand("rx") : i \in Item
    BY ItemTypes, ThreadShape
  <2>4. now' \in Nat /\ now \in Nat /\ LastArrival \in Nat
    BY ItemTypes, BoundsAssumption DEF TypeOK, PortType
  <2>5. Newest'
    <3> SUFFICES ASSUME NEW i \in Hand("rx"),
                        thread'["rx"].pc \in {"gate", "closed"}
                 PROVE  i.at <= now' /\ i.at <= LastArrival
      BY <1>1, <2>2, StillEffect DEF Newest
    <3>1. i.at <= now /\ i.at <= LastArrival /\ i.at \in Nat
      BY <1>1, <2>3, StillEffect DEF Newest, Item
    <3> QED
      BY <1>1, <2>4, <3>1, StillEffect
  <2> QED
    BY <2>2, <2>5
<1>2. ASSUME NEW t \in Producers, WireAppend(t)
      PROVE  Waiting'
  <2>1. /\ Hand(t)' = {} /\ \A u \in Producers : u # t => Hand(u)' = Hand(u)
        /\ \A u \in Producers : u # t => thread'[u] = thread[u]
        /\ UNCHANGED <<now, queues, batch, arrived>>
    BY <1>2, AppendEffect
  <2>2. now \in Nat /\ GateItems' = GateItems /\ Stored' = Stored
    BY <2>1, ItemTypes DEF GateItems, Stored
  <2>3. Hand("drain")' \subseteq Hand("drain")
    BY <2>1, ThreadShape
  <2>4. Marked' /\ Aged' /\ InAge' /\ InLine'
    BY <2>1, <2>2, <2>3, WaitingFewer
  <2>5. Newest'
    <3>1. Hand("rx")' = {} \/ (Hand("rx")' = Hand("rx") /\ thread'["rx"] = thread["rx"])
      BY <2>1, ThreadShape
    <3> QED
      BY <2>1, <2>2, <3>1 DEF Newest
  <2> QED
    BY <2>4, <2>5
<1>3. CASE WireTake \/ WireSend
  <2>1. UNCHANGED <<now, queues, batch, thread, arrived>>
    BY <1>3, TakeEffect, WireSendEffect
  <2>2. /\ now \in Nat /\ GateItems' = GateItems /\ Stored' = Stored
        /\ Hand("rx")' = Hand("rx") /\ Hand("drain")' = Hand("drain")
    BY <2>1, ItemTypes DEF GateItems, Stored, Hand, InHand
  <2>3. Marked' /\ Aged' /\ InAge' /\ InLine'
    BY <2>1, <2>2, WaitingFewer
  <2>4. Newest'
    BY <2>1, <2>2 DEF Newest
  <2> QED
    BY <2>3, <2>4
<1> QED
  BY <1>1, <1>2, <1>3

LEMMA WaitingStep ==
  ASSUME TypeOK, TypeOK', Kept, Waiting, [Next]_vars
  PROVE  Waiting'
  BY Steps, WaitingEnqueue, WaitingHold, WaitingDrain, WaitingOther

\* However enqueue and the drain loop interleave, held frames of a class are taken
\* up by age and by order of arrival alike: from the gate queue into the batch, and
\* from the batch into the hand of the drain loop.
THEOREM AllWaiting == Spec => []Waiting
<1>1. TypeOK /\ TypeOK' /\ Kept /\ Waiting /\ [Next]_vars => Waiting'
  BY WaitingStep
<1> QED
  BY <1>1, WaitingInit, TypeCorrect, AllKept, PTL DEF Spec

-----------------------------------------------------------------------------
(***************************************************************************)
(* Frames for the wire.  One that found its gate open may pass those that  *)
(* are held, otherwise the older frame leads.                              *)
(***************************************************************************)
Leads(a, b) == a.tc = b.tc => a.frame < b.frame \/ (~a.held /\ b.held)

QueueLed ==
  \A tc \in TC : \A j, k \in DOMAIN wire_queues[tc] :
    j < k => Leads(wire_queues[tc][j].item, wire_queues[tc][k].item)
WireLeads == \A w \in WireItems \union BusyItems, i \in Held : Leads(w, i)
BusyLeads == \A w \in BusyItems, i \in WireItems : Leads(w, i)

Led == QueueLed /\ WireLeads /\ BusyLeads

LEMMA LedInit == Init => Led
  BY DEF Init, Led, QueueLed, WireLeads, BusyLeads, WireItems, WireItemsOf, BusyItems, NoWire

\* A step that puts nothing on a wire queue and holds no other frame.
LEMMA LedFewer ==
  ASSUME Led, UNCHANGED wire_queues, BusyItems' \subseteq BusyItems,
         \A i \in Held' : \E j \in Held : Outer(j) = Outer(i)
  PROVE  Led'
<1> USE DEF Led
<1>1. WireItems' = WireItems
  BY DEF WireItems, WireItemsOf
<1>2. QueueLed' /\ BusyLeads'
  BY <1>1 DEF QueueLed, BusyLeads
<1>3. WireLeads'
  <2> SUFFICES ASSUME NEW w \in WireItems' \union BusyItems', NEW i \in Held'
               PROVE  Leads(w, i)
    BY DEF WireLeads
  <2>1. PICK j \in Held : Outer(j) = Outer(i)
    OBVIOUS
  <2>2. j.tc = i.tc /\ j.frame = i.frame /\ j.held = i.held
    BY <2>1 DEF Outer
  <2>3. Leads(w, j)
    BY <1>1 DEF WireLeads
  <2> QED
    BY <2>2, <2>3 DEF Leads
<1> QED
  BY <1>2, <1>3

LEMMA LedHold ==
  ASSUME TypeOK, Kept, Waiting, Led, EnqueueHold
  PROVE  Led'
<1> USE DEF Led
<1>1. PICK i, j \in Item :
        /\ Hand("rx") = {i} /\ Hand("drain")' = Hand("drain")
        /\ j = [i EXCEPT !.held = TRUE] /\ i.tc \in TC
        /\ queues' = [queues EXCEPT ![i.tc] = @ \union {j}]
        /\ UNCHANGED <<wire_queues, batch, wire>>
  BY HoldEffect
<1>2. WireItems' = WireItems /\ BusyItems' = BusyItems
  BY <1>1 DEF WireItems, WireItemsOf, BusyItems
<1>3. Held' \subseteq Held \union {j}
  <2>1. \A tc \in TC : queues'[tc] \subseteq queues[tc] \union {j}
    BY <1>1 DEF TypeOK, QueueType
  <2> QED
    BY <1>1, <2>1 DEF Held, Stored, GateItems
<1>4. \A w \in WireItems \union BusyItems : Leads(w, j)
  <2> SUFFICES ASSUME NEW w \in WireItems \union BusyItems PROVE w.frame < j.frame
    BY DEF Leads
  <2>1. w \in Items /\ w # i
    BY <1>1, Apart DEF Items
  <2> QED
    BY <1>1, <2>1, FramesDealt DEF Waiting, Item
<1>5. QueueLed' /\ BusyLeads'
  BY <1>1, <1>2 DEF QueueLed, BusyLeads
<1>6. WireLeads'
  BY <1>2, <1>3, <1>4 DEF WireLeads
<1> QED
  BY <1>5, <1>6

\* A frame goes to the end of a wire queue.
LEMMA LedAppend ==
  ASSUME TypeOK, Kept, Waiting, Led, NEW t \in Producers, WireAppend(t)
  PROVE  Led'
<1> USE DEF Led
<1>1. PICK i \in Item, w \in [item : Item, seq : Nat] :
        /\ w.item = i /\ i.tc \in TC
        /\ Hand(t) = {i} /\ Hand(t)' = {} /\ \A u \in Producers : u # t => Hand(u)' = Hand(u)
        /\ wire_queues' = [wire_queues EXCEPT ![i.tc] = Append(@, w)]
        /\ UNCHANGED <<queues, batch, wire>>
  BY AppendEffect
<1> DEFINE q == i.tc
           s == wire_queues[q]
<1>2. /\ s \in Seq([item : Item, seq : Nat]) /\ wire_queues'[q] = Append(s, w)
      /\ \A tc \in TC : tc # q => wire_queues'[tc] = wire_queues[tc]
  BY <1>1 DEF TypeOK, WireQueueType
<1>3. /\ Len(s) \in Nat /\ DOMAIN s = 1 .. Len(s) /\ DOMAIN wire_queues'[q] = 1 .. Len(s) + 1
      /\ wire_queues'[q][Len(s) + 1] = w
      /\ \A k \in 1 .. Len(s) : wire_queues'[q][k] = wire_queues[q][k]
  BY <1>1, <1>2, AppendProperties
<1>4. t = "rx" \/ t = "drain"
  BY DEF Producers
<1>5. /\ BusyItems' = BusyItems /\ Stored' = Stored /\ Held' \subseteq Held
      /\ t = "drain" => Held' = Stored
  <2>1. BusyItems' = BusyItems /\ Stored' = Stored
    BY <1>1 DEF BusyItems, Stored, GateItems
  <2>2. t = "rx" => Hand("drain")' = Hand("drain")
    BY <1>1, ThreadShape
  <2>3. t = "drain" => Hand("drain")' = {}
    BY <1>1
  <2> QED
    BY <1>4, <2>1, <2>2, <2>3 DEF Held
\* What leads the frame, and what it leads.
<1>6. \A v \in WireItems \union BusyItems : Leads(v, i)
  <2>1. CASE t = "rx"
    <3> SUFFICES ASSUME NEW v \in WireItems \union BusyItems PROVE v.frame < i.frame
      BY DEF Leads
    <3>1. v \in Items /\ v # i
      BY <1>1, <2>1, Apart DEF Items
    <3> QED
      BY <1>1, <2>1, <3>1, FramesDealt DEF Waiting
  <2>2. CASE t = "drain"
    BY <1>1, <2>2 DEF WireLeads, Held
  <2> QED
    BY <1>4, <2>1, <2>2
<1>7. \A h \in Held' : Leads(i, h)
  <2>1. CASE t = "rx"
    BY <1>1, <1>5, <2>1 DEF Leads, Waiting, Newest, Marked
  <2>2. CASE t = "drain"
    BY <1>1, <1>5, <2>2 DEF Leads, Waiting, InLine, Older
  <2> QED
    BY <1>4, <2>1, <2>2
<1>8. \A k \in 1 .. Len(s) : wire_queues[q][k].item \in WireItems
  BY <1>1, <1>3 DEF WireItems, WireItemsOf
<1>9. WireItems' \subseteq WireItems \union {i}
  <2>1. ASSUME NEW v \in WireItems' PROVE v \in WireItems \/ v = i
    <3>1. PICK tc \in TC : \E k \in DOMAIN wire_queues'[tc] : v = wire_queues'[tc][k].item
      BY DEF WireItems, WireItemsOf
    <3>2. PICK k \in DOMAIN wire_queues'[tc] : v = wire_queues'[tc][k].item
      BY <3>1
    <3>3. CASE tc # q
      BY <1>2, <3>2, <3>3 DEF WireItems, WireItemsOf
    <3>4. CASE tc = q
      <4>1. k \in 1 .. Len(s) \/ k = Len(s) + 1
        BY <1>3, <3>2, <3>4
      <4> QED
        BY <1>1, <1>3, <1>8, <3>2, <3>4, <4>1
    <3> QED
      BY <3>3, <3>4
  <2> QED
    BY <2>1
<1>10. QueueLed'
  <2> SUFFICES ASSUME NEW tc \in TC, NEW j \in DOMAIN wire_queues'[tc],
                      NEW k \in DOMAIN wire_queues'[tc], j < k
               PROVE  Leads(wire_queues'[tc][j].item, wire_queues'[tc][k].item)
    BY DEF QueueLed
  <2>1. CASE tc # q
    BY <1>2, <2>1 DEF QueueLed
  <2>2. CASE tc = q
    <3>1. j \in 1 .. Len(s) /\ (k \in 1 .. Len(s) \/ k = Len(s) + 1)
      <4>1. PICK n : n = Len(s)
        OBVIOUS
      <4>2. n \in Nat /\ j \in 1 .. n + 1 /\ k \in 1 .. n + 1
        BY <1>3, <2>2, <4>1
      <4>3. j \in 1 .. n /\ (k \in 1 .. n \/ k = n + 1)
        BY <4>2
      <4> QED
        BY <4>1, <4>3
    <3>2. CASE k \in 1 .. Len(s)
      BY <1>1, <1>3, <2>2, <3>1, <3>2 DEF QueueLed
    <3>3. CASE k = Len(s) + 1
      BY <1>1, <1>3, <1>6, <1>8, <2>2, <3>1, <3>3
    <3> QED
      BY <3>1, <3>2, <3>3
  <2> QED
    BY <2>1, <2>2
<1>11. WireLeads'
  BY <1>5, <1>7, <1>9 DEF WireLeads
<1>12. BusyLeads'
  BY <1>5, <1>6, <1>9 DEF BusyLeads
<1> QED
  BY <1>10, <1>11, <1>12

\* The head of a wire queue goes on the wire.
LEMMA LedTake ==
  ASSUME TypeOK, Led, WireTake
  PROVE  Led'
<1> USE DEF Led
<1>q. PICK q \in TC :
        LET s == wire_queues[q]
        IN  /\ s # << >> /\ s \in Seq([item : Item, seq : Nat])
            /\ BusyItems' = {Head(s).item}
            /\ wire_queues' = [wire_queues EXCEPT ![q] = Tail(s)]
            /\ UNCHANGED <<queues, thread, batch>>
  BY TakeEffect
<1> DEFINE s == wire_queues[q]
<1>1. /\ s # << >> /\ s \in Seq([item : Item, seq : Nat])
      /\ BusyItems' = {Head(s).item}
      /\ wire_queues'[q] = Tail(s)
      /\ \A tc \in TC : tc # q => wire_queues'[tc] = wire_queues[tc]
  BY <1>q DEF TypeOK, WireQueueType
<1>2. /\ Len(s) \in Nat /\ Len(s) > 0 /\ DOMAIN s = 1 .. Len(s) /\ Head(s) = s[1]
      /\ DOMAIN wire_queues'[q] = 1 .. Len(s) - 1
      /\ \A k \in 1 .. Len(s) - 1 : wire_queues'[q][k] = s[k + 1]
  BY <1>1, HeadTailProperties
<1>3. Held' = Held
  BY <1>q DEF Held, Stored, GateItems, Hand, InHand
<1>4. s[1].item \in WireItems
  BY <1>2 DEF WireItems, WireItemsOf
<1>5. ASSUME NEW v \in WireItems'
      PROVE  v \in WireItems /\ Leads(s[1].item, v)
  <2>1. PICK tc \in TC : \E k \in DOMAIN wire_queues'[tc] : v = wire_queues'[tc][k].item
    BY <1>5 DEF WireItems, WireItemsOf
  <2>2. PICK k \in DOMAIN wire_queues'[tc] : v = wire_queues'[tc][k].item
    BY <2>1
  <2>3. CASE tc # q
    <3>1. v = wire_queues[tc][k].item /\ k \in DOMAIN wire_queues[tc]
      BY <1>1, <2>2, <2>3
    <3>2. v.tc = tc /\ s[1].item.tc = q
      BY <1>2, <3>1 DEF TypeOK, WireQueueType
    <3> QED
      BY <2>3, <3>1, <3>2 DEF WireItems, WireItemsOf, Leads
  <2>4. CASE tc = q
    <3>1. k + 1 \in DOMAIN s /\ 1 \in DOMAIN s /\ 1 < k + 1 /\ v = s[k + 1].item
      BY <1>2, <2>2, <2>4
    <3> QED
      BY <3>1 DEF QueueLed, WireItems, WireItemsOf
  <2> QED
    BY <2>3, <2>4
<1>6. QueueLed'
  <2> SUFFICES ASSUME NEW tc \in TC, NEW j \in DOMAIN wire_queues'[tc],
                      NEW k \in DOMAIN wire_queues'[tc], j < k
               PROVE  Leads(wire_queues'[tc][j].item, wire_queues'[tc][k].item)
    BY DEF QueueLed
  <2>1. CASE tc # q
    BY <1>1, <2>1 DEF QueueLed
  <2>2. CASE tc = q
    <3>1. j \in 1 .. Len(s) - 1 /\ k \in 1 .. Len(s) - 1
      BY <1>2, <2>2
    <3>2. j + 1 \in DOMAIN s /\ k + 1 \in DOMAIN s /\ j + 1 < k + 1
      BY <1>2, <3>1
    <3>3. wire_queues'[tc][j] = s[j + 1] /\ wire_queues'[tc][k] = s[k + 1]
      BY <1>2, <2>2, <3>1
    <3> QED
      BY <3>2, <3>3 DEF QueueLed
  <2> QED
    BY <2>1, <2>2
<1>7. BusyItems' = {s[1].item}
  BY <1>1, <1>2
<1>8. WireLeads'
  BY <1>3, <1>4, <1>5, <1>7 DEF WireLeads
<1>9. BusyLeads'
  BY <1>5, <1>7 DEF BusyLeads
<1> QED
  BY <1>6, <1>8, <1>9
LEMMA LedStep ==
  ASSUME TypeOK, Kept, Waiting, Led, [Next]_vars
  PROVE  Led'
<1>f. ASSUME UNCHANGED wire_queues, BusyItems' \subseteq BusyItems, Held' \subseteq Held
      PROVE  Led'
  BY <1>f, LedFewer
<1>s. ASSUME Hand("drain")' = Hand("drain"), UNCHANGED <<queues, batch>>
      PROVE  Held' = Held
  BY <1>s DEF Held, Stored, GateItems
<1>w. UNCHANGED wire => BusyItems' = BusyItems
  BY DEF BusyItems
<1>1. CASE \E tc \in RawTC : EnqueueBypass(tc) \/ EnqueueSample(tc)
  <2>1. Hand("drain")' = Hand("drain") /\ UNCHANGED <<queues, batch, wire_queues, wire>>
    BY <1>1, BypassEffect, SampleEffect DEF Hand, InHand
  <2> QED
    BY <2>1, <1>f, <1>s, <1>w
<1>2. CASE EnqueueJudge \/ EnqueueSend
  <2>1. Hand("drain")' = Hand("drain") /\ UNCHANGED <<queues, batch, wire_queues, wire>>
    BY <1>2, JudgeEffect, EnqueueSendEffect
  <2> QED
    BY <2>1, <1>f, <1>s, <1>w
<1>3. CASE DrainScan
  <2>1. /\ Hand("drain")' = {} /\ batch'.ready \subseteq GateItems /\ GateItems' \subseteq GateItems
        /\ UNCHANGED <<wire_queues, wire>>
    BY <1>3, ScanEffect
  <2>2. Held' \subseteq Held
    BY <2>1 DEF Held, Stored
  <2> QED
    BY <2>1, <2>2, <1>f, <1>w
<1>4. ASSUME NEW i \in batch.ready, DrainSend(i)
      PROVE  Led'
  <2>1. /\ batch'.ready \subseteq batch.ready
        /\ Hand("drain")' = Hand("drain")
        /\ UNCHANGED <<queues, wire_queues, wire>>
    BY <1>4, DrainSendEffect
  <2>2. Held' \subseteq Held
    BY <2>1 DEF Held, Stored, GateItems
  <2> QED
    BY <2>1, <2>2, <1>f, <1>w
<1>5. ASSUME NEW i \in batch.ready, DrainLoadSeq(i)
      PROVE  Led'
  <2>1. PICK j \in Item :
          /\ Outer(j) = Outer(i) /\ Hand("drain")' = {j}
          /\ batch'.ready \subseteq batch.ready
          /\ UNCHANGED <<queues, wire_queues, wire>>
    BY <1>5, DrainLoadEffect
  <2>2. Held' \subseteq Held \union {j} /\ i \in Held
    BY <2>1 DEF Held, Stored, GateItems
  <2> QED
    BY <2>1, <2>2, <1>w, LedFewer
<1>6. CASE WireSend
  <2>1. BusyItems' = {} /\ UNCHANGED <<queues, wire_queues, thread, batch>>
    BY <1>6, WireSendEffect
  <2>2. Held' = Held
    BY <2>1 DEF Held, Stored, GateItems, Hand, InHand
  <2> QED
    BY <2>1, <2>2, <1>f
<1>7. CASE Still
  <2>1. Held' = Held
    BY <1>7, StillEffect DEF Held, Stored, GateItems
  <2> QED
    BY <1>7, <2>1, <1>f, StillEffect
<1> QED
  BY <1>1, <1>2, <1>3, <1>4, <1>5, <1>6, <1>7, Steps, LedHold, LedAppend, LedTake

\* A wire queue with its two unlocked writers, the frame the wire loop has popped
\* and those still held leave in order, but for frames that found their gate open.
THEOREM AllLed == Spec => []Led
<1>1. TypeOK /\ Kept /\ Waiting /\ Led /\ [Next]_vars => Led'
  BY LedStep
<1> QED
  BY <1>1, LedInit, TypeCorrect, AllKept, AllWaiting, PTL DEF Spec

-----------------------------------------------------------------------------
(***************************************************************************)
(* Until the configuration is changed a port either sends everything over  *)
(* the wire or nothing.                                                    *)
(***************************************************************************)
Wireless ==
  WireItems = {} /\ BusyItems = {} /\ Hand("drain") = {} /\ thread["rx"].pc # "append"
ModeTaken == thread["drain"].pc # "idle" => (batch.use_wire <=> config.port_speed_bps > 0)
OneMode == updates = 0 => ModeTaken /\ (config.port_speed_bps = 0 => Wireless)

LEMMA OneModeInit == Init => OneMode
  BY HandFacts DEF Init, OneMode, Wireless, ModeTaken, WireItems, WireItemsOf, BusyItems, NoWire,
     NoThread, Producers

LEMMA OneModeStep ==
  ASSUME TypeOK, Kept, OneMode, [Next]_vars
  PROVE  OneMode'
<1> SUFFICES ASSUME updates' = 0
             PROVE  ModeTaken' /\ (config'.port_speed_bps = 0 => Wireless')
  BY DEF OneMode
<1>0. updates \in Nat
  BY BoundsAssumption DEF TypeOK, PortType
<1>1. updates = 0 /\ config' = config
  <2>1. CASE \E c \in Configs : UpdateConfig(c)
    BY <1>0, <2>1 DEF UpdateConfig
  <2>2. CASE UNCHANGED <<updates, config>>
    BY <2>2
  <2>3. Still => UNCHANGED <<updates, config>> \/ \E c \in Configs : UpdateConfig(c)
    BY DEF Still, EnqueueCount, EnqueueLoadSeq, BumpLoad, BumpStore,
         DrainSample, DrainDone, WireSample, WireSkip, WireOffset, WireJudge, WireNothing,
         Stop, Tick, vars, port, Counted
  <2> QED
    BY <2>1, <2>2, <2>3, Steps, BypassEffect, SampleEffect, JudgeEffect, EnqueueSendEffect,
       HoldEffect, AppendEffect, ScanEffect, DrainSendEffect, DrainLoadEffect,
       TakeEffect, WireSendEffect
<1>2. config.port_speed_bps \in Nat
  BY ConfigsAssumption DEF TypeOK, PortType
\* The drain loop fixes its mode when it begins a round.
<1>3. ModeTaken'
  <2> USE <1>1 DEF ModeTaken
  <2>1. CASE DrainSample
    BY <2>1, ThreadShape DEF DrainSample
  <2>2. CASE DrainDone
    BY <2>2, ThreadShape DEF DrainDone, Goto, NoThread
  <2>3. CASE /\ batch'.use_wire = batch.use_wire
             /\ thread["drain"].pc # "idle" \/ thread'["drain"].pc = "idle"
    BY <2>3 DEF OneMode
  <2>4. ASSUME UNCHANGED batch, thread'["drain"] = thread["drain"]
        PROVE  ModeTaken'
    BY <2>4, <2>3 DEF OneMode
  <2>5. CASE \E t \in Producers : WireAppend(t) \/ BumpLoad(t) \/ BumpStore(t) \/ Counted(t)
    <3>1. PICK t \in Producers : WireAppend(t) \/ BumpLoad(t) \/ BumpStore(t) \/ Counted(t)
      BY <2>5
    <3>2. /\ UNCHANGED batch /\ thread[t].pc # "idle"
          /\ \A u \in Producers : u # t => thread'[u] = thread[u]
      BY <3>1, ThreadShape DEF WireAppend, BumpLoad, BumpStore, Goto, Counts, Counted
    <3> QED
      BY <2>3, <2>4, <3>2, ThreadShape
  <2>6. CASE Arrival \/ EnqueueJudge \/ EnqueueSend \/ EnqueueHold \/ EnqueueCount \/ EnqueueLoadSeq
    <3>1. UNCHANGED batch /\ thread'["drain"] = thread["drain"]
      BY <2>6, ThreadShape DEF Arrival, EnqueueBypass, EnqueueSample, EnqueueJudge, EnqueueSend,
         EnqueueHold, EnqueueCount, EnqueueLoadSeq, Goto, Calls
    <3> QED
      BY <2>4, <3>1
  <2>7. CASE DrainScan
    BY <2>3, <2>7, ScanEffect
  <2>8. ASSUME NEW i \in batch.ready, DrainSend(i) \/ DrainLoadSeq(i)
        PROVE  ModeTaken'
    BY <2>3, <2>8, DrainSendEffect, DrainLoadEffect
  <2>9. CASE WireLoop \/ (\E c \in Configs : UpdateConfig(c)) \/ Stop \/ Tick \/ UNCHANGED vars
    <3>1. UNCHANGED <<thread, batch>>
      BY <2>9 DEF WireLoop, WireSample, WireSkip, WireOffset, WireJudge, WireTake,
         WireNothing, WireSend, UpdateConfig, Stop, Tick, vars, locals
    <3> QED
      BY <2>4, <3>1
  <2> QED
    BY <2>1, <2>2, <2>5, <2>6, <2>7, <2>8, <2>9 DEF Next, EnqueueRest, DrainLoop, Producers
\* Without a wire nothing is put on it.
<1>4. ASSUME config.port_speed_bps = 0
      PROVE  Wireless'
  <2>1. /\ WireItems = {} /\ BusyItems = {} /\ Hand("drain") = {} /\ thread["rx"].pc # "append"
        /\ thread["drain"].pc = "batch" => ~batch.use_wire
    BY <1>1, <1>4 DEF OneMode, Wireless, ModeTaken
  <2>2. \A tc \in TC : wire_queues[tc] = << >>
    <3>1. ASSUME NEW tc \in TC, wire_queues[tc] # << >>
          PROVE  FALSE
      <4>1. wire_queues[tc] \in Seq([item : Item, seq : Nat])
        BY DEF TypeOK, WireQueueType
      <4>2. 1 \in DOMAIN wire_queues[tc]
        BY <3>1, <4>1, EmptySeq, LenProperties
      <4>3. wire_queues[tc][1].item \in WireItems
        BY <4>2 DEF WireItems, WireItemsOf
      <4> QED
        BY <2>1, <4>3
    <3> QED
      BY <3>1
  <2>3. ASSUME UNCHANGED wire_queues, BusyItems' = {}, Hand("drain")' = {}, thread'["rx"].pc # "append"
        PROVE  Wireless'
    <3>1. WireItems' = WireItems
      BY <2>3 DEF WireItems, WireItemsOf
    <3> QED
      BY <2>1, <2>3, <3>1 DEF Wireless
  <2>4. UNCHANGED wire => BusyItems' = {}
    BY <2>1 DEF BusyItems
  <2>5. Hand("drain")' = Hand("drain") => Hand("drain")' = {}
    BY <2>1
  <2>6. ASSUME NEW t \in Producers, WireAppend(t)
        PROVE  FALSE
    BY <2>1, <2>6, HandFacts DEF WireAppend, Producers
  <2>7. CASE WireTake
    BY <2>2, <2>7, TakeEffect
  <2>8. CASE WireSend
    BY <2>1, <2>8, WireSendEffect
  <2>9. CASE Still
    BY <2>1, <2>3, <2>9, <1>4, <1>2, StillEffect
  <2>10. ASSUME NEW tc \in RawTC, EnqueueBypass(tc)
         PROVE  Wireless'
    BY <2>3, <2>4, <2>5, <2>10, BypassEffect
  <2>11. ASSUME NEW tc \in RawTC, EnqueueSample(tc)
         PROVE  Wireless'
    <3>1. thread'["rx"].pc # "append"
      BY <2>11, ThreadShape DEF EnqueueSample
    <3> QED
      BY <2>1, <2>3, <2>4, <2>11, <3>1, SampleEffect
  <2>12. CASE EnqueueJudge \/ EnqueueSend \/ EnqueueHold
    BY <2>1, <2>3, <2>4, <2>12, JudgeEffect, EnqueueSendEffect, HoldEffect
  <2>13. CASE DrainScan
    BY <2>1, <2>3, <2>4, <2>13, ScanEffect
  <2>14. ASSUME NEW i \in batch.ready, DrainSend(i)
         PROVE  Wireless'
    BY <2>1, <2>3, <2>4, <2>14, DrainSendEffect
  <2>15. ASSUME NEW i \in batch.ready, DrainLoadSeq(i)
         PROVE  FALSE
    BY <2>1, <2>15, DrainLoadEffect
  <2> QED
    BY <2>6, <2>7, <2>8, <2>9, <2>10, <2>11, <2>12, <2>13, <2>14, <2>15, Steps
<1> QED
  BY <1>1, <1>3, <1>4

\* Until the configuration is changed, a port without a wire keeps everything out
\* of the wire's path, and one with a wire never sends from enqueue or a batch.
THEOREM AllOneMode == Spec => []OneMode
<1>1. TypeOK /\ Kept /\ OneMode /\ [Next]_vars => OneMode'
  BY OneModeStep
<1> QED
  BY <1>1, OneModeInit, TypeCorrect, AllKept, PTL DEF Spec
-----------------------------------------------------------------------------
(***************************************************************************)
(* Every step is a step of the abstract port.                              *)
(***************************************************************************)
Shown(S) == {Outer(i) : i \in S}

\* The items S turn into the items T, or are gone.
LEMMA InsideChange ==
  ASSUME TypeOK, Kept, NEW S \in SUBSET Items, NEW T, Items' = (Items \ S) \union T
  PROVE  /\ Shown(S) \subseteq Inside
         /\ Inside' = (Inside \ Shown(S)) \union Shown(T)
<1>1. ASSUME NEW i \in Items \ S
      PROVE  Outer(i) \notin Shown(S)
  <2> SUFFICES ASSUME NEW j \in S, Outer(i) = Outer(j) PROVE FALSE
    BY DEF Shown
  <2>1. i.frame = j.frame
    BY DEF Outer
  <2> QED
    BY <2>1, ItemsOnce
<1>2. Inside' = {Outer(i) : i \in Items'}
  BY DEF Inside, Outer
<1> QED
  BY <1>1, <1>2 DEF Inside, Shown

LEMMA ItemChange ==
  ASSUME TypeOK, Kept, NEW i \in Items, NEW j, Items' = (Items \ {i}) \union {j}
  PROVE  Outer(i) \in Inside /\ Inside' = (Inside \ {Outer(i)}) \union {Outer(j)}
<1>1. Shown({i}) = {Outer(i)} /\ Shown({j}) = {Outer(j)}
  BY DEF Shown
<1>2. {i} \in SUBSET Items
  OBVIOUS
<1>3. Shown({i}) \subseteq Inside /\ Inside' = (Inside \ Shown({i})) \union Shown({j})
  BY <1>2, InsideChange
<1> QED
  BY <1>1, <1>3

LEMMA OuterNext ==
  ASSUME Items' = Items
  PROVE  Inside' = Inside
  BY DEF Inside, Outer

\* An item that leaves, when nothing of its class is ahead of it that it must
\* not pass.
LEMMA Departs ==
  ASSUME TypeOK, Kept, NEW i \in Items, Items' = Items \ {i}, out' = Append(out, Outer(i)),
         updates = 0 => \A j \in Items : j.tc = i.tc /\ j.frame < i.frame => j.held /\ ~i.held,
         UNCHANGED <<updates, arrived, dropped>>
  PROVE  Port!Next
<1>1. Outer(i) \in Inside /\ Inside' = Inside \ {Outer(i)}
  <2>1. Items' = (Items \ {i}) \union {}
    OBVIOUS
  <2>2. Shown({i}) = {Outer(i)} /\ Shown({}) = {}
    BY DEF Shown
  <2> QED
    BY <2>1, <2>2, InsideChange, SMTT(30)
<1>2. ASSUME updates = 0, NEW g \in Inside, g.tc = Outer(i).tc, g.frame < Outer(i).frame
      PROVE  g.held /\ ~Outer(i).held
  <2>1. PICK j \in Items : g = Outer(j)
    BY DEF Inside
  <2>2. /\ g.tc = j.tc /\ g.frame = j.frame /\ g.held = j.held
        /\ Outer(i).tc = i.tc /\ Outer(i).frame = i.frame /\ Outer(i).held = i.held
    BY <2>1 DEF Outer
  <2> QED
    BY <1>2, <2>2
<1>3. Port!Depart(Outer(i))
  BY <1>1, <1>2 DEF Port!Depart, Port!Ahead
<1> QED
  BY <1>1, <1>3 DEF Port!Next

LEMMA SimulateArrival ==
  ASSUME TypeOK, Kept, NEW tc \in RawTC, EnqueueBypass(tc) \/ EnqueueSample(tc)
  PROVE  Port!Next
<1>1. CASE EnqueueBypass(tc)
  <2>1. /\ arrived' = arrived + 1
        /\ out' = Append(out, [frame |-> arrived + 1, tc |-> tc, held |-> FALSE])
        /\ Hand("rx") = {} /\ Hand("rx")' = {} /\ Hand("drain")' = Hand("drain")
        /\ UNCHANGED <<queues, wire_queues, batch, wire, dropped, updates>>
    BY <1>1, BypassEffect
  <2>2. Items' = Items
    BY <2>1 DEF Items, GateItems, WireItems, WireItemsOf, BusyItems
  <2>3. Port!Pass(tc)
    BY <2>1, <2>2, OuterNext DEF Port!Pass
  <2> QED
    BY <2>3 DEF Port!Next
<1>2. CASE EnqueueSample(tc)
  <2>1. PICK i \in Item :
          /\ i.frame = arrived + 1 /\ i.tc = Clamp(tc) /\ ~i.held /\ i.tc \in TC
          /\ Hand("rx") = {} /\ Hand("rx")' = {i} /\ Hand("drain")' = Hand("drain")
          /\ arrived' = arrived + 1
          /\ UNCHANGED <<queues, wire_queues, batch, wire, out, dropped, updates>>
    BY <1>2, SampleEffect
  <2>2. GateItems' = GateItems /\ WireItems' = WireItems /\ BusyItems' = BusyItems
    BY <2>1 DEF GateItems, WireItems, WireItemsOf, BusyItems
  <2>3. Items' = (Items \ {}) \union {i}
    BY <2>1, <2>2 DEF Items
  <2>4. Inside' = Inside \union {Outer(i)}
    <3>1. Shown({i}) = {Outer(i)} /\ Shown({}) = {}
      BY DEF Shown
    <3> QED
      BY <2>3, <3>1, InsideChange
  <2>5. Outer(i) = [frame |-> arrived + 1, tc |-> Clamp(tc), held |-> FALSE]
    BY <2>1 DEF Outer, Item
  <2>6. Port!Accept(Clamp(tc), FALSE)
    BY <2>1, <2>4, <2>5 DEF Port!Accept
  <2> QED
    BY <2>1, <2>6 DEF Port!Next
<1> QED
  BY <1>1, <1>2

LEMMA SimulateJudge ==
  ASSUME TypeOK, Kept, EnqueueJudge
  PROVE  UNCHANGED Port!vars
<1>1. PICK i, j \in Item :
        /\ Hand("rx") = {i} /\ Hand("rx")' = {j} /\ Outer(j) = Outer(i)
        /\ Hand("drain")' = Hand("drain")
        /\ UNCHANGED <<queues, wire_queues, batch, wire, out, dropped, arrived, updates>>
  BY JudgeEffect
<1>2. GateItems' = GateItems /\ WireItems' = WireItems /\ BusyItems' = BusyItems
  BY <1>1 DEF GateItems, WireItems, WireItemsOf, BusyItems
<1> DEFINE R == UNION {Hand("drain"), batch.ready, GateItems, WireItems, BusyItems}
<1>3. Items' = (Items \ {i}) \union {j} /\ {i} \in SUBSET Items
  <2>1. Items = R \union {i} /\ Items' = R \union {j}
    BY <1>1, <1>2 DEF Items
  <2>2. i \notin R
    BY <1>1, Apart
  <2> QED
    BY <2>1, <2>2
<1>4. Outer(i) \in Inside /\ Inside' = (Inside \ {Outer(i)}) \union {Outer(i)}
  BY <1>1, <1>3, ItemChange
<1> QED
  BY <1>1, <1>4 DEF Port!vars

LEMMA SimulateHold ==
  ASSUME TypeOK, Kept, Waiting, EnqueueHold
  PROVE  Port!Next
<1>1. PICK i, j \in Item :
        /\ Hand("rx") = {i} /\ Hand("rx")' = {} /\ Hand("drain")' = Hand("drain")
        /\ j = [i EXCEPT !.held = TRUE] /\ i.tc \in TC
        /\ queues' = [queues EXCEPT ![i.tc] = @ \union {j}]
        /\ UNCHANGED <<wire_queues, batch, wire, out, dropped, arrived, updates>>
  BY HoldEffect
<1>2. WireItems' = WireItems /\ BusyItems' = BusyItems
  BY <1>1 DEF WireItems, WireItemsOf, BusyItems
<1>3. GateItems' = GateItems \union {j}
  <2>1. \A tc \in TC : queues'[tc] = IF tc = i.tc THEN queues[tc] \union {j} ELSE queues[tc]
    BY <1>1 DEF TypeOK, QueueType
  <2> QED
    BY <1>1, <2>1 DEF GateItems
<1> DEFINE R == UNION {Hand("drain"), batch.ready, GateItems, WireItems, BusyItems}
<1>4. Items' = (Items \ {i}) \union {j} /\ {i} \in SUBSET Items
  <2>1. Items = R \union {i} /\ Items' = R \union {j}
    BY <1>1, <1>2, <1>3 DEF Items
  <2>2. i \notin R
    BY <1>1, Apart
  <2> QED
    BY <2>1, <2>2
<1>5. Inside' = (Inside \ {Outer(i)}) \union {Outer(j)} /\ Outer(i) \in Inside
  BY <1>4, ItemChange
<1>6. Outer(j) = [Outer(i) EXCEPT !.held = TRUE] /\ ~Outer(i).held
  <2>1. Outer(j) = [frame |-> i.frame, tc |-> i.tc, held |-> TRUE]
    BY <1>1 DEF Item, Outer
  <2>2. Outer(i) \in [frame : Nat, tc : Nat, held : BOOLEAN] /\ Outer(i).frame = i.frame
        /\ Outer(i).tc = i.tc /\ ~Outer(i).held
    BY <1>1 DEF Waiting, Newest, Item, Outer
  <2>3. ASSUME NEW o \in [frame : Nat, tc : Nat, held : BOOLEAN],
               NEW p, p = [o EXCEPT !.held = TRUE]
        PROVE  /\ p \in [frame : Nat, tc : Nat, held : BOOLEAN]
               /\ p.frame = o.frame /\ p.tc = o.tc /\ p.held = TRUE
    BY <2>3
  <2>4. PICK p : p = [Outer(i) EXCEPT !.held = TRUE]
    OBVIOUS
  <2>5. /\ p \in [frame : Nat, tc : Nat, held : BOOLEAN]
        /\ p.frame = Outer(i).frame /\ p.tc = Outer(i).tc /\ p.held = TRUE
    BY <2>2, <2>3, <2>4
  <2>6. Outer(j) = p
    BY <2>1, <2>2, <2>5
  <2> QED
    BY <2>2, <2>4, <2>6
<1>7. Port!Hold(Outer(i))
  BY <1>1, <1>5, <1>6 DEF Port!Hold
<1> QED
  BY <1>5, <1>7 DEF Port!Next

\* The frame goes from a hand to a wire queue, from there to the wire, or from
\* the batch to a hand.
LEMMA SimulateMove ==
  ASSUME TypeOK, Kept,
         \/ \E t \in Producers : WireAppend(t)
         \/ WireTake \/ \E i \in batch.ready : DrainLoadSeq(i)
  PROVE  UNCHANGED Port!vars
<1>s. ASSUME Items' = Items, UNCHANGED <<updates, arrived, out, dropped>>
      PROVE  UNCHANGED Port!vars
  BY <1>s, OuterNext DEF Port!vars
<1>1. ASSUME NEW t \in Producers, WireAppend(t)
      PROVE  UNCHANGED Port!vars
  <2>1. PICK i \in Item, w \in [item : Item, seq : Nat] :
          /\ w.item = i /\ i.tc \in TC
          /\ Hand(t) = {i} /\ Hand(t)' = {} /\ \A u \in Producers : u # t => Hand(u)' = Hand(u)
          /\ wire_queues' = [wire_queues EXCEPT ![i.tc] = Append(@, w)]
          /\ UNCHANGED <<queues, batch, wire, out, dropped, arrived, updates>>
    BY <1>1, AppendEffect
  <2> DEFINE q == i.tc
             s == wire_queues[q]
  <2>2. /\ s \in Seq([item : Item, seq : Nat]) /\ wire_queues'[q] = Append(s, w)
        /\ \A tc \in TC : tc # q => wire_queues'[tc] = wire_queues[tc]
    BY <2>1 DEF TypeOK, WireQueueType
  <2>3. /\ Len(s) \in Nat /\ DOMAIN s = 1 .. Len(s) /\ DOMAIN wire_queues'[q] = 1 .. Len(s) + 1
        /\ wire_queues'[q][Len(s) + 1] = w
        /\ \A k \in 1 .. Len(s) : wire_queues'[q][k] = s[k]
    BY <2>1, <2>2, AppendProperties
  <2>4. WireItemsOf(q)' = WireItemsOf(q) \union {i}
    <3>1. /\ WireItemsOf(q) = {s[k].item : k \in 1 .. Len(s)}
          /\ WireItemsOf(q)' = {wire_queues'[q][k].item : k \in 1 .. Len(s) + 1}
      BY <2>3 DEF WireItemsOf
    <3> HIDE DEF s, q
    <3> QED
      BY <2>1, <2>3, <3>1, SMTT(30)
  <2>5. \A tc \in TC : tc # q => WireItemsOf(tc)' = WireItemsOf(tc)
    BY <2>2 DEF WireItemsOf
  <2>6. WireItems' = WireItems \union {i}
    BY <2>1, <2>4, <2>5 DEF WireItems
  <2>7. GateItems' = GateItems /\ BusyItems' = BusyItems
    BY <2>1 DEF GateItems, BusyItems
  <2>8. Hand("rx") \union Hand("drain") = Hand("rx")' \union Hand("drain")' \union {i}
    BY <2>1, ThreadShape DEF Producers
  <2>9. Items' = Items
    BY <2>1, <2>6, <2>7, <2>8 DEF Items
  <2> QED
    BY <2>1, <2>9, <1>s
<1>2. CASE WireTake
  <2>1. PICK q \in TC :
          LET s == wire_queues[q]
          IN  /\ s # << >> /\ s \in Seq([item : Item, seq : Nat])
              /\ BusyItems = {} /\ BusyItems' = {Head(s).item}
              /\ wire_queues' = [wire_queues EXCEPT ![q] = Tail(s)]
              /\ UNCHANGED <<queues, thread, batch, out, dropped, arrived, updates>>
    BY <1>2, TakeEffect
  <2> DEFINE s == wire_queues[q]
  <2>2. /\ s # << >> /\ s \in Seq([item : Item, seq : Nat])
        /\ BusyItems = {} /\ BusyItems' = {Head(s).item}
        /\ wire_queues'[q] = Tail(s)
        /\ \A tc \in TC : tc # q => wire_queues'[tc] = wire_queues[tc]
    BY <2>1 DEF TypeOK, WireQueueType
  <2>3. /\ Len(s) \in Nat /\ Len(s) > 0 /\ DOMAIN s = 1 .. Len(s) /\ Head(s) = s[1]
        /\ DOMAIN wire_queues'[q] = 1 .. Len(s) - 1
        /\ \A k \in 1 .. Len(s) - 1 : wire_queues'[q][k] = s[k + 1]
    BY <2>2, HeadTailProperties
  <2>4. WireItemsOf(q) = WireItemsOf(q)' \union {s[1].item}
    <3>0. WireItemsOf(q)' = {wire_queues'[q][k].item : k \in 1 .. Len(s) - 1}
      BY <2>3 DEF WireItemsOf
    <3>p. WireItemsOf(q) = {s[k].item : k \in DOMAIN s}
      BY DEF WireItemsOf
    <3>1. 1 \in DOMAIN s /\ \A k \in DOMAIN s : k = 1 \/ k - 1 \in 1 .. Len(s) - 1
      BY <2>3
    <3>2. \A k \in DOMAIN s : k # 1 => wire_queues'[q][k - 1] = s[k]
      BY <2>3, <3>1
    <3>3. \A k \in 1 .. Len(s) - 1 : k + 1 \in DOMAIN s /\ wire_queues'[q][k] = s[k + 1]
      BY <2>3
    <3> HIDE DEF s
    <3> QED
      BY <3>p, <3>0, <3>1, <3>2, <3>3
  <2>5. \A tc \in TC : tc # q => WireItemsOf(tc)' = WireItemsOf(tc)
    BY <2>2 DEF WireItemsOf
  <2>6. WireItems = WireItems' \union {s[1].item}
    BY <2>1, <2>4, <2>5 DEF WireItems
  <2>7. GateItems' = GateItems /\ \A t \in Producers : Hand(t)' = Hand(t)
    BY <2>1 DEF GateItems, Hand, InHand
  <2>8. Items' = Items
    BY <2>1, <2>2, <2>3, <2>6, <2>7, ThreadShape DEF Items
  <2> QED
    BY <2>1, <2>8, <1>s
<1>3. ASSUME NEW i \in batch.ready, DrainLoadSeq(i)
      PROVE  UNCHANGED Port!vars
  <2>1. PICK j \in Item :
          /\ Outer(j) = Outer(i) /\ batch'.ready = batch.ready \ {i}
          /\ Hand("drain") = {} /\ Hand("drain")' = {j} /\ Hand("rx")' = Hand("rx")
          /\ UNCHANGED <<queues, wire_queues, wire, out, dropped, arrived, updates>>
    BY <1>3, DrainLoadEffect
  <2>2. GateItems' = GateItems /\ WireItems' = WireItems /\ BusyItems' = BusyItems
    BY <2>1 DEF GateItems, WireItems, WireItemsOf, BusyItems
  <2>3. Items' = (Items \ {i}) \union {j} /\ {i} \in SUBSET Items
    BY <2>1, <2>2, Apart DEF Items
  <2>4. Outer(i) \in Inside /\ Inside' = (Inside \ {Outer(i)}) \union {Outer(i)}
    BY <2>1, <2>3, ItemChange
  <2> QED
    BY <2>1, <2>4 DEF Port!vars
<1> QED
  BY <1>1, <1>2, <1>3
\* A frame leaves from the hand of the rx thread, from the batch or from the wire.
LEMMA SimulateSend ==
  ASSUME TypeOK, Kept, Waiting, Led, OneMode,
         EnqueueSend \/ WireSend \/ \E i \in batch.ready : DrainSend(i)
  PROVE  Port!Next
<1>1. CASE EnqueueSend
  <2>1. PICK i \in Item :
          /\ Hand("rx") = {i} /\ Hand("rx")' = {} /\ Hand("drain")' = Hand("drain")
          /\ out' = Append(out, Outer(i)) /\ config.port_speed_bps = 0
          /\ UNCHANGED <<queues, wire_queues, batch, wire, dropped, arrived, updates>>
    BY <1>1, EnqueueSendEffect
  <2> DEFINE R == UNION {Hand("drain"), batch.ready, GateItems, WireItems, BusyItems}
  <2>2. Items = R \union {i} /\ Items' = R
    <3>1. GateItems' = GateItems /\ WireItems' = WireItems /\ BusyItems' = BusyItems
      BY <2>1 DEF GateItems, WireItems, WireItemsOf, BusyItems
    <3> QED
      BY <2>1, <3>1 DEF Items
  <2>3. Items' = Items \ {i} /\ i \in Items
    BY <2>1, <2>2, Apart
  <2>4. ASSUME updates = 0, NEW j \in Items, j # i
        PROVE  j.held /\ ~i.held
    <3>1. WireItems = {} /\ BusyItems = {} /\ ~i.held
      BY <2>1, <2>4 DEF OneMode, Wireless, Waiting, Newest
    <3>2. j \in Held
      BY <2>2, <2>4, <3>1 DEF Held, Stored
    <3> QED
      BY <3>1, <3>2 DEF Waiting, Marked
  <2> HIDE DEF R
  <2>5. updates = 0 => \A j \in Items : j.tc = i.tc /\ j.frame < i.frame => j.held /\ ~i.held
    <3>1. ~(i.frame < i.frame)
      BY <2>1 DEF Item
    <3> QED
      BY <2>4, <3>1
  <2> QED
    BY <2>1, <2>3, <2>5, Departs
<1>2. ASSUME NEW i \in batch.ready, DrainSend(i)
      PROVE  Port!Next
  <2>1. /\ i \in Item /\ batch'.ready = batch.ready \ {i} /\ \A j \in batch.ready : Before(i, j)
        /\ thread["drain"].pc = "batch" /\ ~batch.use_wire
        /\ Hand("drain") = {} /\ Hand("drain")' = {} /\ Hand("rx")' = Hand("rx")
        /\ out' = Append(out, Outer(i))
        /\ UNCHANGED <<queues, wire_queues, wire, dropped, arrived, updates>>
    BY <1>2, DrainSendEffect
  <2> DEFINE R == UNION {Hand("rx"), Hand("drain"), GateItems, WireItems, BusyItems}
  <2>2. Items = R \union batch.ready /\ Items' = R \union batch'.ready
    <3>1. GateItems' = GateItems /\ WireItems' = WireItems /\ BusyItems' = BusyItems
      BY <2>1 DEF GateItems, WireItems, WireItemsOf, BusyItems
    <3>2. Hand("rx")' = Hand("rx") /\ Hand("drain")' = Hand("drain")
      BY <2>1 DEF Hand, InHand
    <3> QED
      BY <2>1, <3>1, <3>2 DEF Items
  <2>3. i \notin R
    BY Apart
  <2>4. ASSUME updates = 0, NEW j \in Items, j.tc = i.tc, j.frame < i.frame
        PROVE  FALSE
    <3>1. i.frame \in Nat /\ j.frame \in Nat
      BY <2>1, <2>4, ItemTypes DEF Item
    <3>2. WireItems = {} /\ BusyItems = {}
      <4>1. config.port_speed_bps = 0
        BY <2>1, <2>4, ConfigsAssumption DEF OneMode, ModeTaken, TypeOK, PortType
      <4> QED
        BY <2>4, <4>1 DEF OneMode, Wireless
    <3>3. CASE j \in Hand("rx")
      <4>1. i \in Items /\ i # j
        BY <2>2, <2>4, <3>1
      <4>2. i.frame < j.frame
        BY <3>3, <4>1, FramesDealt DEF Waiting
      <4> QED
        BY <2>4, <3>1, <4>2
    <3>4. CASE j \in Stored
      <4>1. j # i
        BY <2>4, <3>1
      <4> QED
        BY <2>1, <2>4, <3>1, <3>4, <4>1, HeadOldest DEF Older
    <3> QED
      BY <2>1, <2>2, <2>4, <3>2, <3>3, <3>4 DEF Stored
  <2> HIDE DEF R
  <2>5. Items' = Items \ {i} /\ i \in Items
    BY <2>1, <2>2, <2>3
  <2> QED
    BY <2>1, <2>4, <2>5, Departs
<1>3. CASE WireSend
  <2> DEFINE i == wire.item
             R == UNION {Hand("rx"), Hand("drain"), batch.ready, GateItems, WireItems}
  <2>1. /\ i \in Item /\ BusyItems = {i} /\ BusyItems' = {}
        /\ out' = Append(out, Outer(i))
        /\ UNCHANGED <<queues, wire_queues, thread, batch, dropped, arrived, updates>>
    BY <1>3, WireSendEffect
  <2> HIDE DEF i
  <2>2. Items = R \union {i} /\ Items' = R
    <3>1. GateItems' = GateItems /\ WireItems' = WireItems
      BY <2>1 DEF GateItems, WireItems, WireItemsOf
    <3>2. Hand("rx")' = Hand("rx") /\ Hand("drain")' = Hand("drain")
      BY <2>1 DEF Hand, InHand
    <3> QED
      BY <2>1, <3>1, <3>2 DEF Items
  <2>3. i \notin R
    BY <2>1, Apart
  <2>4. ASSUME NEW j \in Items, j.tc = i.tc, j.frame < i.frame
        PROVE  j.held /\ ~i.held
    <3>1. i.frame \in Nat /\ j.frame \in Nat
      BY <2>1, <2>4, ItemTypes DEF Item
    <3>2. j # i /\ i \in Items
      BY <2>2, <2>4, <3>1
    <3>3. j \notin Hand("rx")
      <4>1. ASSUME j \in Hand("rx") PROVE i.frame < j.frame
        BY <4>1, <3>2, FramesDealt DEF Waiting
      <4> QED
        BY <2>4, <3>1, <4>1
    <3>4. j \in Held \union WireItems
      BY <2>2, <2>4, <3>2, <3>3 DEF Held, Stored
    <3>5. Leads(i, j)
      BY <2>1, <3>4 DEF Led, WireLeads, BusyLeads
    <3> QED
      BY <2>4, <3>1, <3>5 DEF Leads
  <2> HIDE DEF R
  <2>5. Items' = Items \ {i} /\ i \in Items
    BY <2>2, <2>3
  <2> QED
    BY <2>1, <2>4, <2>5, Departs
<1> QED
  BY <1>1, <1>2, <1>3

\* The scan discards the expired items.
LEMMA SimulateScan ==
  ASSUME TypeOK, Kept, DrainScan
  PROVE  Port!Next
<1>0. batch.ready = {}
  BY ScanEffect DEF Kept, BatchIdle
<1>1. /\ Hand("drain") = {} /\ Hand("drain")' = {} /\ thread'["rx"] = thread["rx"]
      /\ Dead \subseteq GateItems
      /\ dropped' = dropped \union {[frame |-> i.frame, tc |-> i.tc] : i \in Dead}
      /\ batch'.ready \union GateItems' = GateItems \ Dead
      /\ UNCHANGED <<wire_queues, wire, out, arrived, updates>>
  BY ScanEffect
<1> DEFINE R == UNION {Hand("rx"), Hand("drain"), WireItems, BusyItems}
<1>2. Items = R \union GateItems /\ Items' = R \union (GateItems \ Dead)
  <2>1. WireItems' = WireItems /\ BusyItems' = BusyItems /\ Hand("rx")' = Hand("rx")
    BY <1>1 DEF WireItems, WireItemsOf, BusyItems, Hand, InHand
  <2>2. Items' = UNION {Hand("rx"), Hand("drain"), batch'.ready \union GateItems', WireItems, BusyItems}
    BY <1>1, <2>1 DEF Items
  <2> QED
    BY <1>0, <1>1, <2>2 DEF Items
<1>3. GateItems \intersect R = {}
  BY Apart
<1> HIDE DEF R
<1>4. Items' = (Items \ Dead) \union {} /\ Dead \in SUBSET Items
  BY <1>1, <1>2, <1>3
<1>5. Shown(Dead) \subseteq Inside /\ Inside' = Inside \ Shown(Dead)
  <2>1. Shown({}) = {}
    BY DEF Shown
  <2> QED
    BY <1>4, <2>1, InsideChange
<1>6. {d.frame : d \in dropped'} = {d.frame : d \in dropped} \union {f.frame : f \in Shown(Dead)}
  <2> DEFINE N(i) == [frame |-> i.frame, tc |-> i.tc]
  <2>1. \A i \in Dead : Outer(i).frame = i.frame /\ N(i).frame = i.frame
    BY DEF Outer
  <2>2. dropped' = dropped \union {N(i) : i \in Dead}
    BY <1>1
  <2> HIDE DEF N
  <2>3. {d.frame : d \in dropped'} = {d.frame : d \in dropped} \union {i.frame : i \in Dead}
    BY <2>1, <2>2
  <2>4. {f.frame : f \in Shown(Dead)} = {i.frame : i \in Dead}
    BY <2>1 DEF Shown
  <2> QED
    BY <2>3, <2>4
<1>7. PICK S : S = Shown(Dead)
  OBVIOUS
<1>8. Port!Discard(S)
  <2>1. UNCHANGED <<updates, arrived, out>>
    BY <1>1
  <2> QED
    BY <1>5, <1>6, <1>7, <2>1 DEF Port!Discard
<1> QED
  BY <1>5, <1>7, <1>8 DEF Port!Next

LEMMA SimulateStill ==
  ASSUME TypeOK, Kept, Still
  PROVE  [Port!Next]_(Port!vars)
<1>1. UNCHANGED <<arrived, out, dropped>>
  BY StillEffect
<1>2. Inside' = Inside
  <2>1. WireItems' = WireItems /\ GateItems' = GateItems
    BY StillEffect DEF WireItems, WireItemsOf, GateItems
  <2>2. Items' = Items
    BY <2>1, StillEffect DEF Items
  <2> QED
    BY <2>2, OuterNext
<1>3. ASSUME NEW c \in Configs, UpdateConfig(c)
      PROVE  Port!Reconfigure
  <2>1. updates' # 0
    BY <1>3, BoundsAssumption DEF UpdateConfig, TypeOK, PortType
  <2> QED
    BY <1>1, <1>2, <2>1 DEF Port!Reconfigure
<1>4. CASE UNCHANGED updates
  BY <1>1, <1>2, <1>4 DEF Port!vars
<1> QED
  BY <1>3, <1>4
  DEF Still, EnqueueCount, EnqueueLoadSeq, BumpLoad, BumpStore, DrainSample, DrainDone,
      WireSample, WireSkip, WireOffset, WireJudge, WireNothing, Stop, Tick, vars, port,
      Port!Next, Counted

\* Every step of the engine is a step of the port, or leaves it unchanged.
LEMMA Simulation ==
  ASSUME TypeOK, Kept, Waiting, Led, OneMode, [Next]_vars
  PROVE  [Port!Next]_(Port!vars)
  BY Steps, SimulateArrival, SimulateJudge, SimulateHold, SimulateMove, SimulateSend,
     SimulateScan, SimulateStill

LEMMA InitialPort == Init => Port!Init
<1> SUFFICES ASSUME Init PROVE Port!Init
  OBVIOUS
<1>1. Hand("rx") = {} /\ Hand("drain") = {}
  BY HandFacts DEF Init, NoThread, Producers
<1>2. batch.ready = {} /\ GateItems = {} /\ WireItems = {} /\ BusyItems = {}
  BY DEF Init, NoBatch, NoWire, GateItems, WireItems, WireItemsOf, BusyItems
<1>3. Inside = {}
  BY <1>1, <1>2 DEF Inside, Items
<1> QED
  BY <1>3 DEF Init, Port!Init

\* The engine is an egress port: whatever the schedule of its three threads, the
\* gate lists and the frames, a frame leaves once or is dropped, never both, and
\* until the configuration is changed a frame passes another of its class only
\* when it found its gate open and the other was held.
THEOREM TASIsPort == Spec => PortSpec
<1>1. TypeOK /\ Kept /\ Waiting /\ Led /\ OneMode /\ [Next]_vars => [Port!Next]_(Port!vars)
  BY Simulation
<1> QED
  BY <1>1, InitialPort, TypeCorrect, AllKept, AllWaiting, AllLed, AllOneMode, PTL
  DEF Spec, PortSpec, Port!Spec

=============================================================================
