------------------------------ MODULE TASEngine ------------------------------
(***************************************************************************)
(* tas/engine.py, class TASEngine: the Time-Aware Shaper of one egress     *)
(* port of the switch.  Four parties touch it:                             *)
(*   rx     the switch's single tunnel receive thread, calling enqueue;    *)
(*   drain  _drain_loop, which empties the gate queues;                    *)
(*   wire   _wire_loop, which serialises frames at the port speed (the     *)
(*          thread exists only if the port speed was positive at start);   *)
(*   the dashboard, calling update_config.                                 *)
(* One action is what a thread does between two points at which another    *)
(* thread can observe or change shared state.                              *)
(*                                                                         *)
(* A gate queue _queues[tc] is the set of its items: enqueue appends in    *)
(* arrival order and frames are numbered in that order, so the list is the *)
(* set sorted by frame number.  A wire queue has two writers and stays a   *)
(* sequence.  `out` is the history of the calls of send_fn.                *)
(***************************************************************************)
EXTENDS TASConfig, FiniteSets

CONSTANTS
  Configs,      \* configurations the store can hand to the port (all valid)
  RawTC,        \* values of the tc byte of a tunnel frame
  TxTicks,      \* ticks one frame occupies the wire
  NumFrames,    \* bound: frames that arrive
  MaxTime,      \* bound: largest instant
  LoopTo,       \* instant that follows MaxTime (see Tick)
  LastArrival,  \* bound: no frame arrives later
  MaxUpdates,   \* bound: calls of update_config
  Prompt,       \* TRUE: polling threads act within the tick (see Tick)
  MayStop       \* TRUE: stop() may be called

ASSUME ConfigsAssumption ==
  \A c \in Configs :
    /\ c.enabled \in BOOLEAN /\ c.cycle_us \in Nat \ {0} /\ c.port_speed_bps \in Nat
    /\ c.base_time_ns \in Int
    /\ c.gcl \in GateList
    /\ Validate(c)

ASSUME BoundsAssumption ==
  /\ RawTC \subseteq Nat
  /\ TxTicks \in Nat
  /\ NumFrames \in Nat
  /\ MaxTime \in Nat /\ LoopTo \in 0 .. MaxTime /\ LastArrival \in 0 .. LoopTo
  /\ MaxUpdates \in Nat
  /\ Prompt \in BOOLEAN /\ MayStop \in BOOLEAN

VARIABLES
  now,          \* clock_fn()
  config,
  running,      \* _running
  wire_on,      \* start() created the wire thread
  updates,      \* calls of update_config so far
  queues,       \* _queues
  wire_queues,  \* _wire_queues
  wire_seq,     \* _wire_seq
  thread,       \* program counters and locals of the two producers of the wire queues
  batch,        \* further locals of _drain_loop: now_ns, max_age_ns, use_wire, ready
  wire,         \* program counter and locals of _wire_loop
  polled,       \* with Prompt: polling threads that began a round in this tick
  stats,        \* _stats
  arrived,      \* frames enqueue was called with
  out,          \* calls of send_fn, in order
  dropped       \* frames the drain loop discarded

port == <<config, running, wire_on, updates>>
wires == <<wire_queues, wire_seq>>
locals == <<thread, batch, wire, polled>>
vars == <<now, port, queues, wires, locals, stats, arrived, out, dropped>>

Producers == {"rx", "drain"}

Item == [frame : Nat, tc : Nat, at : Nat, held : BOOLEAN]
NoItem == [frame |-> 0, tc |-> 0, at |-> 0, held |-> FALSE]

\* Locals between two rounds; none is read before it is assigned.
NoThread == [pc |-> "idle", item |-> NoItem, offset |-> 0, seq |-> 0]
NoBatch == [now |-> 0, max_age |-> 0, use_wire |-> FALSE, ready |-> {}]
NoWire == [pc |-> "idle", tc |-> 0, now |-> 0, offset |-> 0,
           best |-> -1, item |-> NoItem, left |-> 0]

\* Mutant of RecordSent: every frame counts as sent immediately.
RecordSentImmediate(tc, queued) ==
  stats' = [stats EXCEPT !.sent[tc] = @ + 1, !.sent_immediate[tc] = @ + 1]

\* record_sent(tc, queued) of TASStats
RecordSent(tc, queued) ==
  stats' = [stats EXCEPT !.sent[tc] = @ + 1,
                         !.sent_immediate[tc] = IF queued THEN @ ELSE @ + 1]

\* send_fn(data, dest_ip, dest_port)
Send(item) ==
  out' = Append(out, [frame |-> item.frame, tc |-> item.tc, held |-> item.held])

\* Thread t becomes idle, or goes on at pc.
Goto(t, pc) ==
  thread' = [thread EXCEPT ![t] = IF pc = "idle" THEN NoThread ELSE [@ EXCEPT !.pc = pc]]

\* Thread t is in send_fn with the item, which it counts when the call returns.
Calls(t, item) ==
  thread' = [thread EXCEPT ![t] = [NoThread EXCEPT !.pc = "sent", !.item = item]]

\* Thread t has counted its item as sent and goes on: enqueue returns, the drain
\* loop turns to the rest of its batch.
Counts(t) ==
  /\ RecordSent(thread[t].item.tc, t = "drain")
  /\ thread' = [thread EXCEPT ![t] =
                  [NoThread EXCEPT !.pc = IF t = "rx" THEN "idle" ELSE "batch"]]

\* A polling thread begins a round; with Prompt, one in each tick.
BeginRound(t) ==
  /\ t \notin polled
  /\ polled' = IF Prompt THEN polled \union {t} ELSE polled

Init ==
  /\ now = 0
  /\ config \in Configs
  /\ running = TRUE
  /\ wire_on = (config.port_speed_bps > 0)
  /\ updates = 0
  /\ queues = [tc \in TC |-> {}]
  /\ wire_queues = [tc \in TC |-> << >>]
  /\ wire_seq = 0
  /\ thread = [t \in Producers |-> NoThread]
  /\ batch = NoBatch
  /\ wire = NoWire
  /\ polled = {}
  /\ LET zero == [tc \in TC \union RawTC |-> 0]
     IN  stats = [sent |-> zero, sent_immediate |-> zero,
                  queued |-> zero, dropped |-> zero]
  /\ arrived = 0
  /\ out = << >>
  /\ dropped = {}

-----------------------------------------------------------------------------
(***************************************************************************)
(* enqueue, run by the rx thread.                                          *)
(***************************************************************************)
Arrive ==
  /\ thread["rx"].pc = "idle"
  /\ arrived < NumFrames /\ now <= LastArrival
  /\ arrived' = arrived + 1

\* Shaping disabled: straight to send_fn, under the class as received.
EnqueueBypass(tc) ==
  /\ Arrive
  /\ ~config.enabled
  /\ LET item == [NoItem EXCEPT !.frame = arrived + 1, !.tc = tc]
     IN  Send(item) /\ Calls("rx", item)
  /\ UNCHANGED <<now, port, queues, wires, batch, wire, polled, stats, dropped>>

\* First half of the gate check: clamp the class, read the clock, compute the
\* offset in the cycle.
EnqueueSample(tc) ==
  /\ Arrive
  /\ config.enabled
  /\ thread' = [thread EXCEPT !["rx"] =
                  [pc |-> "gate", offset |-> CycleOffset(config, now), seq |-> 0,
                   item |-> [frame |-> arrived + 1, tc |-> Clamp(tc),
                             at |-> now, held |-> FALSE]]]
  /\ UNCHANGED <<now, port, queues, wires, batch, wire, polled, stats, out, dropped>>

\* Second half: look the offset up in the gate list.  enqueue_ns is kept only
\* with a frame that waits.
EnqueueJudge ==
  /\ thread["rx"].pc = "gate"
  /\ LET item == thread["rx"].item
         open == GateAt(config, item.tc, thread["rx"].offset)
     IN  thread' = [thread EXCEPT !["rx"] =
                      IF open THEN [NoThread EXCEPT !.pc = "open",
                                                    !.item = [item EXCEPT !.at = 0]]
                      ELSE [NoThread EXCEPT !.pc = "closed", !.item = item]]
  /\ UNCHANGED <<now, port, queues, wires, batch, wire, polled, stats, arrived, out, dropped>>

\* Gate open and no wire simulation.
EnqueueSend ==
  /\ thread["rx"].pc = "open"
  /\ config.port_speed_bps = 0
  /\ Send(thread["rx"].item)
  /\ Calls("rx", thread["rx"].item)
  /\ UNCHANGED <<now, port, queues, wires, batch, wire, polled, stats, arrived, dropped>>

\* Gate closed: under the lock, append to the gate queue...
EnqueueHold ==
  /\ thread["rx"].pc = "closed"
  /\ LET item == [thread["rx"].item EXCEPT !.held = TRUE]
     IN  queues' = [queues EXCEPT ![item.tc] = @ \union {item}]
  /\ Goto("rx", "count")
  /\ UNCHANGED <<now, port, wires, batch, wire, polled, stats, arrived, out, dropped>>

\* ... and count it after the lock is released.
EnqueueCount ==
  /\ thread["rx"].pc = "count"
  /\ stats' = [stats EXCEPT !.queued[thread["rx"].item.tc] = @ + 1]
  /\ Goto("rx", "idle")
  /\ UNCHANGED <<now, port, queues, wires, batch, wire, polled, arrived, out, dropped>>

-----------------------------------------------------------------------------
(***************************************************************************)
(* _drain_loop.                                                            *)
(***************************************************************************)
\* Mutant of DrainSample: an age limit in microseconds, compared with ages in
\* nanoseconds, is as good as none.
DrainSampleUnits ==
  /\ thread["drain"].pc = "idle"
  /\ running
  /\ batch' = [now |-> now, max_age |-> 0,
               use_wire |-> config.port_speed_bps > 0, ready |-> {}]
  /\ Goto("drain", "scan")
  /\ BeginRound("drain")
  /\ UNCHANGED <<now, port, queues, wires, wire, stats, arrived, out, dropped>>

\* Read the clock and the configuration before taking the lock.
DrainSample ==
  /\ thread["drain"].pc = "idle"
  /\ running
  /\ batch' = [now |-> now, max_age |-> config.cycle_us * 3,
               use_wire |-> config.port_speed_bps > 0, ready |-> {}]
  /\ Goto("drain", "scan")
  /\ BeginRound("drain")
  /\ UNCHANGED <<now, port, queues, wires, wire, stats, arrived, out, dropped>>

\* Mutant of Expired: no age limit.
ExpiredNever(tc) == {}

Expired(tc) == {i \in queues[tc] : batch.now - i.at > batch.max_age}

\* Mutant of Released: one item in each round.
ReleasedFirst(tc) ==
  {i \in queues[tc] \ Expired(tc) : /\ IsGateOpen(config, tc, batch.now)
                                   /\ \A j \in queues[tc] : i.frame <= j.frame}

Released(tc) ==
  IF IsGateOpen(config, tc, batch.now) THEN queues[tc] \ Expired(tc) ELSE {}

\* Under the lock: every expired item is dropped, open gate or not; the rest
\* of each open queue becomes the batch.
DrainScan ==
  /\ thread["drain"].pc = "scan"
  /\ queues' = [tc \in TC |-> queues[tc] \ (Expired(tc) \union Released(tc))]
  /\ batch' = [NoBatch EXCEPT !.use_wire = batch.use_wire,
                              !.ready = UNION {Released(tc) : tc \in TC}]
  /\ dropped' = dropped \union {[frame |-> i.frame, tc |-> i.tc] :
                                 i \in UNION {Expired(tc) : tc \in TC}}
  /\ stats' = [stats EXCEPT !.dropped = [tc \in TC \union RawTC |->
                 stats.dropped[tc] + (IF tc \in TC THEN Cardinality(Expired(tc)) ELSE 0)]]
  /\ Goto("drain", "batch")
  /\ UNCHANGED <<now, port, wires, wire, polled, arrived, out>>

\* ready.sort(key = enqueue_ns) is stable over a list built class by class.
Before(a, b) ==
  \/ a.at < b.at
  \/ a.at = b.at /\ a.tc < b.tc
  \/ a.at = b.at /\ a.tc = b.tc /\ a.frame <= b.frame

\* The loop over ready takes the next item.
TakeReady(item) ==
  /\ thread["drain"].pc = "batch"
  /\ item \in batch.ready
  /\ \A other \in batch.ready : Before(item, other)
  /\ batch' = [batch EXCEPT !.ready = @ \ {item}]

DrainSend(item) ==
  /\ TakeReady(item)
  /\ ~batch.use_wire
  /\ Send(item)
  /\ Calls("drain", [item EXCEPT !.at = 0])
  /\ UNCHANGED <<now, port, queues, wires, wire, polled, stats, arrived, dropped>>

DrainDone ==
  /\ thread["drain"].pc = "batch"
  /\ batch.ready = {}
  /\ batch' = NoBatch
  /\ Goto("drain", "idle")
  /\ UNCHANGED <<now, port, queues, wires, wire, polled, stats, arrived, out, dropped>>

-----------------------------------------------------------------------------
(***************************************************************************)
(* Both producers append to a wire queue with the same unlocked statements *)
(* item["seq"] = _wire_seq; append; _wire_seq += 1, the last of them a     *)
(* load and a store.                                                       *)
(***************************************************************************)
EnqueueLoadSeq ==
  /\ thread["rx"].pc = "open"
  /\ config.port_speed_bps > 0
  /\ thread' = [thread EXCEPT !["rx"] = [@ EXCEPT !.pc = "append", !.seq = wire_seq]]
  /\ UNCHANGED <<now, port, queues, wires, batch, wire, polled, stats, arrived, out, dropped>>

DrainLoadSeq(item) ==
  /\ TakeReady(item)
  /\ batch.use_wire
  /\ thread' = [thread EXCEPT !["drain"] =
                  [pc |-> "append", item |-> [item EXCEPT !.at = 0],
                   offset |-> 0, seq |-> wire_seq]]
  /\ UNCHANGED <<now, port, queues, wires, wire, polled, stats, arrived, out, dropped>>

\* Mutant of WireAppend: appendleft.
WireAppendLeft(t) ==
  /\ thread[t].pc = "append"
  /\ wire_queues' = [wire_queues EXCEPT ![thread[t].item.tc] =
                       <<[item |-> thread[t].item, seq |-> thread[t].seq]>> \o @]
  /\ Goto(t, "bump")
  /\ UNCHANGED <<now, port, queues, wire_seq, batch, wire, polled, stats, arrived, out, dropped>>

WireAppend(t) ==
  /\ thread[t].pc = "append"
  /\ wire_queues' = [wire_queues EXCEPT ![thread[t].item.tc] =
                       Append(@, [item |-> thread[t].item, seq |-> thread[t].seq])]
  /\ Goto(t, "bump")
  /\ UNCHANGED <<now, port, queues, wire_seq, batch, wire, polled, stats, arrived, out, dropped>>

BumpLoad(t) ==
  /\ thread[t].pc = "bump"
  /\ thread' = [thread EXCEPT ![t] = [@ EXCEPT !.pc = "store", !.seq = wire_seq]]
  /\ UNCHANGED <<now, port, queues, wires, batch, wire, polled, stats, arrived, out, dropped>>

BumpStore(t) ==
  /\ thread[t].pc = "store"
  /\ wire_seq' = thread[t].seq + 1
  /\ Counts(t)
  /\ UNCHANGED <<now, port, queues, wire_queues, batch, wire, polled, arrived, out, dropped>>

\* send_fn has returned.
Counted(t) ==
  /\ thread[t].pc = "sent"
  /\ Counts(t)
  /\ UNCHANGED <<now, port, queues, wires, batch, wire, polled, arrived, out, dropped>>

-----------------------------------------------------------------------------
(***************************************************************************)
(* _wire_loop: look at the head of each class in turn, take the open one   *)
(* with the smallest sequence number, hold it for its transmission time,   *)
(* then send it.  No lock is held at any point.                            *)
(***************************************************************************)
WireSample ==
  /\ wire.pc = "idle"
  /\ running /\ wire_on
  /\ wire' = [NoWire EXCEPT !.pc = "look", !.now = now]
  /\ BeginRound("wire")
  /\ UNCHANGED <<now, port, queues, wires, thread, batch, stats, arrived, out, dropped>>

WireSkip ==
  /\ wire.pc = "look" /\ wire.tc \in TC
  /\ wire_queues[wire.tc] = << >>
  /\ wire' = [wire EXCEPT !.tc = @ + 1]
  /\ UNCHANGED <<now, port, queues, wires, thread, batch, polled, stats, arrived, out, dropped>>

WireOffset ==
  /\ wire.pc = "look" /\ wire.tc \in TC
  /\ wire_queues[wire.tc] # << >>
  /\ wire' = [wire EXCEPT !.pc = "gate", !.offset = CycleOffset(config, wire.now)]
  /\ UNCHANGED <<now, port, queues, wires, thread, batch, polled, stats, arrived, out, dropped>>

\* Mutant of WireJudge: the gate is not consulted.
WireJudgeBlind ==
  /\ wire.pc = "gate"
  /\ LET better == \/ wire.best = -1
                   \/ Head(wire_queues[wire.tc]).seq < Head(wire_queues[wire.best]).seq
     IN  wire' = [wire EXCEPT !.pc = "look", !.tc = @ + 1, !.offset = 0,
                              !.best = IF better THEN wire.tc ELSE @]
  /\ UNCHANGED <<now, port, queues, wires, thread, batch, polled, stats, arrived, out, dropped>>

WireJudge ==
  /\ wire.pc = "gate"
  /\ LET better == /\ GateAt(config, wire.tc, wire.offset)
                   /\ \/ wire.best = -1
                      \/ Head(wire_queues[wire.tc]).seq < Head(wire_queues[wire.best]).seq
     IN  wire' = [wire EXCEPT !.pc = "look", !.tc = @ + 1, !.offset = 0,
                              !.best = IF better THEN wire.tc ELSE @]
  /\ UNCHANGED <<now, port, queues, wires, thread, batch, polled, stats, arrived, out, dropped>>

\* Mutant of WireTake: the frame is not removed from its queue.
WireTakePeek ==
  /\ wire.pc = "look" /\ wire.tc = NumTC
  /\ wire.best # -1
  /\ wire' = [NoWire EXCEPT !.pc = "busy", !.left = TxTicks,
                            !.item = Head(wire_queues[wire.best]).item]
  /\ UNCHANGED <<now, port, queues, wires, thread, batch, polled, stats, arrived, out, dropped>>

WireTake ==
  /\ wire.pc = "look" /\ wire.tc = NumTC
  /\ wire.best # -1
  /\ wire' = [NoWire EXCEPT !.pc = "busy", !.left = TxTicks,
                            !.item = Head(wire_queues[wire.best]).item]
  /\ wire_queues' = [wire_queues EXCEPT ![wire.best] = Tail(@)]
  /\ UNCHANGED <<now, port, queues, wire_seq, thread, batch, polled, stats, arrived, out, dropped>>

WireNothing ==
  /\ wire.pc = "look" /\ wire.tc = NumTC
  /\ wire.best = -1
  /\ wire' = NoWire
  /\ UNCHANGED <<now, port, queues, wires, thread, batch, polled, stats, arrived, out, dropped>>

\* Mutant of WireSend: the send fails and the error is swallowed.
WireSendLoses ==
  /\ wire.pc = "busy"
  /\ wire.left = 0
  /\ wire' = NoWire
  /\ UNCHANGED <<now, port, queues, wires, thread, batch, polled, stats, arrived, out, dropped>>

WireSend ==
  /\ wire.pc = "busy"
  /\ wire.left = 0
  /\ Send(wire.item)
  /\ wire' = NoWire
  /\ UNCHANGED <<now, port, queues, wires, thread, batch, polled, stats, arrived, dropped>>

-----------------------------------------------------------------------------
(***************************************************************************)
(* update_config takes the lock, so it cannot fall inside DrainScan; the   *)
(* unlocked readers see the new configuration from their next read on.     *)
(***************************************************************************)
UpdateConfig(c) ==
  /\ updates < MaxUpdates
  /\ updates' = updates + 1
  /\ config' = c
  /\ UNCHANGED <<now, running, wire_on, queues, wires, locals, stats, arrived, out, dropped>>

Stop ==
  /\ MayStop /\ running
  /\ running' = FALSE
  /\ UNCHANGED <<now, config, wire_on, updates, queues, wires, locals, stats,
                 arrived, out, dropped>>

(***************************************************************************)
(* Time.  The clock is bounded by letting LoopTo follow MaxTime: as no     *)
(* frame arrives after LastArrival, from LastArrival + 3 cycles on every   *)
(* held frame is expired and only the phase in the cycle matters; MaxTime  *)
(* and LoopTo are chosen above that and a whole number of cycles apart.    *)
(*                                                                         *)
(* With Prompt, each polling thread completes one round in every tick: the *)
(* polling period (0.1 ms) is small against the durations of a gate list.  *)
(* Without it threads are arbitrarily slow.                                *)
(***************************************************************************)
Caught ==
  /\ thread["rx"].pc = "idle"
  /\ thread["drain"].pc = "idle" /\ "drain" \in polled
  /\ wire_on => \/ wire.pc = "idle" /\ "wire" \in polled
                \/ wire.pc = "busy" /\ wire.left > 0

Tick ==
  /\ Prompt /\ running => Caught
  /\ now' = IF now = MaxTime THEN LoopTo ELSE now + 1
  /\ wire' = [wire EXCEPT !.left = IF @ > 0 THEN @ - 1 ELSE 0]
  /\ polled' = {}
  /\ UNCHANGED <<port, queues, wires, thread, batch, stats, arrived, out, dropped>>

-----------------------------------------------------------------------------
Arrival == \E tc \in RawTC : EnqueueBypass(tc) \/ EnqueueSample(tc)

EnqueueRest ==
  \/ EnqueueJudge \/ EnqueueSend \/ EnqueueHold \/ EnqueueCount
  \/ EnqueueLoadSeq \/ WireAppend("rx") \/ BumpLoad("rx") \/ BumpStore("rx")
  \/ Counted("rx")

DrainLoop ==
  \/ DrainSample \/ DrainScan \/ DrainDone
  \/ \E item \in batch.ready : DrainSend(item) \/ DrainLoadSeq(item)
  \/ WireAppend("drain") \/ BumpLoad("drain") \/ BumpStore("drain")
  \/ Counted("drain")

WireLoop ==
  \/ WireSample \/ WireSkip \/ WireOffset \/ WireJudge
  \/ WireTake \/ WireNothing \/ WireSend

Next ==
  \/ Arrival \/ EnqueueRest \/ DrainLoop \/ WireLoop
  \/ \E c \in Configs : UpdateConfig(c)
  \/ Stop
  \/ Tick

Spec == Init /\ [][Next]_vars

(***************************************************************************)
(* Fairness: the threads are scheduled and time passes.  Stopping,         *)
(* reconfiguring and the arrival of frames are nobody's duty, but enqueue  *)
(* completes once called.                                                  *)
(***************************************************************************)
FairSpec ==
  /\ Spec
  /\ WF_vars(EnqueueRest) /\ WF_vars(DrainLoop) /\ WF_vars(WireLoop)
  /\ WF_vars(Tick)

-----------------------------------------------------------------------------
RxStates == {"idle", "gate", "open", "closed", "count", "append", "bump", "store", "sent"}
DrainStates == {"idle", "scan", "batch", "append", "bump", "store", "sent"}
Pcs(t) == IF t = "rx" THEN RxStates ELSE DrainStates

PortType ==
  /\ now \in 0 .. MaxTime
  /\ config \in Configs /\ running \in BOOLEAN /\ wire_on \in BOOLEAN
  /\ updates \in 0 .. MaxUpdates

QueueType ==
  /\ queues \in [TC -> SUBSET Item]
  /\ \A tc \in TC : \A i \in queues[tc] : i.tc = tc

WireQueueType ==
  /\ wire_queues \in [TC -> Seq([item : Item, seq : Nat])]
  /\ \A tc \in TC : \A k \in DOMAIN wire_queues[tc] : wire_queues[tc][k].item.tc = tc
  /\ wire_seq \in Nat

ThreadType ==
  /\ thread \in [Producers -> [pc : RxStates \union DrainStates, item : Item,
                               offset : Nat, seq : Nat]]
  /\ \A t \in Producers :
       /\ thread[t].pc \in Pcs(t)
       /\ thread[t].item.tc \in (IF thread[t].pc = "sent" THEN TC \union RawTC ELSE TC)

BatchType ==
  /\ batch \in [now : Nat, max_age : Nat, use_wire : BOOLEAN, ready : SUBSET Item]
  /\ \A i \in batch.ready : i.tc \in TC

WireType ==
  /\ wire \in [pc : {"idle", "look", "gate", "busy"}, tc : 0 .. NumTC, now : Nat,
               offset : Nat, best : TC \union {-1}, item : Item, left : 0 .. TxTicks]
  /\ wire.pc = "gate" => wire.tc \in TC /\ wire_queues[wire.tc] # << >>
  /\ wire.best # -1 => wire_queues[wire.best] # << >>
  /\ polled \subseteq {"drain", "wire"}

StatsType ==
  stats \in [sent : [TC \union RawTC -> Nat], sent_immediate : [TC \union RawTC -> Nat],
            queued : [TC \union RawTC -> Nat], dropped : [TC \union RawTC -> Nat]]

HistoryType ==
  /\ arrived \in 0 .. NumFrames
  /\ out \in Seq([frame : Nat, tc : Nat, held : BOOLEAN])
  /\ dropped \subseteq [frame : Nat, tc : Nat]

\* Every variable has its type, and the two index facts the code relies on:
\* an item waits in the queue of its own class, and the class the wire loop is
\* about to pop has a frame (popleft would raise and end the thread).
TypeOK ==
  /\ PortType /\ QueueType /\ WireQueueType /\ ThreadType
  /\ BatchType /\ WireType /\ StatsType /\ HistoryType

-----------------------------------------------------------------------------
(***************************************************************************)
(* Where a frame is.                                                       *)
(***************************************************************************)
Locations == {<<"rx">>, <<"drain">>, <<"ready">>, <<"busy">>, <<"out">>, <<"dropped">>}
               \union ({"gate", "wire"} \X TC)

\* A producer has the frame in hand until it has put it somewhere.
InHand(t) ==
  IF thread[t].pc \in {"gate", "open", "closed", "append"}
    THEN {thread[t].item.frame} ELSE {}

FramesAt(l) ==
  CASE l = <<"rx">>      -> InHand("rx")
    [] l = <<"drain">>   -> InHand("drain")
    [] l = <<"ready">>   -> {i.frame : i \in batch.ready}
    [] l = <<"busy">>    -> IF wire.pc = "busy" THEN {wire.item.frame} ELSE {}
    [] l = <<"out">>     -> {out[k].frame : k \in DOMAIN out}
    [] l = <<"dropped">> -> {d.frame : d \in dropped}
    [] l[1] = "gate"     -> {i.frame : i \in queues[l[2]]}
    [] l[1] = "wire"     -> {wire_queues[l[2]][k].item.frame : k \in DOMAIN wire_queues[l[2]]}

NoRepeat(s, frame(_)) == \A j, k \in DOMAIN s : frame(s[j]) = frame(s[k]) => j = k
NoTwins(S) == \A a, b \in S : a.frame = b.frame => a = b

\* No frame is lost, invented, or in two places, whatever the threads do and
\* however the configuration changes under them: each frame enqueue accepted is
\* in exactly one hand, queue or transmission, or has left or been dropped
\* exactly once (enqueue, _drain_loop and _wire_loop hand frames over with the
\* lock held only for the gate queues).
Conserved ==
  /\ UNION {FramesAt(l) : l \in Locations} = 1 .. arrived
  /\ \A l, m \in Locations : l # m => FramesAt(l) \intersect FramesAt(m) = {}
  /\ NoRepeat(out, LAMBDA o : o.frame)
  /\ \A tc \in TC : NoRepeat(wire_queues[tc], LAMBDA w : w.item.frame)
  /\ \A tc \in TC : NoTwins(queues[tc])
  /\ NoTwins(batch.ready)

\* A frame of class tc that enqueue has queued and not yet counted, and one the
\* drain loop has taken from its batch and not yet counted as sent.
Counting(tc) == IF thread["rx"].pc = "count" /\ thread["rx"].item.tc = tc THEN 1 ELSE 0
Carried(tc) ==
  IF thread["drain"].pc \in {"append", "bump", "store", "sent"} /\ thread["drain"].item.tc = tc
    THEN 1 ELSE 0
InBatch(tc) == {i \in batch.ready : i.tc = tc}

\* The counters the dashboard shows balance at every moment: what was counted
\* as queued has been sent after queueing, was dropped, or is still between the
\* gate queue and the end of the drain batch.  Counters and queues are updated
\* under different locks and by different threads.
StatsBalance ==
  \A tc \in TC :
    stats.queued[tc] + Counting(tc)
      = (stats.sent[tc] - stats.sent_immediate[tc]) + stats.dropped[tc]
          + Cardinality(queues[tc]) + Cardinality(InBatch(tc)) + Carried(tc)

-----------------------------------------------------------------------------
\* A frame starts to leave, onto the wire or directly when there is no wire,
\* only while the gate of its class is open.
Starts(i) ==
  \/ wire.pc # "busy" /\ wire'.pc = "busy" /\ i = wire'.item
  \/ wire.pc # "busy" /\ Len(out') > Len(out) /\ i = out'[Len(out')]

StartsInWindow ==
  [][\A i \in {wire'.item} \union {out'[k] : k \in DOMAIN out'} :
       Starts(i) /\ config.enabled => IsGateOpen(config, i.tc, now)]_vars

\* No frame sleeps through an open window: when time moves on, the gate queue of
\* a class whose gate was open is empty.
NoSleeper ==
  [][now' # now /\ running =>
       \A tc \in TC : IsGateOpen(config, tc, now) => queues[tc] = {}]_vars

\* The age limit of three cycles only ever discards frames of a class that no
\* entry of the gate list opens: any other class is served within one cycle.
DropsOnlyShut ==
  \A d \in dropped : \A i \in DOMAIN config.gcl : d.tc \notin config.gcl[i].gates

\* Every frame leaves or is dropped in the end.
Gone(f) == f \in FramesAt(<<"out">>) \union FramesAt(<<"dropped">>)
EveryFrameGoes == \A f \in 1 .. NumFrames : arrived >= f ~> Gone(f)

=============================================================================
