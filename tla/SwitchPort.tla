------------------------------ MODULE SwitchPort ------------------------------
(***************************************************************************)
(* One egress port as nodes/switch.py builds it: a TAS engine whose send_fn*)
(* is check_and_send of a CBS engine, whose send_fn is the tunnel socket.  *)
(* The three threads of the TAS engine are the callers of the CBS engine,  *)
(* and each is inside the call until check_and_send returns.  The          *)
(* configurations are fixed.                                               *)
(*                                                                         *)
(* The CBS engine numbers the frames as it gets hold of them; `relayed`    *)
(* says which frame of the TAS engine each of its numbers is.              *)
(***************************************************************************)
EXTENDS TASPort, SequencesExt

CONSTANTS CBSConfigs, MaxQueueDepth, Sizes, ElapsedCap    \* as in CBSEngine

VARIABLES
  cbs_config, cbs_running, cbs_updates, cbs_queues, credits, event, caller,
  cbs_drain, elapsed, cbs_stats, cbs_arrived, sent, refused, level,
  hand,         \* the frame each thread called check_and_send with
  relayed

cbsvars == <<cbs_config, cbs_running, cbs_updates, cbs_queues, credits, event, caller,
             cbs_drain, elapsed, cbs_stats, cbs_arrived, sent, refused, level>>
portvars == <<vars, cbsvars, hand, relayed>>

Threads == {"rx", "drain", "wire"}

CBS == INSTANCE CBSPort WITH
  Configs <- CBSConfigs, Callers <- Threads,
  config <- cbs_config, running <- cbs_running, updates <- cbs_updates,
  queues <- cbs_queues, drain <- cbs_drain, stats <- cbs_stats,
  arrived <- cbs_arrived, out <- sent, dropped <- refused

ASSUME ShaperAssumption ==
  /\ CBSConfigs \subseteq CBS!Config
  /\ MaxQueueDepth \in Nat
  /\ Sizes \subseteq Nat \ {0} /\ Sizes # {}
  /\ ElapsedCap \in Nat

PortInit ==
  /\ Init /\ CBS!Init
  /\ hand = [t \in Threads |-> [frame |-> 0, tc |-> 0, held |-> FALSE]]
  /\ relayed = << >>

\* Thread t of the TAS engine is not inside check_and_send.
Free(t) == caller[t].pc = "idle"

\* Mutant of HandOver: the frame is handed over under another class.
HandOverMixed(t) ==
  IF out' = out THEN UNCHANGED <<cbsvars, hand, relayed>>
  ELSE /\ \E tc \in TC, ticks \in Sizes : CBS!CallStart(t, tc, ticks)
       /\ hand' = [hand EXCEPT ![t] = Last(out')]
       /\ UNCHANGED relayed

\* A step that calls the TAS engine's send_fn starts check_and_send.
HandOver(t) ==
  IF out' = out THEN UNCHANGED <<cbsvars, hand, relayed>>
  ELSE /\ \E ticks \in Sizes : CBS!CallStart(t, Last(out').tc, ticks)
       /\ hand' = [hand EXCEPT ![t] = Last(out')]
       /\ UNCHANGED relayed

Rx == Free("rx") /\ (Arrival \/ EnqueueRest) /\ HandOver("rx")
Drain == Free("drain") /\ DrainLoop /\ HandOver("drain")
Wire == Free("wire") /\ WireLoop /\ HandOver("wire")

\* check_and_send goes on in thread t.
Call(t) ==
  /\ CBS!CallRest(t)
  /\ relayed' = IF cbs_arrived' > cbs_arrived THEN Append(relayed, hand[t]) ELSE relayed
  /\ UNCHANGED <<vars, hand>>

CBSDrain == CBS!DrainLoop /\ UNCHANGED <<vars, hand, relayed>>

\* A prompt thread of the TAS engine returns from check_and_send within the tick.
PortTick ==
  /\ Prompt => \A t \in Threads : Free(t)
  /\ Tick /\ CBS!Tick
  /\ UNCHANGED <<hand, relayed>>

PortNext ==
  \/ Rx \/ Drain \/ Wire
  \/ \E t \in Threads : Call(t)
  \/ CBSDrain
  \/ PortTick

SwitchSpec == PortInit /\ [][PortNext]_portvars

-----------------------------------------------------------------------------
\* Frames inside check_and_send or the CBS engine.
Behind ==
  {hand[t] : t \in {c \in Threads : caller[c].pc \in {"check", "bypass", "shaped"}}}
    \union {relayed[i.frame] : i \in CBS!Inside}

Through == INSTANCE EgressPort WITH
  Classes <- TC \union RawTC,
  fixed <- (updates = 0),
  accepted <- arrived,
  waiting <- Inside \union Behind,
  left <- [k \in DOMAIN sent |-> relayed[sent[k].frame]],
  discarded <- {d.frame : d \in dropped} \union {relayed[f].frame : f \in refused}

\* The two engines in series still are an egress port: whichever of the six
\* queues and four threads a frame goes through, it leaves the switch at most
\* once or is discarded, and within its class it is passed only while the TAS
\* engine holds it back.
EndToEnd == Through!Spec

\* The counters of the two engines agree: what the TAS engine counts as sent has
\* been counted by the CBS engine as sent or dropped, or is still on the virtual
\* wire or in a call of the wire loop.  Each engine counts after it has let go of the
\* frame, so a frame the CBS engine has counted may still have to be counted by the
\* TAS engine.  (The TAS engine, when it is disabled, counts under the class
\* received, which the CBS engine clamps.)
Bumping(tc) ==
  {t \in Producers : thread[t].pc \in {"bump", "store", "sent"} /\ thread[t].item.tc = tc}
OnWire(tc) == IF wire.pc = "busy" /\ wire.item.tc = tc THEN 1 ELSE 0
Calling(tc) == {t \in Threads : ~Free(t) /\ hand[t].tc = tc}

Uncounted(tc) ==
  Len(wire_queues[tc]) - Cardinality(Bumping(tc)) + OnWire(tc) + Cardinality(Calling(tc))

CountersAgree ==
  config.enabled \/ RawTC \subseteq TC =>
    \A tc \in TC : stats.sent[tc] = cbs_stats.sent[tc] + cbs_stats.dropped[tc] + Uncounted(tc)

\* The gates hold for what the CBS engine does not hold back: without a wire, a
\* frame of an unshaped class leaves the switch while its gate is open.  (A frame
\* of a shaped class may have left its window when its credit lets it go.)
UnshapedInWindow ==
  [][Len(sent') > Len(sent) /\ ~Last(sent').held
       /\ config.enabled /\ config.port_speed_bps = 0
       => IsGateOpen(config, Last(sent').tc, now)]_portvars

=============================================================================
