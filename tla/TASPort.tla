------------------------------- MODULE TASPort -------------------------------
(***************************************************************************)
(* TASEngine as an EgressPort: a frame is inside while it is in the hand   *)
(* of a thread, in a queue or on the wire.                                 *)
(***************************************************************************)
EXTENDS TASEngine

Outer(i) == [frame |-> i.frame, tc |-> i.tc, held |-> i.held]

\* Items in the hand of a producer, waiting at a gate, for the wire, and on it.
Hand(t) == IF InHand(t) # {} THEN {thread[t].item} ELSE {}
GateItems == UNION {queues[tc] : tc \in TC}
WireItemsOf(tc) == {wire_queues[tc][k].item : k \in DOMAIN wire_queues[tc]}
WireItems == UNION {WireItemsOf(tc) : tc \in TC}
BusyItems == IF wire.pc = "busy" THEN {wire.item} ELSE {}

Items == UNION {Hand("rx"), Hand("drain"), batch.ready, GateItems, WireItems, BusyItems}

Inside == {Outer(i) : i \in Items}

Port == INSTANCE EgressPort WITH
          Classes <- TC \union RawTC,
          fixed <- (updates = 0),
          accepted <- arrived,
          waiting <- Inside,
          left <- out,
          discarded <- {d.frame : d \in dropped}

\* Every step of the three threads is a step of the abstract port or invisible
\* to it: a frame leaves or is dropped, and that once, and, until the
\* configuration is changed, a frame is passed within its class only while it is
\* held, by one that found its gate open.
\* (After a change a frame may pass those that wait for a wire given up.)
PortSpec == Port!Spec

=============================================================================
