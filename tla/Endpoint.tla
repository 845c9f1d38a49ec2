------------------------------ MODULE Endpoint ------------------------------
(***************************************************************************)
(* The way of an application's frame into the switch: endpoint/agent.py    *)
(* classifies an Ethernet frame and wraps it in a tunnel frame             *)
(* (protocol/tunnel.py), nodes/switch.py unwraps it and hands it to the    *)
(* engines of its ports, to every endpoint, or to nobody; and out of the   *)
(* tunnel again at the endpoint that receives it.                          *)
(*                                                                         *)
(* A frame is its length and the fields that are looked at: the EtherType, *)
(* the byte after the first of the IP header, and the VLAN tag.            *)
(***************************************************************************)
EXTENDS TASConfig

ETHERTYPE_GPTP == 35063         \* 0x88F7
ETHERTYPE_DATA == 2048          \* 0x0800
ETHERTYPE_VLAN == 33024         \* 0x8100

\* Of a word, the field that counts in units of `unit` and has `values` values.
Field(word, unit, values) == (word \div unit) % values

\* Mutant of ClassOfDSCP: each class begins one code point later.
ClassOfDSCPLate(dscp) ==
  IF dscp > 46 THEN 3 ELSE IF dscp > 18 THEN 2 ELSE IF dscp > 8 THEN 1 ELSE 0

ClassOfDSCP(dscp) ==
  IF dscp >= 46 THEN 3 ELSE IF dscp >= 18 THEN 2 ELSE IF dscp >= 8 THEN 1 ELSE 0

AtMost3(n) == IF n > 3 THEN 3 ELSE n

\* _extract_tc_from_frame.
ClassOf(frame) ==
  CASE frame.len < 14 -> 0
    [] frame.len >= 14 /\ frame.ethertype = ETHERTYPE_GPTP -> 3
    [] frame.len >= 16 /\ frame.ethertype = ETHERTYPE_VLAN ->
         AtMost3(Field(frame.tag, 8192, 8) \div 2)
    [] frame.len >= 23 /\ frame.ethertype = ETHERTYPE_DATA ->
         ClassOfDSCP(Field(frame.tos, 4, 64))
    [] OTHER -> 0

\* _send_to_switch: _get_ethertype, and the header with tc & 0xFF.
Tunnelled(frame) ==
  [ethertype |-> IF frame.len < 14 THEN 0 ELSE frame.ethertype,
   tc |-> ClassOf(frame) % 256,
   payload |-> frame]

\* send_data: a frame with the code point of the class.
DataFrame(tc, size) ==
  LET dscp == CASE tc = 1 -> 8 [] tc = 2 -> 18 [] tc = 3 -> 46 [] OTHER -> 0
  IN  [len |-> 14 + 20 + size, ethertype |-> ETHERTYPE_DATA, tos |-> dscp * 4, tag |-> 0]

\* send_gptp.
GPTPFrame(size) ==
  [len |-> 14 + size, ethertype |-> ETHERTYPE_GPTP, tos |-> 0, tag |-> 0]

\* VirtualSwitch._handle_tunnel_frame, with the clamp of the engine's enqueue.
Routed(tunnelled) ==
  CASE tunnelled.ethertype = ETHERTYPE_GPTP -> [to |-> "every endpoint", tc |-> 0]
    [] tunnelled.ethertype = ETHERTYPE_DATA -> [to |-> "every port", tc |-> Clamp(tunnelled.tc)]
    [] OTHER -> [to |-> "nobody", tc |-> 0]

\* EndpointAgent._handle_tunnel_frame, given what the switch sends on unchanged:
\* with a TAP the frame goes to the host, without one to the handler of its kind.
Received(tunnelled, tap_mode) ==
  CASE tap_mode -> [to |-> "tap", frame |-> tunnelled.payload]
    [] ~tap_mode /\ tunnelled.ethertype = ETHERTYPE_GPTP ->
         [to |-> "gptp_handler", frame |-> tunnelled.payload]
    [] ~tap_mode /\ tunnelled.ethertype = ETHERTYPE_DATA ->
         [to |-> "data_handler", frame |-> tunnelled.payload, tc |-> tunnelled.tc]
    [] OTHER -> [to |-> "nobody"]

-----------------------------------------------------------------------------
\* A frame that an application sends in a class reaches the ports of the switch
\* in this class, or in the highest one they have, and leaves the tunnel in it:
\* the code points that send_data writes, the agent's thresholds, the tunnel's
\* byte and the clamp of the engine agree.  Anything that is no class of the agent
\* becomes class 0.
KeepsClass(tc, size) ==
  LET class == IF tc \in 0 .. 3 THEN tc ELSE 0
      frame == DataFrame(tc, size)
      tunnelled == Tunnelled(frame)
  IN  /\ Routed(tunnelled) = [to |-> "every port", tc |-> Clamp(class)]
      /\ Received(tunnelled, FALSE) = [to |-> "data_handler", frame |-> frame, tc |-> class]
      /\ Received(tunnelled, TRUE) = [to |-> "tap", frame |-> frame]

=============================================================================
