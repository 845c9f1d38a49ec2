------------------------------ MODULE Messages ------------------------------
(***************************************************************************)
(* protocol/messages.py: what becomes of a message between the node that   *)
(* encodes it and the handler that BaseNode._dispatch calls.               *)
(*                                                                         *)
(* A packet is its number of bytes and the fields packed into it; a name   *)
(* is a sequence of bytes.  Numbers travel unchanged: every sequence       *)
(* number is masked to its 32 bits before it is packed.                    *)
(***************************************************************************)
EXTENDS Integers, Sequences, SequencesExt

CONSTANT IdBytes                \* 32: the bytes a packet has for a name

ASSUME IdBytesAssumption == IdBytes \in Nat \ {0}

Width(field) ==
  CASE field = "B" -> 1 [] field = "H" -> 2 [] field = "I" -> 4 [] field = "q" -> 8
    [] field = "32s" -> IdBytes

Bytes(layout) ==
  LET upTo[i \in 0 .. Len(layout)] == IF i = 0 THEN 0 ELSE upTo[i - 1] + Width(layout[i])
  IN  upTo[Len(layout)]

\* The type, the sequence number, the name of the sender.
HEADER_FMT == <<"B", "I", "32s">>

\* What follows the header.
SyncMsg == <<"q">>
FollowUpMsg == <<"q", "q">>
PdelayReqMsg == <<"q">>
PdelayRespMsg == <<"q", "q", "32s">>
PdelayRespFUMsg == <<"q", "q", "32s">>
ProbeReqMsg == <<"q">>
ProbeRespMsg == <<"q", "q", "q">>
AnnounceMsg == <<"I", "B">>
DataMsg == <<"B", "H">>         \* and the payload, as long as the "H" says

MsgType ==
  [SYNC |-> 1, FOLLOW_UP |-> 2, PDELAY_REQ |-> 3, PDELAY_RESP |-> 4,
   PDELAY_RESP_FU |-> 5, PROBE_REQ |-> 16, PROBE_RESP |-> 17, ANNOUNCE |-> 32, DATA |-> 48]

Body(type) ==
  CASE type = MsgType.SYNC -> SyncMsg
    [] type = MsgType.FOLLOW_UP -> FollowUpMsg
    [] type = MsgType.PDELAY_REQ -> PdelayReqMsg
    [] type = MsgType.PDELAY_RESP -> PdelayRespMsg
    [] type = MsgType.PDELAY_RESP_FU -> PdelayRespFUMsg
    [] type = MsgType.PROBE_REQ -> ProbeReqMsg
    [] type = MsgType.PROBE_RESP -> ProbeRespMsg
    [] type = MsgType.ANNOUNCE -> AnnounceMsg
    [] type = MsgType.DATA -> DataMsg

Types == {MsgType[name] : name \in DOMAIN MsgType}
MessageSize(type) == Bytes(HEADER_FMT \o Body(type))

-----------------------------------------------------------------------------
\* encode_node_id: cut to the bytes there are, filled up with zeros.
EncodeName(name) == [i \in 1 .. IdBytes |-> IF i <= Len(name) THEN name[i] ELSE 0]

\* decode_node_id: without the zeros at the end.
DecodeName(raw) ==
  SubSeq(raw, 1, Max({0} \union {i \in 1 .. IdBytes : raw[i] # 0}))

Packed(field, value) == IF field = "32s" THEN EncodeName(value) ELSE value
Unpacked(field, value) == IF field = "32s" THEN DecodeName(value) ELSE value

\* A message is its fields, the type first, and the length of its payload.
Encode(msg) ==
  LET layout == HEADER_FMT \o Body(msg.fields[1])
  IN  [bytes |-> Bytes(layout) + msg.payload,
       fields |-> [i \in 1 .. Len(layout) |-> Packed(layout[i], msg.fields[i])]]

Nothing == [fields |-> <<0>>, payload |-> 0]

Unpack(packet) ==
  LET type == packet.fields[1]
      layout == HEADER_FMT \o Body(type)
      rest == packet.bytes - Bytes(layout)
  IN  [fields |-> [i \in 1 .. Len(layout) |-> Unpacked(layout[i], packet.fields[i])],
       payload |-> IF type = MsgType.DATA THEN Min({rest, packet.fields[5]}) ELSE 0]

\* Mutant of Decode: only the header must be there.
DecodeHeader(packet) ==
  IF packet.bytes < Bytes(HEADER_FMT) \/ packet.fields[1] \notin Types
  THEN Nothing ELSE Unpack(packet)

\* decode_message: nothing for an unknown type and where unpack raises; what
\* follows the message is ignored, and a payload may be shorter than announced.
Decode(packet) ==
  IF packet.bytes = 0 \/ packet.fields[1] \notin Types
  THEN Nothing
  ELSE IF packet.bytes < MessageSize(packet.fields[1]) THEN Nothing ELSE Unpack(packet)

-----------------------------------------------------------------------------
NoCall == [handler |-> "none", session |-> << >>, msg |-> Nothing]

\* _dispatch: responses go to the session with the sender, if there is one;
\* nothing handles DATA.
Dispatch(packet, sessions) ==
  LET msg == Decode(packet)
      type == msg.fields[1]
      call(handler) == [handler |-> handler, session |-> << >>, msg |-> msg]
      inSession(handler) ==
        IF msg.fields[3] \in sessions
        THEN [call(handler) EXCEPT !.session = msg.fields[3]] ELSE NoCall
  IN  CASE type = MsgType.PDELAY_REQ -> call("on_req")
        [] type = MsgType.PDELAY_RESP -> inSession("on_resp")
        [] type = MsgType.PDELAY_RESP_FU -> inSession("on_resp_fu")
        [] type = MsgType.SYNC -> call("_on_sync")
        [] type = MsgType.FOLLOW_UP -> call("_on_follow_up")
        [] type = MsgType.PROBE_REQ -> call("_on_probe_req")
        [] type = MsgType.PROBE_RESP -> call("_on_probe_resp")
        [] type = MsgType.ANNOUNCE -> call("_on_announce")
        [] OTHER -> NoCall

=============================================================================
