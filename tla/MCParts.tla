------------------------------ MODULE MCParts ------------------------------
(***************************************************************************)
(* Checks the parts that depend on no other: the gate computation of       *)
(* TASConfig against a reference definition, the way of a frame through    *)
(* Endpoint, messages, percentiles, the clock servo, accuracy probes, the  *)
(* reports to the dashboard and the drift log.  A behaviour exercises one  *)
(* part and leaves the variables of the others alone.                      *)
(***************************************************************************)
EXTENDS Endpoint, ClockServo, Messages, Metrics, AccuracyProbe, NodeReports, DriftLog

CONSTANTS
  MaxEntries, MaxDuration, BaseTimes,   \* bounds of the gate control lists
  LastInstant,                          \* bound: largest instant
  PayloadSizes,                         \* of the frames
  Values                                \* lists of measured offsets

ASSUME PartsAssumption ==
  /\ MaxEntries \in Nat /\ MaxDuration \in Nat /\ LastInstant \in Nat
  /\ BaseTimes \subseteq Int /\ PayloadSizes \subseteq Nat
  /\ Values \subseteq Seq(Int)
  /\ IdBytes >= 2               \* room for the names that Value gives

VARIABLES
  part,
  cfg, now,     \* gate: a configuration and an instant
  input         \* frame, message, metrics: what goes in

own == <<part, cfg, now, input>>
vars == <<own, servo, probeVars, reportVars, logVars>>

Lists == BoundedSeq([gates : SUBSET TC, duration_us : 0 .. MaxDuration], MaxEntries)

Candidates ==
  {[gcl |-> l, cycle_us |-> c, base_time_ns |-> b] :
     l \in Lists, c \in 0 .. MaxEntries * MaxDuration, b \in BaseTimes}

SomeStarts == -45 .. 45
SomeDrifts == {-3, 0, 1}
SomeErrors == -1 .. 1
SomeAheads == {0, 3}
SomeReported == {-3, 7}

\* Names up to one byte longer than a packet has for them; whom a node knows.
Names == BoundedSeq({1, 2}, IdBytes + 1) \ {<< >>}
Peers == {<<1>>, <<1, 2>>, <<1, 2, 2>>}

Value(field, choice) == IF field = "32s" THEN << <<1>>, <<2, 1>> >>[choice] ELSE 3 * choice

\* Every message of every sender, cut after any number of bytes or followed by
\* one more.
MessageOf(type, name, choices) ==
  [fields |-> <<type, 5, name>> \o [i \in DOMAIN choices |-> Value(Body(type)[i], choices[i])],
   payload |-> IF type = MsgType.DATA THEN Value("H", choices[2]) ELSE 0]

SomeMessages ==
  UNION {{MessageOf(type, name, choices) :
            name \in Names, choices \in [1 .. Len(Body(type)) -> {1, 2}]} : type \in Types}

Arrivals ==
  UNION {{[msg |-> msg, kept |-> kept] : kept \in 0 .. Encode(msg).bytes + 1} :
           msg \in SomeMessages}

\* Short lists, and lists as long as a percentile needs to differ from its neighbours.
SomeValues ==
  BoundedSeq({-2, 0, 1}, 4)
    \union {[i \in 1 .. n |-> ((7 * i) % n) - (n \div 2)] : n \in 5 .. 101}

NoConfig == [gcl |-> << >>, cycle_us |-> 1, base_time_ns |-> 0]
ServoOff ==
  /\ offset = 0 /\ integral = 0 /\ syncs = 0 /\ synced = FALSE /\ drift = 0 /\ start = 0

Init ==
  /\ now = 0
  /\ ProbeInit /\ ReportInit /\ LogInit
  /\ \/ part = "gate" /\ cfg \in {c \in Candidates : Validate(c)} /\ input = << >> /\ ServoOff
     \/ /\ cfg = NoConfig /\ ServoOff
        /\ \/ part = "frame" /\ input \in [tc : -1 .. 5, size : PayloadSizes]
           \/ part = "message" /\ input \in Arrivals
           \/ part = "metrics" /\ input \in Values
           \/ part \in {"probe", "reports", "log"} /\ input = << >>
     \/ part = "servo" /\ cfg = NoConfig /\ input = << >> /\ ServoInit

Pass ==
  /\ part = "gate" /\ now < LastInstant
  /\ now' = now + 1
  /\ UNCHANGED <<part, cfg, input, servo, probeVars, reportVars, logVars>>

Sync == part = "servo" /\ FollowUp /\ UNCHANGED <<own, probeVars, reportVars, logVars>>

Probe == part = "probe" /\ ProbeNext /\ UNCHANGED <<own, servo, reportVars, logVars>>

Reports == part = "reports" /\ ReportNext /\ UNCHANGED <<own, servo, probeVars, logVars>>

Log == part = "log" /\ LogNext /\ UNCHANGED <<own, servo, probeVars, reportVars>>

Next == Pass \/ Sync \/ Probe \/ Reports \/ Log

\* The Syncs keep coming.
Spec == Init /\ [][Next]_vars /\ WF_vars(Sync)

-----------------------------------------------------------------------------
\* A class is open at an instant exactly when the written-out cycle, repeated
\* forever from the base time (also backwards), says so: no instant falls
\* between two entries, into two of them, or past the end of the list
\* (TASEngine._is_gate_open, whose loop would answer "closed" there).
GateFollowsTimeline == part = "gate" => FollowsTimeline(cfg, now)

\* Every frame an application sends keeps its class (EndpointAgent.send_data to
\* EndpointAgent._handle_tunnel_frame).
ClassKept == part = "frame" => KeepsClass(input.tc, input.size)

\* A message is handled as it was sent or not at all.  A whole one reaches its
\* handler, and a response the session with its sender, unless the node has none
\* (nothing handles DATA); one that was cut reaches nobody, whatever type and
\* number its remains show (decode_message, BaseNode._dispatch).  The names are
\* those a packet has room for; of longer ones the session is never found.
Understood ==
  part = "message" =>
    LET msg == input.msg
        sender == msg.fields[3]
        packet == Encode(msg)
        got == Dispatch([packet EXCEPT !.bytes = input.kept], Peers)
        response == msg.fields[1] \in {MsgType.PDELAY_RESP, MsgType.PDELAY_RESP_FU}
        heard == /\ input.kept >= packet.bytes /\ msg.fields[1] # MsgType.DATA
                 /\ response => sender \in Peers
    IN  Len(sender) <= IdBytes =>
          /\ heard <=> got # NoCall
          /\ heard => got.msg = msg /\ got.session = IF response THEN sender ELSE << >>

\* Of all values, at most p in a hundred are below the reported percentile, and at
\* least p in a hundred are not above it.
Quantile(values, value, p) ==
  LET below == {i \in DOMAIN values : values[i] < value}
      notAbove == {i \in DOMAIN values : values[i] <= value}
  IN  /\ 100 * Cardinality(below) <= p * Len(values)
      /\ 100 * Cardinality(notAbove) >= p * Len(values)

\* The percentiles that the endpoint and the drift log report are percentiles, for
\* every number of samples: the product cut to an index is neither one too low
\* nor one too high, and in the list (AccuracyTracker.report, DriftLogger._stats).
Percentiles ==
  part = "metrics" =>
    LET report == Report(input)
        stats == Stats(input)
    IN  /\ report # NoReport =>
             /\ Quantile(Absolute(input), report.p95, 95)
             /\ Quantile(Absolute(input), report.p99, 99)
        /\ stats # NoReport =>
             /\ Quantile(input, stats.p50, 50)
             /\ Quantile(input, stats.p95, 95)
             /\ Quantile(input, stats.p99, 99)

\* The servo's clock settles, from any start of up to four and a half of its steps.
ServoSettles == part = "servo" => Settles

=============================================================================
