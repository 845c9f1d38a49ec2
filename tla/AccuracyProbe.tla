--------------------------- MODULE AccuracyProbe ---------------------------
(***************************************************************************)
(* How a slave measures its error: nodes/slave.py sends a probe to the     *)
(* grand master past the switch, nodes/master.py answers with its clock.   *)
(*                                                                         *)
(* The grand master's clock is true time.  A message is delivered ProbeMin *)
(* to ProbeMax after it was sent, in any order, or never, or several times.*)
(* The servo may step the slave's clock at any instant.                    *)
(***************************************************************************)
EXTENDS Integers

CONSTANTS
  ProbeMin, ProbeMax,   \* delays of a message
  ProbeInterval,        \* probe_interval_ms
  StartDelay,           \* _probe_loop sleeps 3 s before its first probe
  ProbeLife,            \* age at which a probe is forgotten (10 s)
  Aheads,               \* offsets of the slave's clock
  Busy,                 \* bound: longest time between two readings of a clock
  LastProbe,            \* bound: probes of one life of the slave
  MaxInstant            \* bound: largest instant

ASSUME ProbeAssumption ==
  /\ ProbeMin \in Nat /\ ProbeMax \in Nat /\ ProbeMin <= ProbeMax
  /\ ProbeInterval \in Nat \ {0} /\ ProbeLife \in Nat /\ Busy \in Nat
  /\ LastProbe \in Nat /\ MaxInstant \in Nat
  /\ Aheads \subseteq Int /\ 0 \in Aheads
  \* A restarted slave probes only when the answers to its old probes are gone.
  /\ StartDelay \in Nat /\ StartDelay > 2 * ProbeMax + Busy

VARIABLES
  instant,        \* true time
  ahead,          \* the slave's clock less true time
  lives,          \* restarts of the slave, a ghost
  probe_seq, probe_pending, due,
  probes,         \* requests and responses under way
  sample          \* the sample just taken, a ghost for the properties

probeVars == <<instant, ahead, lives, probe_seq, probe_pending, due, probes, sample>>

NoSample ==
  [error |-> 0, delay |-> 0, ahead |-> 0, step |-> 0, late |-> 0]

ProbeInit ==
  /\ instant = 0 /\ ahead = 0 /\ lives = 0
  /\ probe_seq = 0 /\ probe_pending = << >> /\ due = StartDelay
  /\ probes = {} /\ sample = NoSample

Due(m) == instant - m.at \in ProbeMin .. ProbeMax

\* _probe_loop: note the time, forget what is old, send the probe, sleep.
SendProbe ==
  /\ instant >= due /\ probe_seq < LastProbe
  /\ LET t1 == instant + ahead
         all == [s \in DOMAIN probe_pending \union {probe_seq} |->
                   IF s = probe_seq THEN t1 ELSE probe_pending[s]]
     IN  /\ probe_pending' = [s \in {s \in DOMAIN all : t1 - all[s] <= ProbeLife} |-> all[s]]
         /\ probes' = probes \union
              {[type |-> "req", seq |-> probe_seq, at |-> instant,
                ahead |-> ahead, t2 |-> 0, t3 |-> 0]}
  /\ probe_seq' = probe_seq + 1
  /\ due' = instant + ProbeInterval
  /\ UNCHANGED <<instant, ahead, lives, sample>>

\* GrandMaster._on_probe_req; its clock is read twice.
OnProbeReq(m) ==
  /\ m.type = "req" /\ Due(m)
  /\ \E t3 \in instant .. instant + Busy :
       probes' = probes \union
         {[m EXCEPT !.type = "resp", !.at = t3, !.t2 = instant, !.t3 = t3]}
  /\ UNCHANGED <<instant, ahead, lives, probe_seq, probe_pending, due, sample>>

PathDelay(t1, t2, t3, t4) == (t4 - t1 - (t3 - t2)) \div 2

\* Slave._on_probe_resp: t4 is read first, the clock of the error `late` after it.
OnProbeResp(m) ==
  /\ m.type = "resp" /\ Due(m)
  /\ m.seq \in DOMAIN probe_pending
  /\ \E late \in 0 .. Busy :
       LET t4 == instant + ahead
           delay == PathDelay(probe_pending[m.seq], m.t2, m.t3, t4)
       IN  sample' = [error |-> t4 + late - (m.t3 + delay), delay |-> delay,
                      ahead |-> ahead, step |-> ahead - m.ahead, late |-> late]
  /\ probe_pending' = [s \in DOMAIN probe_pending \ {m.seq} |-> probe_pending[s]]
  /\ UNCHANGED <<instant, ahead, lives, probe_seq, due, probes>>

\* LocalClock.adjust, called from the receive thread.
StepClock ==
  /\ ahead' \in Aheads \ {ahead}
  /\ UNCHANGED <<instant, lives, probe_seq, probe_pending, due, probes, sample>>

\* Mutant of RestartSlave: the first probe is sent at once.
RestartSlaveHot ==
  /\ lives = 0
  /\ lives' = 1
  /\ probe_seq' = 0 /\ probe_pending' = << >> /\ due' = instant
  /\ UNCHANGED <<instant, ahead, probes, sample>>

\* The process is started again: its memory is gone, what it sent is not.
RestartSlave ==
  /\ lives = 0
  /\ lives' = 1
  /\ probe_seq' = 0 /\ probe_pending' = << >> /\ due' = instant + StartDelay
  /\ UNCHANGED <<instant, ahead, probes, sample>>

ProbeTick ==
  /\ instant < MaxInstant
  /\ instant' = instant + 1
  /\ probes' = {m \in probes : instant + 1 - m.at <= ProbeMax}
  /\ sample' = NoSample
  /\ UNCHANGED <<ahead, lives, probe_seq, probe_pending, due>>

ProbeNext ==
  \/ SendProbe \/ StepClock \/ RestartSlave \/ ProbeTick
  \/ \E m \in probes : OnProbeReq(m) \/ OnProbeResp(m)

-----------------------------------------------------------------------------
\* The error of a sample is the slave's error but for the time the handler took
\* between its two readings, and for half of what the two ways of the probe, and
\* the clock at their ends, differ by: the number of the probe never pairs an
\* answer with another probe (Slave._on_probe_resp ignores t1_echo_ns).
ErrorTrue ==
  LET twice == 2 * (sample.error - sample.ahead - sample.late) + sample.step
  IN  sample # NoSample => twice \in ProbeMin - ProbeMax .. ProbeMax - ProbeMin + 1

=============================================================================
