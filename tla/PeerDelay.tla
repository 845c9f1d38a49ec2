------------------------------ MODULE PeerDelay ------------------------------
(***************************************************************************)
(* protocol/peer_delay.py: one PeerDelaySession ("init") and the           *)
(* PeerDelayResponder of its peer ("resp"), each with a LocalClock that    *)
(* the gPTP servo of its node may step, over UDP.                          *)
(*                                                                         *)
(* A message in the net can be delivered at any moment from MinDelay to    *)
(* MaxDelay after its sender read the clock, once, more than once or       *)
(* never, and in any order: delivering leaves it in the net, time removes  *)
(* it.                                                                     *)
(***************************************************************************)
EXTENDS DelayFilter

CONSTANTS
  Epoch,        \* reading of an unadjusted clock at the start
  Interval,     \* interval_s
  PendingLife,  \* age at which a pending request is forgotten (10 s)
  SeqMod,       \* number of sequence numbers (2^32)
  MinDelay, MaxDelay, \* delays of messages the net does not lose
  Steps,        \* steps the servo can make a clock take
  MaxAdjusted,  \* bound: sum of the sizes of all steps
  MaxRestarts,  \* bound: restarts of the initiator
  MaxTime       \* bound: largest instant

ASSUME PeerDelayAssumption ==
  /\ MaxAdjusted \in Nat /\ Epoch \in Nat /\ Epoch > MaxAdjusted
  /\ Interval \in Nat \ {0} /\ PendingLife \in Nat /\ SeqMod \in Nat \ {0}
  /\ MinDelay \in Nat /\ MaxDelay \in Nat /\ MinDelay <= MaxDelay
  /\ Steps \subseteq Int
  /\ MaxRestarts \in Nat /\ MaxTime \in Nat
  /\ MaxTime < Interval * SeqMod      \* no session uses up its 2^32 numbers

VARIABLES
  now,          \* true time
  offset,       \* offset_ns of the two clocks
  running,      \* _running of the session
  next_req,     \* when the sleep between two requests ends
  seq_id, pending, samples,
  responder,    \* the request on_req is answering, or NoRequest
  net,          \* messages sent and not older than MaxDelay
  adjusted,     \* sum of the sizes of the steps so far
  restarts,
  sources,      \* request each sample came from
  reused        \* numbers in flight when a restart began to reuse them

session == <<running, next_req, seq_id, pending>>
filter == <<samples, sources>>
ghosts == <<adjusted, restarts, reused>>
vars == <<now, offset, session, filter, responder, net, ghosts>>

Nodes == {"init", "resp"}
NoRequest == -1
Clock(n) == Epoch + now + offset[n]
Size(k) == IF k < 0 THEN -k ELSE k

Deliverable(m) == m \in net /\ now - m.at >= MinDelay

Init ==
  /\ now = 0
  /\ offset = [n \in Nodes |-> 0]
  /\ running = TRUE
  /\ next_req = 0 /\ seq_id = 0 /\ pending = << >>
  /\ samples = << >> /\ sources = << >>
  /\ responder = NoRequest
  /\ net = {}
  /\ adjusted = 0 /\ restarts = 0 /\ reused = {}

-----------------------------------------------------------------------------
\* Mutant of Recent: nothing is ever forgotten.
RecentAll(entries, t1) == entries

\* Entries not forgotten at time t1.
Recent(entries, t1) ==
  Restrict(entries, {s \in DOMAIN entries : entries[s].t1 >= t1 - PendingLife})

\* _send_req.  t2 is 0 until the response is in (no clock reads 0).
SendReq ==
  /\ running /\ now >= next_req
  /\ LET t1 == Clock("init")
     IN  pending' = Recent([s \in DOMAIN pending \union {seq_id} |->
                              IF s = seq_id THEN [t1 |-> t1, t2 |-> 0] ELSE pending[s]], t1)
  /\ seq_id' = (seq_id + 1) % SeqMod
  /\ next_req' = now + Interval
  /\ net' = net \union {[type |-> "req", seq |-> seq_id, at |-> now, t |-> 0]}
  /\ UNCHANGED <<now, offset, running, filter, responder, ghosts>>

\* PeerDelayResponder.on_req: read t2, send the response...
OnReq(m) ==
  /\ responder = NoRequest
  /\ Deliverable(m) /\ m.type = "req"
  /\ net' = net \union {[type |-> "resp", seq |-> m.seq, at |-> now, t |-> Clock("resp")]}
  /\ responder' = m.seq
  /\ UNCHANGED <<now, offset, session, filter, ghosts>>

\* ... then read t3, send the follow-up.
SendFollowUp ==
  /\ responder # NoRequest
  /\ net' = net \union {[type |-> "fu", seq |-> responder, at |-> now, t |-> Clock("resp")]}
  /\ responder' = NoRequest
  /\ UNCHANGED <<now, offset, session, filter, ghosts>>

OnResp(m) ==
  /\ Deliverable(m) /\ m.type = "resp"
  /\ m.seq \in DOMAIN pending
  /\ pending' = [pending EXCEPT ![m.seq].t2 = m.t]
  /\ UNCHANGED <<now, offset, running, next_req, seq_id, filter, responder, net, ghosts>>

\* Mutant of MeasuredDelay: the round trip is not halved.
MeasuredDelayRoundTrip(t1, t2, t3, t4) == (t4 - t1) - (t3 - t2)

MeasuredDelay(t1, t2, t3, t4) == ((t4 - t1) - (t3 - t2)) \div 2

\* on_resp_fu; a follow-up without a response before it changes nothing.
OnRespFU(m) ==
  /\ Deliverable(m) /\ m.type = "fu"
  /\ m.seq \in DOMAIN pending /\ pending[m.seq].t2 # 0
  /\ LET entry == pending[m.seq]
         delay == MeasuredDelay(entry.t1, entry.t2, m.t, Clock("init"))
     IN  /\ samples' = Add(samples, delay)
         /\ sources' = IF delay > 0 THEN Last(Append(sources, m.seq), Window) ELSE sources
  /\ pending' = Restrict(pending, DOMAIN pending \ {m.seq})
  /\ UNCHANGED <<now, offset, running, next_req, seq_id, responder, net, ghosts>>

-----------------------------------------------------------------------------
\* LocalClock.adjust, called by the gPTP servo of the node.
Adjust(n, k) ==
  /\ adjusted + Size(k) <= MaxAdjusted
  /\ offset' = [offset EXCEPT ![n] = @ + k]
  /\ adjusted' = adjusted + Size(k)
  /\ UNCHANGED <<now, session, filter, responder, net, restarts, reused>>

\* The initiator's process starts again, counting from zero; old messages are
\* still under way.
Restart ==
  /\ restarts < MaxRestarts
  /\ restarts' = restarts + 1
  /\ running' = TRUE /\ next_req' = now /\ seq_id' = 0 /\ pending' = << >>
  /\ samples' = << >> /\ sources' = << >>
  /\ offset' = [offset EXCEPT !["init"] = 0]
  /\ reused' = reused \union {m.seq : m \in net} \union ({responder} \ {NoRequest})
  /\ UNCHANGED <<now, responder, net, adjusted>>

Stop ==
  /\ running
  /\ running' = FALSE
  /\ UNCHANGED <<now, offset, next_req, seq_id, pending, filter, responder, net, ghosts>>

\* Time passes; both nodes may be arbitrarily slow.
Tick ==
  /\ now < MaxTime
  /\ now' = now + 1
  /\ net' = {m \in net : now + 1 - m.at <= MaxDelay}
  /\ UNCHANGED <<offset, session, filter, responder, ghosts>>

\* _dispatch, by the type of the message.
Dispatch(m) == OnReq(m) \/ OnResp(m) \/ OnRespFU(m)

Next ==
  \/ SendReq \/ SendFollowUp
  \/ \E m \in net : Dispatch(m)
  \/ \E n \in Nodes, k \in Steps : Adjust(n, k)
  \/ Restart \/ Stop \/ Tick

Spec == Init /\ [][Next]_vars

-----------------------------------------------------------------------------
Message == [type : {"req", "resp", "fu"}, seq : 0 .. SeqMod - 1, at : Nat, t : Nat]

TypeOK ==
  /\ now \in 0 .. MaxTime
  /\ offset \in [Nodes -> Int]
  /\ running \in BOOLEAN /\ next_req \in Nat /\ seq_id \in 0 .. SeqMod - 1
  /\ DOMAIN pending \subseteq 0 .. SeqMod - 1
  /\ \A s \in DOMAIN pending : pending[s] \in [t1 : Nat \ {0}, t2 : Nat]
  /\ samples \in Seq(Nat \ {0}) /\ sources \in Seq(0 .. SeqMod - 1)
  /\ Len(samples) = Len(sources) /\ Len(samples) <= Window
  /\ responder \in 0 .. SeqMod - 1 \union {NoRequest}
  /\ net \subseteq Message
  /\ adjusted \in 0 .. MaxAdjusted /\ restarts \in 0 .. MaxRestarts
  /\ reused \subseteq 0 .. SeqMod - 1

\* A delay the path can have, give or take half of what the clocks were stepped.
Plausible(delay) ==
  2 * delay >= 2 * MinDelay - adjusted - 1 /\ 2 * delay <= 2 * MaxDelay + adjusted

\* Every sample is a delay of the path, however the messages of an exchange were
\* lost, duplicated, delayed or reordered: on_resp and on_resp_fu may combine t2
\* and t3 of different answers to one request, and each still measures a genuine
\* one-way delay.  Only a restart can break it, which reuses sequence numbers,
\* and only for the numbers of messages then in flight.
SamplesGenuine ==
  \A i \in DOMAIN samples : sources[i] \in reused \/ Plausible(samples[i])

\* So is the estimate that get_delay returns, unless there is no sample yet.
EstimateGenuine ==
  reused = {} => Best(samples) = 0 \/ Plausible(Best(samples))

\* Requests that are never answered do not pile up: those older than PendingLife
\* are forgotten with the next request, whatever the clock did in between.
PendingBounded ==
  Cardinality(DOMAIN pending) <= (PendingLife + adjusted) \div Interval + 1

=============================================================================
