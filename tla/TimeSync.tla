------------------------------ MODULE TimeSync ------------------------------
(***************************************************************************)
(* The gPTP path from the grand master (nodes/master.py) over the switch   *)
(* (nodes/switch.py) to a slave (nodes/slave.py): Sync and Follow-Up       *)
(* messages over UDP, paired at each hop by sequence number.               *)
(*                                                                         *)
(* A Sync is delivered from MinDelay to MaxDelay after its node read the   *)
(* clock, a Follow-Up as long after it was sent, which may be any time     *)
(* later; in any order, or never, or, if may_duplicate, several times.     *)
(* The peer delays the nodes assume are any of Estimates; the servo of the *)
(* slave leaves its clock at any of Offsets.                               *)
(***************************************************************************)
EXTENDS Integers, FiniteSets, FiniteSetsExt, Functions

CONSTANTS
  MinDelay, MaxDelay, \* delays of messages the net does not lose
  Interval,       \* sync_interval_ms
  StartDelay,     \* sleep of the grand master before its first Sync (2 s)
  MaxLives,       \* bound: starts of the grand master
  PendingLife,    \* age at which a waiting Sync is forgotten (5 s)
  Estimates,      \* values get_peer_delay returns
  Offsets,        \* offsets of the slave's clock from the grand master's
  MaxTime         \* bound: largest instant

ASSUME TimeSyncAssumption ==
  /\ MinDelay \in Nat /\ MaxDelay \in Nat /\ MinDelay <= MaxDelay
  /\ Interval \in Nat \ {0} /\ StartDelay \in Nat /\ StartDelay >= Interval
  /\ MaxLives \in Nat \ {0} /\ PendingLife \in Nat /\ MaxTime \in Nat
  /\ Estimates \subseteq Nat /\ 0 \in Offsets /\ Offsets \subseteq Int
  \* There is a smallest and a largest estimate.
  /\ \E low, high \in Estimates : \A e \in Estimates : low <= e /\ e <= high

VARIABLES
  now,            \* true time: the grand master's clock
  running,        \* running of the grand master
  life,           \* its starts, a ghost that every message carries
  next_sync,      \* when the sleep between two Syncs ends
  seq_id,         \* 2^32 numbers outlast any run
  may_duplicate,  \* the net may deliver a message twice
  net,            \* messages sent and not older than MaxDelay
  unsent,         \* the Follow-Up a node has still to send on each hop
  switch_pending, \* _pending_sync of the switch: ingress_ts by sequence number
  slave_pending,  \* _pending_sync of the slave, with the offset it was stamped under
  offset,         \* offset of the slave's clock
  error           \* error of the offset the slave has just computed, a ghost

master == <<now, may_duplicate, running, life, next_sync, seq_id>>
nodes == <<switch_pending, slave_pending, offset, error>>
vars == <<master, net, unsent, nodes>>

Arrived(m, hop, type) ==
  /\ m.hop = hop /\ m.type = type
  /\ now - m.at \in MinDelay .. MaxDelay

\* What is left in the net when m is delivered.
Remaining(m) == IF may_duplicate THEN net ELSE net \ {m}

SyncOn(hop, seq, from) ==
  [hop |-> hop, type |-> "sync", life |-> from, seq |-> seq, at |-> now,
   precise |-> 0, correction |-> 0]

\* The Follow-Up to be sent; `at` is filled in then.
FollowUpOn(hop, seq, from, precise, correction) ==
  [hop |-> hop, type |-> "fu", life |-> from, seq |-> seq, at |-> 0,
   precise |-> precise, correction |-> correction]

\* The life of a Sync and Follow-Up of two lives.
Mixed == 0
Common(a, b) == IF a = b THEN a ELSE Mixed

\* Mutant of Put: nothing is forgotten.
PutForever(pending, seq, entry) ==
  [s \in DOMAIN pending \union {seq} |-> IF s = seq THEN entry ELSE pending[s]]

\* An entry is added, and those that have waited too long are forgotten.
Put(pending, seq, entry) ==
  LET all == [s \in DOMAIN pending \union {seq} |-> IF s = seq THEN entry ELSE pending[s]]
  IN  Restrict(all, {s \in DOMAIN all : now - all[s].received_at <= PendingLife})

Take(pending, seq) == Restrict(pending, DOMAIN pending \ {seq})

Init ==
  /\ now = 0
  /\ running = TRUE /\ life = 1 /\ next_sync = 0 /\ seq_id = 0
  /\ may_duplicate \in BOOLEAN
  /\ net = {} /\ unsent = [hop \in {1, 2} |-> {}]
  /\ switch_pending = << >> /\ slave_pending = << >>
  /\ offset = 0
  /\ error = 0

-----------------------------------------------------------------------------
\* Mutant of SendSync: every Sync has the same number.
SendSyncSame ==
  /\ running /\ now >= next_sync /\ unsent[1] = {}
  /\ net' = net \union {SyncOn(1, seq_id, life)}
  /\ unsent' = [unsent EXCEPT ![1] = {FollowUpOn(1, seq_id, life, now, 0)}]
  /\ UNCHANGED <<now, may_duplicate, running, life, next_sync, seq_id, nodes>>

\* GrandMaster._send_sync: read the clock, send the Sync...
SendSync ==
  /\ running /\ now >= next_sync /\ unsent[1] = {}
  /\ net' = net \union {SyncOn(1, seq_id, life)}
  /\ unsent' = [unsent EXCEPT ![1] = {FollowUpOn(1, seq_id, life, now, 0)}]
  /\ seq_id' = seq_id + 1
  /\ UNCHANGED <<now, may_duplicate, running, life, next_sync, nodes>>

\* ... then the Follow-Up with that time, and sleep.
SendFollowUp ==
  /\ unsent[1] # {}
  /\ net' = net \union {[m EXCEPT !.at = now] : m \in unsent[1]}
  /\ unsent' = [unsent EXCEPT ![1] = {}]
  /\ next_sync' = now + Interval
  /\ UNCHANGED <<now, may_duplicate, running, life, seq_id, nodes>>

\* VirtualSwitch._on_sync.
SwitchSync(m) ==
  /\ Arrived(m, 1, "sync") /\ unsent[2] = {}
  /\ switch_pending' = Put(switch_pending, m.seq, [ingress |-> now, received_at |-> now, life |-> m.life])
  /\ net' = Remaining(m)
  /\ UNCHANGED <<master, unsent, slave_pending, offset, error>>

\* Mutant of SwitchFollowUp: the time spent in the switch is left out.
SwitchFollowUpInstant(m) ==
  /\ Arrived(m, 1, "fu") /\ m.seq \in DOMAIN switch_pending /\ unsent[2] = {}
  /\ \E upstream \in Estimates :
       unsent' = [unsent EXCEPT ![2] = 
             {FollowUpOn(2, m.seq, Common(m.life, switch_pending[m.seq].life),
                         m.precise, m.correction + upstream)}]
  /\ net' = Remaining(m) \union 
             {SyncOn(2, m.seq, Common(m.life, switch_pending[m.seq].life))}
  /\ switch_pending' = Take(switch_pending, m.seq)
  /\ UNCHANGED <<master, slave_pending, offset, error>>

\* VirtualSwitch._on_follow_up, in the one receive thread: add the peer delay and
\* the time the Sync spent in the switch to the correction, send the Sync on...
SwitchFollowUp(m) ==
  /\ Arrived(m, 1, "fu") /\ m.seq \in DOMAIN switch_pending /\ unsent[2] = {}
  /\ \E upstream \in Estimates :
       LET residence == now - switch_pending[m.seq].ingress
       IN  unsent' = [unsent EXCEPT ![2] =
             {FollowUpOn(2, m.seq, Common(m.life, switch_pending[m.seq].life),
                         m.precise, m.correction + upstream + residence)}]
  /\ net' = Remaining(m) \union 
             {SyncOn(2, m.seq, Common(m.life, switch_pending[m.seq].life))}
  /\ switch_pending' = Take(switch_pending, m.seq)
  /\ UNCHANGED <<master, slave_pending, offset, error>>

\* ... then the Follow-Up.
RelayFollowUp ==
  /\ unsent[2] # {}
  /\ net' = net \union {[m EXCEPT !.at = now] : m \in unsent[2]}
  /\ unsent' = [unsent EXCEPT ![2] = {}]
  /\ UNCHANGED <<master, nodes>>

\* Slave._on_sync.
SlaveSync(m) ==
  /\ Arrived(m, 2, "sync")
  /\ slave_pending' = Put(slave_pending, m.seq,
                          [ingress |-> now + offset, received_at |-> now, offset |-> offset,
                           life |-> m.life])
  /\ net' = Remaining(m)
  /\ UNCHANGED <<master, unsent, switch_pending, offset, error>>

\* Slave._on_follow_up: compute the offset and let the servo step the clock.
SlaveFollowUp(m) ==
  /\ Arrived(m, 2, "fu") /\ m.seq \in DOMAIN slave_pending
  /\ \E upstream \in Estimates :
       LET true_gm_time == m.precise + m.correction + upstream
           offset_ns == slave_pending[m.seq].ingress - true_gm_time
       IN  error' = IF Common(m.life, slave_pending[m.seq].life) = Mixed THEN 0
                    ELSE offset_ns - slave_pending[m.seq].offset
  /\ offset' \in Offsets
  /\ slave_pending' = Take(slave_pending, m.seq)
  /\ net' = Remaining(m)
  /\ UNCHANGED <<master, unsent, switch_pending>>

\* A Follow-Up whose Sync was lost, is late or forgotten is ignored.
IgnoreFollowUp(m) ==
  /\ \/ Arrived(m, 1, "fu") /\ m.seq \notin DOMAIN switch_pending /\ unsent[2] = {}
     \/ Arrived(m, 2, "fu") /\ m.seq \notin DOMAIN slave_pending
  /\ net' = Remaining(m)
  /\ UNCHANGED <<master, unsent, nodes>>

\* BaseNode.stop of the grand master.
Stop ==
  /\ running
  /\ running' = FALSE
  /\ UNCHANGED <<now, may_duplicate, life, next_sync, seq_id, net, unsent, nodes>>

\* The grand master is started again and counts from zero.  What the other nodes
\* wait for, and what is under way, stays.
RestartMaster ==
  /\ ~running /\ life < MaxLives
  /\ running' = TRUE /\ life' = life + 1
  /\ seq_id' = 0 /\ next_sync' = now + StartDelay
  /\ unsent' = [unsent EXCEPT ![1] = {}]
  /\ UNCHANGED <<now, may_duplicate, net, nodes>>

Tick ==
  /\ now < MaxTime
  /\ now' = now + 1
  /\ net' = {m \in net : now + 1 - m.at <= MaxDelay}
  /\ error' = 0
  /\ UNCHANGED <<may_duplicate, running, life, next_sync, seq_id, unsent,
                 switch_pending, slave_pending, offset>>

\* _dispatch, by the type of the message and the node that received it.
Dispatch(m) ==
  \/ SwitchSync(m) \/ SwitchFollowUp(m)
  \/ SlaveSync(m) \/ SlaveFollowUp(m)
  \/ IgnoreFollowUp(m)

Next ==
  \/ SendSync \/ SendFollowUp \/ RelayFollowUp
  \/ \E m \in net : Dispatch(m)
  \/ Stop \/ RestartMaster \/ Tick

Spec == Init /\ [][Next]_vars

-----------------------------------------------------------------------------
Message == [hop : {1, 2}, type : {"sync", "fu"}, life : Nat, seq : Nat, at : Nat,
            precise : Nat, correction : Int]

TypeOK ==
  /\ now \in 0 .. MaxTime
  /\ running \in BOOLEAN /\ life \in 1 .. MaxLives /\ next_sync \in Nat /\ seq_id \in Nat
  /\ may_duplicate \in BOOLEAN /\ net \subseteq Message
  /\ unsent \in [{1, 2} -> SUBSET Message]
  /\ \A hop \in {1, 2} : Cardinality(unsent[hop]) <= 1
  /\ \A s \in DOMAIN switch_pending :
       switch_pending[s] \in [ingress : Nat, received_at : Nat, life : Nat]
       /\ (switch_pending[s].life = life => s < seq_id)
  /\ \A s \in DOMAIN slave_pending :
       slave_pending[s] \in [ingress : Int, received_at : Nat, offset : Offsets, life : Nat]
       /\ (slave_pending[s].life = life => s < seq_id)
  /\ offset \in Offsets
  /\ error \in Int

\* How wrong the offset of one hop can be: the delay the Sync really took less
\* the delay the receiver assumes.
Early == MinDelay - Max(Estimates)
Late == MaxDelay - Min(Estimates)

\* With duplicates, the slave may pair the Sync of one relaying with the
\* Follow-Up of a later one; copies of the same Follow-Up triggered both.
Slip == IF may_duplicate THEN MaxDelay - MinDelay ELSE 0

\* The offset the slave computes is off by what its two hops can be off, and
\* nothing else: neither the time a message waited in the switch, nor lost,
\* late and reordered messages, nor the clock steps in between enter into it.
\* A duplicated Follow-Up adds at most one variation of the delay, and only
\* makes the slave seem earlier than it is.  All this holds of a Sync and a
\* Follow-Up from the same life of the grand master; of different lives, the number
\* alone pairs them, and nothing is claimed.
OffsetError ==
  error # 0 => error \in 2 * Early - Slip .. 2 * Late

\* No node collects Syncs without end whose Follow-Ups are lost.
PendingBounded ==
  /\ Cardinality(DOMAIN switch_pending)
       <= (PendingLife + MaxDelay - MinDelay) \div Interval + 1
  /\ Cardinality(DOMAIN slave_pending)
       <= (PendingLife + 2 * (MaxDelay - MinDelay)) \div Interval + 1

=============================================================================
