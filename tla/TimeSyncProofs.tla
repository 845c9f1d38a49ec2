--------------------------- MODULE TimeSyncProofs ---------------------------
(***************************************************************************)
(* Proofs about TimeSync: its types, the bound on the error of the offset  *)
(* a slave computes, and the bound on the Syncs that wait for their        *)
(* Follow-Ups, for any delays, estimates, clock steps, lives of the grand  *)
(* master and orders of delivery.                                          *)
(***************************************************************************)
EXTENDS TimeSync, NumberFacts

-----------------------------------------------------------------------------
(***************************************************************************)
(* What is under way and what is waited for.  Messages and entries with    *)
(* one life and number belong together; those of life Mixed do not count.  *)
(***************************************************************************)
Same(a, b) == a.life = b.life /\ a.seq = b.seq

Syncs(hop) == {m \in net : m.hop = hop /\ m.type = "sync"}
FollowUps(hop) == {m \in net : m.hop = hop /\ m.type = "fu"}
Relays == unsent[2] \union FollowUps(2)

\* Syncs the switch holds.
Held == {[life |-> switch_pending[s].life, seq |-> s, at |-> switch_pending[s].ingress] :
           s \in DOMAIN switch_pending}

\* Relayed Syncs, with the earliest and the latest instant at which the slave
\* receives them, or received them.
OnTheirWay == {[life |-> m.life, seq |-> m.seq, first |-> m.at + MinDelay, last |-> m.at + MaxDelay] :
                 m \in Syncs(2)}
Received == {[life |-> slave_pending[s].life, seq |-> s, first |-> slave_pending[s].received_at,
              last |-> slave_pending[s].received_at] : s \in DOMAIN slave_pending}
Arrivals == OnTheirWay \union Received

-----------------------------------------------------------------------------
(***************************************************************************)
(* The inductive invariant.                                                *)
(***************************************************************************)
Labelled ==
  /\ \A hop \in {1, 2} : \A m \in unsent[hop] : m.hop = hop /\ m.type = "fu"
  /\ \A hop \in {1, 2} : \A m, n \in unsent[hop] : m = n
  /\ \A m \in net \union unsent[1] : m.hop = 1 => m.life # Mixed /\ m.correction = 0
  /\ \A m \in net : m.at <= now
  /\ \A w \in Held : w.life # Mixed /\ w.at <= now

\* Numbers of this life that have been used, and all those of earlier lives.
Used(a) == a.life < life \/ (a.life = life /\ a.seq < seq_id)
Numbered == \A a \in net \union unsent[1] \union unsent[2] \union Held \union Arrivals : Used(a)

\* A Follow-Up carries the instant its Sync was stamped with.
Stamped ==
  \A f \in unsent[1] \union FollowUps(1) \union Relays : f.life # Mixed =>
    /\ \A m \in Syncs(1) : Same(m, f) => m.at = f.precise
    /\ \A w \in Held : Same(w, f) => w.at - f.precise \in MinDelay .. MaxDelay

\* The grand master sends one Follow-Up for each Sync, and nothing is relayed
\* before it did.
SentOnce ==
  /\ \A f, g \in FollowUps(1) : Same(f, g) => f = g
  /\ \A f \in unsent[1], g \in FollowUps(1) \union Relays \union Arrivals : ~Same(f, g)

\* What was relayed left the switch when a copy of the Follow-Up came in, and was
\* relayed again only if there was another.
RelayedOnce ==
  \A f \in FollowUps(1) :
    /\ \A a \in Arrivals : Same(f, a) => may_duplicate /\ a.first >= f.at + 2 * MinDelay
    /\ \A g \in Relays : Same(f, g) => may_duplicate

\* The slave's clock is right at the instants in Arrivals.
Timed ==
  /\ \A a \in Arrivals : a.last <= now + MaxDelay
  /\ \A s \in DOMAIN slave_pending :
       /\ slave_pending[s].received_at <= now
       /\ slave_pending[s].ingress = slave_pending[s].received_at + slave_pending[s].offset

\* The instant a relayed Follow-Up names, true_gm_time less the last delay, against
\* the relayed Syncs it can be paired with.  One relayed after the Follow-Up was,
\* was held when that was sent: its second bound.
Named(f) == f.precise + f.correction
Corrected ==
  \A f \in Relays : f.life # Mixed =>
    /\ Named(f) <= now + Max(Estimates) - MinDelay
    /\ f.correction >= Min(Estimates)
    /\ \A a \in Arrivals : Same(a, f) =>
         /\ a.first >= Named(f) - Max(Estimates) + 2 * MinDelay - Slip
         /\ \/ a.last <= Named(f) - Min(Estimates) + 2 * MaxDelay
            \/ f \notin unsent[2] /\ f.at <= f.precise + MaxDelay

\* While the switch holds a Sync, the Follow-Ups it relayed before are sent.
SentBefore ==
  \A w \in Held :
    /\ \A f \in unsent[2] : ~Same(w, f)
    /\ \A f \in FollowUps(2) : Same(w, f) => f.at <= w.at

Paired == Labelled /\ Numbered /\ Stamped /\ SentOnce /\ RelayedOnce /\ Timed /\ Corrected /\ SentBefore
Types ==
  /\ now \in 0 .. MaxTime
  /\ running \in BOOLEAN /\ life \in 1 .. MaxLives /\ next_sync \in Nat /\ seq_id \in Nat
  /\ may_duplicate \in BOOLEAN /\ net \subseteq Message
  /\ unsent \in [{1, 2} -> SUBSET Message]
  /\ DOMAIN switch_pending \subseteq Nat /\ DOMAIN slave_pending \subseteq Nat
  /\ \A s \in DOMAIN switch_pending :
       switch_pending[s] \in [ingress : Nat, received_at : Nat, life : Nat]
  /\ \A s \in DOMAIN slave_pending :
       slave_pending[s] \in [ingress : Int, received_at : Nat, offset : Offsets, life : Nat]
  /\ offset \in Offsets
  /\ error \in Int

-----------------------------------------------------------------------------
(***************************************************************************)
(* Facts about the operators.                                              *)
(***************************************************************************)
LEMMA EstimateFacts ==
  /\ Max(Estimates) \in Nat /\ Min(Estimates) \in Nat
  /\ \A e \in Estimates : e \in Nat /\ Min(Estimates) <= e /\ e <= Max(Estimates)
  BY TimeSyncAssumption DEF Max, Min

LEMMA PutFacts ==
  ASSUME NEW p, NEW s, NEW e
  PROVE  /\ DOMAIN Put(p, s, e) \subseteq DOMAIN p \union {s}
         /\ \A t \in DOMAIN Put(p, s, e) :
              /\ Put(p, s, e)[t] = IF t = s THEN e ELSE p[t]
              /\ now - Put(p, s, e)[t].received_at <= PendingLife
  BY DEF Put, Restrict

LEMMA TakeFacts ==
  ASSUME NEW p, NEW s
  PROVE  /\ DOMAIN Take(p, s) \subseteq DOMAIN p \ {s}
         /\ \A t \in DOMAIN Take(p, s) : Take(p, s)[t] = p[t]
  BY DEF Take, Restrict

LEMMA RemainingFacts ==
  ASSUME NEW m
  PROVE  Remaining(m) \subseteq net /\ (m \in Remaining(m) => may_duplicate)
  BY DEF Remaining

\* The message an action sends.
LEMMA SyncOnFacts ==
  ASSUME NEW hop, NEW seq, NEW from
  PROVE  LET m == SyncOn(hop, seq, from)
         IN  /\ m.hop = hop /\ m.type = "sync" /\ m.seq = seq /\ m.life = from
             /\ m.at = now /\ m.correction = 0
             /\ hop \in {1, 2} /\ seq \in Nat /\ from \in Nat /\ now \in Nat => m \in Message
  BY DEF SyncOn, Message

LEMMA FollowUpOnFacts ==
  ASSUME NEW hop, NEW seq, NEW from, NEW precise, NEW correction
  PROVE  LET m == FollowUpOn(hop, seq, from, precise, correction)
         IN  /\ m.hop = hop /\ m.type = "fu" /\ m.seq = seq /\ m.life = from
             /\ m.precise = precise /\ m.correction = correction
             /\ hop \in {1, 2} /\ seq \in Nat /\ from \in Nat /\ precise \in Nat /\ correction \in Int
                  => m \in Message
  BY DEF FollowUpOn, Message

LEMMA CommonFacts ==
  ASSUME NEW a \in Nat, NEW b \in Nat
  PROVE  /\ Common(a, b) \in Nat
         /\ Common(a, b) # Mixed => a = b /\ Common(a, b) = a
  BY DEF Common, Mixed

\* A Follow-Up with the instant at which it is sent.
LEMMA SentFacts ==
  ASSUME NEW m \in Message, now \in Nat
  PROVE  LET s == [m EXCEPT !.at = now]
         IN  /\ s \in Message /\ s.at = now
             /\ s.hop = m.hop /\ s.type = m.type /\ s.life = m.life /\ s.seq = m.seq
             /\ s.precise = m.precise /\ s.correction = m.correction
  BY DEF Message

LEMMA NowNat == ASSUME Types PROVE now \in Nat
  BY TimeSyncAssumption DEF Types

-----------------------------------------------------------------------------
(***************************************************************************)
(* Types.                                                                  *)
(***************************************************************************)
LEMMA TypesInit == Init => Types
<1>1. ASSUME Init PROVE Types
  BY <1>1, TimeSyncAssumption DEF Init, Types, Message
<1> QED
  BY <1>1

LEMMA TypesDeliver ==
  ASSUME Types, NEW m \in net, Dispatch(m)
  PROVE  Types'
<1>0. m \in Message /\ now \in Nat /\ Remaining(m) \subseteq Message
  BY NowNat, RemainingFacts DEF Types
<1>f. m.seq \in Nat /\ m.life \in Nat /\ m.precise \in Nat /\ m.correction \in Int
  BY <1>0 DEF Message
<1>1. CASE SwitchSync(m)
  <2> DEFINE e == [ingress |-> now, received_at |-> now, life |-> m.life]
  <2>1. switch_pending' = Put(switch_pending, m.seq, e) /\ e \in [ingress : Nat, received_at : Nat, life : Nat]
    BY <1>0, <1>f, <1>1 DEF SwitchSync
  <2> HIDE DEF e
  <2>2. /\ DOMAIN switch_pending' \subseteq Nat
        /\ \A s \in DOMAIN switch_pending' :
             switch_pending'[s] \in [ingress : Nat, received_at : Nat, life : Nat]
    BY <1>f, <2>1, PutFacts DEF Types
  <2> QED
    BY <1>0, <1>1, <2>2 DEF SwitchSync, Types, master
<1>2. CASE SwitchFollowUp(m)
  <2>1. switch_pending[m.seq] \in [ingress : Nat, received_at : Nat, life : Nat]
    BY <1>2 DEF SwitchFollowUp, Types
  <2> DEFINE from == Common(m.life, switch_pending[m.seq].life)
  <2>2. from \in Nat
    BY <1>f, <2>1, CommonFacts
  <2>3. PICK upstream \in Estimates :
          unsent' = [unsent EXCEPT ![2] =
            {FollowUpOn(2, m.seq, from, m.precise,
                        m.correction + upstream + (now - switch_pending[m.seq].ingress))}]
    BY <1>2 DEF SwitchFollowUp
  <2>4. net' = Remaining(m) \union {SyncOn(2, m.seq, from)}
    BY <1>2 DEF SwitchFollowUp
  <2> HIDE DEF from
  <2>5. m.correction + upstream + (now - switch_pending[m.seq].ingress) \in Int
    BY <1>0, <1>f, <2>1, EstimateFacts
  <2>6. unsent' \in [{1, 2} -> SUBSET Message]
    BY <1>f, <2>2, <2>3, <2>5, FollowUpOnFacts DEF Types
  <2>7. net' \subseteq Message
    BY <1>0, <1>f, <2>2, <2>4, SyncOnFacts
  <2>8. switch_pending' = Take(switch_pending, m.seq)
    BY <1>2 DEF SwitchFollowUp
  <2>9. /\ DOMAIN switch_pending' \subseteq DOMAIN switch_pending
        /\ \A s \in DOMAIN switch_pending' : switch_pending'[s] = switch_pending[s]
    BY <2>8, TakeFacts
  <2> QED
    BY <1>2, <2>6, <2>7, <2>9 DEF SwitchFollowUp, Types, master
<1>3. CASE SlaveSync(m)
  <2> DEFINE e == [ingress |-> now + offset, received_at |-> now, offset |-> offset, life |-> m.life]
             E == [ingress : Int, received_at : Nat, offset : Offsets, life : Nat]
  <2>1. slave_pending' = Put(slave_pending, m.seq, e) /\ e \in E
    BY <1>0, <1>f, <1>3, TimeSyncAssumption DEF SlaveSync, Types
  <2> HIDE DEF e
  <2>2. DOMAIN slave_pending' \subseteq Nat /\ \A s \in DOMAIN slave_pending' : slave_pending'[s] \in E
    BY <1>f, <2>1, PutFacts DEF Types
  <2> QED
    BY <1>0, <1>3, <2>2 DEF SlaveSync, Types, master
<1>4. CASE SlaveFollowUp(m)
  <2>1. slave_pending[m.seq].ingress \in Int /\ slave_pending[m.seq].offset \in Int
    BY <1>4, TimeSyncAssumption DEF SlaveFollowUp, Types
  <2>2. PICK upstream \in Estimates :
          error' = IF Common(m.life, slave_pending[m.seq].life) = Mixed THEN 0
                   ELSE slave_pending[m.seq].ingress - (m.precise + m.correction + upstream)
                          - slave_pending[m.seq].offset
    BY <1>4 DEF SlaveFollowUp
  <2>3. error' \in Int
    BY <1>f, <2>1, <2>2, EstimateFacts
  <2>4. slave_pending' = Take(slave_pending, m.seq)
    BY <1>4 DEF SlaveFollowUp
  <2>5. /\ DOMAIN slave_pending' \subseteq DOMAIN slave_pending
        /\ \A s \in DOMAIN slave_pending' : slave_pending'[s] = slave_pending[s]
    BY <2>4, TakeFacts
  <2> QED
    BY <1>0, <1>4, <2>3, <2>5 DEF SlaveFollowUp, Types, master
<1>5. CASE IgnoreFollowUp(m)
  BY <1>0, <1>5 DEF IgnoreFollowUp, Types, master, nodes
<1> QED
  BY <1>1, <1>2, <1>3, <1>4, <1>5 DEF Dispatch

LEMMA TypesStep ==
  ASSUME Types, [Next]_vars
  PROVE  Types'
<1>0. now \in Nat
  BY NowNat
<1>1. CASE SendSync
  <2>1. SyncOn(1, seq_id, life) \in Message /\ FollowUpOn(1, seq_id, life, now, 0) \in Message
    BY <1>0, SyncOnFacts, FollowUpOnFacts DEF Types
  <2> QED
    BY <1>1, <2>1 DEF SendSync, Types, nodes
<1>2. CASE SendFollowUp
  <2>1. \A m \in unsent[1] : [m EXCEPT !.at = now] \in Message
    BY <1>0, SentFacts DEF Types
  <2> QED
    BY <1>0, <1>2, <2>1, TimeSyncAssumption DEF SendFollowUp, Types, nodes
<1>3. CASE RelayFollowUp
  <2>1. \A m \in unsent[2] : [m EXCEPT !.at = now] \in Message
    BY <1>0, SentFacts DEF Types
  <2> QED
    BY <1>3, <2>1 DEF RelayFollowUp, Types, nodes, master
<1>4. CASE \E m \in net : Dispatch(m)
  BY <1>4, TypesDeliver
<1>5. CASE Stop
  BY <1>5 DEF Stop, Types, nodes
<1>6. CASE RestartMaster
  BY <1>0, <1>6, TimeSyncAssumption DEF RestartMaster, Types, nodes
<1>7. CASE Tick
  BY <1>7, TimeSyncAssumption DEF Tick, Types
<1>8. CASE UNCHANGED vars
  BY <1>8 DEF vars, master, nodes, Types
<1> QED
  BY <1>1, <1>2, <1>3, <1>4, <1>5, <1>6, <1>7, <1>8 DEF Next

-----------------------------------------------------------------------------
(***************************************************************************)
(* Paired is inductive.                                                    *)
(***************************************************************************)
LEMMA MessageFacts ==
  ASSUME Types
  PROVE  /\ \A m \in net \union unsent[1] \union unsent[2] :
              /\ m \in Message /\ m.life \in Nat /\ m.seq \in Nat /\ m.at \in Nat
              /\ m.precise \in Nat /\ m.correction \in Int
         /\ \A w \in Held : w.life \in Nat /\ w.seq \in Nat /\ w.at \in Nat
         /\ \A a \in Arrivals : a.life \in Nat /\ a.seq \in Nat /\ a.first \in Nat /\ a.last \in Nat
<1>1. \A m \in net \union unsent[1] \union unsent[2] :
        /\ m \in Message /\ m.life \in Nat /\ m.seq \in Nat /\ m.at \in Nat
        /\ m.precise \in Nat /\ m.correction \in Int
  BY DEF Types, Message
<1>2. \A w \in Held : w.life \in Nat /\ w.seq \in Nat /\ w.at \in Nat
  BY DEF Types, Held
<1>3. \A a \in OnTheirWay : a.life \in Nat /\ a.seq \in Nat /\ a.first \in Nat /\ a.last \in Nat
  BY <1>1, TimeSyncAssumption DEF OnTheirWay, Syncs
<1>4. \A a \in Received : a.life \in Nat /\ a.seq \in Nat /\ a.first \in Nat /\ a.last \in Nat
  BY DEF Types, Received
<1> QED
  BY <1>1, <1>2, <1>3, <1>4 DEF Arrivals

\* Where a message that was not there before can be.
LEMMA NetGrows ==
  ASSUME NEW x, net' \subseteq net \union {x}
  PROVE  /\ \A hop : /\ \A m \in Syncs(hop)' : m \in Syncs(hop) \/ (m = x /\ x.hop = hop /\ x.type = "sync")
                     /\ \A m \in FollowUps(hop)' :
                          m \in FollowUps(hop) \/ (m = x /\ x.hop = hop /\ x.type = "fu")
         /\ \A a \in OnTheirWay' :
              \/ a \in OnTheirWay
              \/ /\ x.hop = 2 /\ x.type = "sync"
                 /\ a = [life |-> x.life, seq |-> x.seq, first |-> x.at + MinDelay, last |-> x.at + MaxDelay]
<1>1. \A hop : /\ \A m \in Syncs(hop)' : m \in Syncs(hop) \/ (m = x /\ x.hop = hop /\ x.type = "sync")
               /\ \A m \in FollowUps(hop)' :
                    m \in FollowUps(hop) \/ (m = x /\ x.hop = hop /\ x.type = "fu")
  BY DEF Syncs, FollowUps
<1> QED
  BY <1>1 DEF OnTheirWay

LEMMA NetShrinks ==
  ASSUME net' \subseteq net
  PROVE  /\ \A hop : Syncs(hop)' \subseteq Syncs(hop) /\ FollowUps(hop)' \subseteq FollowUps(hop)
         /\ OnTheirWay' \subseteq OnTheirWay
<1>1. \A hop : Syncs(hop)' \subseteq Syncs(hop) /\ FollowUps(hop)' \subseteq FollowUps(hop)
  BY DEF Syncs, FollowUps
<1> QED
  BY <1>1 DEF OnTheirWay

LEMMA HeldShrinks ==
  ASSUME DOMAIN switch_pending' \subseteq DOMAIN switch_pending,
         \A s \in DOMAIN switch_pending' : switch_pending'[s] = switch_pending[s]
  PROVE  Held' \subseteq Held
  BY DEF Held

LEMMA ReceivedShrinks ==
  ASSUME DOMAIN slave_pending' \subseteq DOMAIN slave_pending,
         \A s \in DOMAIN slave_pending' : slave_pending'[s] = slave_pending[s]
  PROVE  Received' \subseteq Received
  BY DEF Received

\* A step that only removes messages and entries, or lets time pass.
LEMMA PairedFewer ==
  ASSUME Types, Types', Paired,
         net' \subseteq net, unsent'[1] \subseteq unsent[1], unsent'[2] \subseteq unsent[2],
         DOMAIN switch_pending' \subseteq DOMAIN switch_pending,
         \A s \in DOMAIN switch_pending' : switch_pending'[s] = switch_pending[s],
         DOMAIN slave_pending' \subseteq DOMAIN slave_pending,
         \A s \in DOMAIN slave_pending' : slave_pending'[s] = slave_pending[s],
         may_duplicate' = may_duplicate, now <= now',
         (life' = life /\ seq_id' = seq_id) \/ life' = life + 1
  PROVE  Paired'
<1>1. /\ \A hop : Syncs(hop)' \subseteq Syncs(hop) /\ FollowUps(hop)' \subseteq FollowUps(hop)
      /\ OnTheirWay' \subseteq OnTheirWay
  BY NetShrinks
<1>2. Held' \subseteq Held /\ Received' \subseteq Received
  BY HeldShrinks, ReceivedShrinks
<1>3. Arrivals' \subseteq Arrivals /\ Relays' \subseteq Relays
  BY <1>1, <1>2 DEF Arrivals, Relays
<1>4. now \in Nat /\ now' \in Nat
  BY NowNat, TimeSyncAssumption DEF Types
<1>5. Labelled'
  BY <1>2, <1>4, MessageFacts DEF Labelled, Paired
<1>6. Numbered'
  <2>1. \A a : a.life \in Nat /\ Used(a) => Used(a)'
    BY DEF Used, Types
  <2> QED
    BY <1>2, <1>3, <2>1, MessageFacts DEF Numbered, Paired
<1>7. Stamped'
  BY <1>1, <1>2, <1>3 DEF Stamped, Paired
<1>8. SentOnce' /\ RelayedOnce'
  BY <1>1, <1>3 DEF SentOnce, RelayedOnce, Paired
<1>9. Timed'
  BY <1>3, <1>4, MessageFacts, TimeSyncAssumption DEF Timed, Types, Paired
<1>10. Corrected'
  <2>0. Slip' = Slip
    BY DEF Slip
  <2>1. ASSUME NEW f \in Relays', f.life # Mixed
        PROVE  /\ Named(f) <= now' + Max(Estimates) - MinDelay
               /\ f.correction >= Min(Estimates)
               /\ \A a \in Arrivals' : Same(a, f) =>
                    /\ a.first >= Named(f) - Max(Estimates) + 2 * MinDelay - Slip
                    /\ \/ a.last <= Named(f) - Min(Estimates) + 2 * MaxDelay
                       \/ f \notin unsent'[2] /\ f.at <= f.precise + MaxDelay
    <3>1. f \in Relays /\ Named(f) \in Int
      BY <1>3, <2>1, MessageFacts DEF Named, Relays, FollowUps
    <3> QED
      BY <1>3, <1>4, <2>1, <3>1, EstimateFacts, TimeSyncAssumption DEF Corrected, Paired
  <2> QED
    BY <2>0, <2>1 DEF Corrected
<1>11. SentBefore'
  BY <1>1, <1>2 DEF SentBefore, Paired
<1> QED
  BY <1>5, <1>6, <1>7, <1>8, <1>9, <1>10, <1>11 DEF Paired

\* A new Sync has a number nothing else has.
LEMMA PairedSendSync ==
  ASSUME Types, Types', Paired, SendSync
  PROVE  Paired'
<1> DEFINE x == SyncOn(1, seq_id, life)
           y == FollowUpOn(1, seq_id, life, now, 0)
<1>0. /\ x.hop = 1 /\ x.type = "sync" /\ x.seq = seq_id /\ x.life = life /\ x.at = now /\ x.correction = 0
      /\ y.hop = 1 /\ y.type = "fu" /\ y.seq = seq_id /\ y.life = life /\ y.precise = now /\ y.correction = 0
  BY SyncOnFacts, FollowUpOnFacts
<1>1. net' = net \union {x} /\ unsent' = [unsent EXCEPT ![1] = {y}] /\ unsent[1] = {} /\ seq_id' = seq_id + 1
  BY DEF SendSync
<1> HIDE DEF x, y
<1>2. UNCHANGED <<now, may_duplicate, life, switch_pending, slave_pending>>
  BY DEF SendSync, nodes
<1>3. unsent'[1] = {y} /\ unsent'[2] = unsent[2]
  BY <1>1 DEF Types
<1>4. /\ \A m \in Syncs(1)' : m \in Syncs(1) \/ m = x
      /\ \A hop : FollowUps(hop)' \subseteq FollowUps(hop)
      /\ OnTheirWay' \subseteq OnTheirWay
  BY <1>0, <1>1, NetGrows
<1>5. Held' = Held /\ Received' = Received
  BY <1>2 DEF Held, Received
<1>6. Arrivals' \subseteq Arrivals /\ Relays' \subseteq Relays
  BY <1>3, <1>4, <1>5 DEF Arrivals, Relays
<1>7. now \in Nat /\ life \in Nat /\ life # Mixed /\ seq_id \in Nat
  BY NowNat, TimeSyncAssumption DEF Types, Mixed
<1>8. \A a \in net \union unsent[1] \union unsent[2] \union Held \union Arrivals : ~Same(a, x) /\ ~Same(a, y)
  BY <1>0, <1>7, MessageFacts DEF Paired, Numbered, Used, Same
<1>9. Labelled'
  BY <1>0, <1>1, <1>2, <1>3, <1>5, <1>7 DEF Labelled, Paired
<1>10. Numbered'
  <2>1. \A a : (a.life \in Nat /\ a.seq \in Nat /\ Used(a)) \/ (a.life = life /\ a.seq = seq_id) => Used(a)'
    BY <1>1, <1>2, <1>7 DEF Used
  <2>2. \A a \in net' \union unsent'[1] : a \in net \/ (a.life = life /\ a.seq = seq_id)
    BY <1>0, <1>1, <1>3
  <2>3. \A a \in net \union unsent[2] \union Held \union Arrivals : a.life \in Nat /\ a.seq \in Nat /\ Used(a)
    BY MessageFacts DEF Numbered, Paired
  <2> QED
    BY <1>3, <1>5, <1>6, <2>1, <2>2, <2>3 DEF Numbered
<1>11. Stamped'
  <2>1. ASSUME NEW f \in unsent'[1] \union FollowUps(1)' \union Relays', f.life # Mixed
        PROVE  /\ \A m \in Syncs(1)' : Same(m, f) => m.at = f.precise
               /\ \A w \in Held' : Same(w, f) => w.at - f.precise \in MinDelay .. MaxDelay
    <3>1. CASE f = y
      <4>1. \A m \in Syncs(1) : m \in net
        BY DEF Syncs
      <4> QED
        BY <1>0, <1>4, <1>5, <1>8, <3>1, <4>1
    <3>2. CASE f # y
      <4>1. f \in FollowUps(1) \union Relays /\ f \in net \union unsent[2]
        BY <1>3, <1>4, <1>6, <2>1, <3>2 DEF FollowUps, Relays
      <4>2. ~Same(x, f)
        BY <1>8, <4>1 DEF Same
      <4> QED
        BY <1>4, <1>5, <2>1, <4>1, <4>2 DEF Stamped, Paired
    <3> QED
      BY <3>1, <3>2
  <2> QED
    BY <2>1 DEF Stamped
<1>12. SentOnce' /\ RelayedOnce'
  <2>1. \A g \in FollowUps(1) \union Relays \union Arrivals : ~Same(y, g)
    BY <1>8 DEF FollowUps, Relays, Same
  <2> QED
    BY <1>2, <1>3, <1>4, <1>6, <2>1 DEF SentOnce, RelayedOnce, Paired
<1>13. Timed'
  BY <1>2, <1>6 DEF Timed, Paired
<1>14. Corrected'
  <2>1. Slip' = Slip
    BY <1>2 DEF Slip
  <2> QED
    BY <1>2, <1>3, <1>6, <2>1 DEF Corrected, Paired
<1>15. SentBefore'
  BY <1>3, <1>4, <1>5 DEF SentBefore, Paired
<1> QED
  BY <1>9, <1>10, <1>11, <1>12, <1>13, <1>14, <1>15 DEF Paired

\* The Follow-Up of the grand master leaves its hand.
LEMMA PairedSendFollowUp ==
  ASSUME Types, Types', Paired, SendFollowUp
  PROVE  Paired'
<1>0. now \in Nat
  BY NowNat
<1>1. PICK u : unsent[1] = {u} /\ u \in Message /\ u.hop = 1 /\ u.type = "fu" /\ u.life # Mixed /\ u.correction = 0
  BY DEF SendFollowUp, Labelled, Paired, Types
<1> DEFINE x == [u EXCEPT !.at = now]
<1>2. /\ x \in Message /\ x.at = now /\ x.hop = 1 /\ x.type = "fu"
      /\ x.life = u.life /\ x.seq = u.seq /\ x.precise = u.precise /\ x.correction = 0
  BY <1>0, <1>1, SentFacts
<1>3. net' = net \union {x} /\ unsent' = [unsent EXCEPT ![1] = {}]
  BY <1>1 DEF SendFollowUp
<1> HIDE DEF x
<1>4. UNCHANGED <<now, may_duplicate, life, seq_id, switch_pending, slave_pending>>
  BY DEF SendFollowUp, nodes
<1>5. unsent'[1] = {} /\ unsent'[2] = unsent[2]
  BY <1>3 DEF Types
<1>6. /\ \A m \in FollowUps(1)' : m \in FollowUps(1) \/ m = x
      /\ FollowUps(2)' \subseteq FollowUps(2)
      /\ \A hop : Syncs(hop)' \subseteq Syncs(hop)
      /\ OnTheirWay' \subseteq OnTheirWay
  BY <1>2, <1>3, NetGrows
<1>7. Held' = Held /\ Received' = Received
  BY <1>4 DEF Held, Received
<1>8. Arrivals' \subseteq Arrivals /\ Relays' \subseteq Relays
  BY <1>5, <1>6, <1>7 DEF Arrivals, Relays
<1>s. \A a : Same(x, a) <=> Same(u, a)
  BY <1>2 DEF Same
<1>9. Labelled'
  BY <1>0, <1>2, <1>3, <1>4, <1>5, <1>7, <1>1 DEF Labelled, Paired
<1>10. Numbered'
  <2>1. \A a : Used(a)' <=> Used(a)
    BY <1>4 DEF Used
  <2>2. Used(x)
    BY <1>1, <1>2 DEF Numbered, Paired, Used
  <2> QED
    BY <1>3, <1>5, <1>7, <1>8, <2>1, <2>2 DEF Numbered, Paired
<1>11. Stamped'
  <2>1. /\ \A m \in Syncs(1) : Same(m, x) => m.at = x.precise
        /\ \A w \in Held : Same(w, x) => w.at - x.precise \in MinDelay .. MaxDelay
    <3>1. \A a : Same(a, x) <=> Same(a, u)
      BY <1>2 DEF Same
    <3> QED
      BY <1>1, <1>2, <3>1 DEF Stamped, Paired
  <2> QED
    BY <1>5, <1>6, <1>7, <1>8, <2>1 DEF Stamped, Paired
<1>12. SentOnce'
  <2>1. \A g \in FollowUps(1) \union Relays \union Arrivals : ~Same(x, g) /\ ~Same(g, x)
    BY <1>1, <1>s DEF SentOnce, Paired, Same
  <2> QED
    BY <1>5, <1>6, <1>8, <2>1 DEF SentOnce, Paired
<1>13. RelayedOnce'
  <2>1. \A g \in Relays \union Arrivals : ~Same(x, g)
    BY <1>1, <1>s DEF SentOnce, Paired
  <2> QED
    BY <1>4, <1>6, <1>8, <2>1 DEF RelayedOnce, Paired
<1>14. Timed'
  BY <1>4, <1>8 DEF Timed, Paired
<1>15. Corrected'
  <2>1. Slip' = Slip
    BY <1>4 DEF Slip
  <2> QED
    BY <1>4, <1>5, <1>8, <2>1 DEF Corrected, Paired
<1>16. SentBefore'
  BY <1>5, <1>6, <1>7 DEF SentBefore, Paired
<1> QED
  BY <1>9, <1>10, <1>11, <1>12, <1>13, <1>14, <1>15, <1>16 DEF Paired

\* The switch holds one more Sync.
LEMMA PairedSwitchSync ==
  ASSUME Types, Types', Paired, NEW m \in net, SwitchSync(m)
  PROVE  Paired'
<1> DEFINE w == [life |-> m.life, seq |-> m.seq, at |-> now]
<1>0. now \in Nat /\ m.life \in Nat /\ m.seq \in Nat /\ m.at \in Nat
  BY NowNat, MessageFacts
<1>1. m \in Syncs(1) /\ m.life # Mixed /\ now - m.at \in MinDelay .. MaxDelay /\ unsent[2] = {} /\ Used(m)
  BY DEF SwitchSync, Arrived, Syncs, Labelled, Numbered, Paired
<1>2. UNCHANGED <<now, may_duplicate, life, seq_id, unsent, slave_pending>> /\ net' \subseteq net
  BY RemainingFacts DEF SwitchSync, master
<1>3. Held' \subseteq Held \union {w}
  <2> DEFINE e == [ingress |-> now, received_at |-> now, life |-> m.life]
  <2>1. switch_pending' = Put(switch_pending, m.seq, e)
    BY DEF SwitchSync
  <2>2. e.ingress = now /\ e.life = m.life
    OBVIOUS
  <2> HIDE DEF e
  <2>3. \A s \in DOMAIN switch_pending' :
          /\ s \in DOMAIN switch_pending \/ s = m.seq
          /\ switch_pending'[s] = IF s = m.seq THEN e ELSE switch_pending[s]
    BY <2>1, PutFacts
  <2> QED
    BY <2>2, <2>3 DEF Held
<1>4. /\ \A hop : Syncs(hop)' \subseteq Syncs(hop) /\ FollowUps(hop)' \subseteq FollowUps(hop)
      /\ OnTheirWay' \subseteq OnTheirWay
  BY <1>2, NetShrinks
<1>5. Arrivals' \subseteq Arrivals /\ Relays' \subseteq Relays
  BY <1>2, <1>4 DEF Arrivals, Relays, Received
<1>w. w.life = m.life /\ w.seq = m.seq /\ w.at = now /\ \A f : Same(w, f) <=> Same(m, f)
  BY DEF Same
<1> HIDE DEF w
<1>6. Labelled'
  BY <1>0, <1>1, <1>2, <1>3, <1>w DEF Labelled, Paired
<1>7. Numbered'
  <2>1. \A a : Used(a)' <=> Used(a)
    BY <1>2 DEF Used
  <2>2. Used(w)
    BY <1>1, <1>w DEF Used
  <2> QED
    BY <1>2, <1>3, <1>5, <2>1, <2>2 DEF Numbered, Paired
<1>8. Stamped'
  <2>1. \A f \in unsent[1] \union FollowUps(1) \union Relays :
          f.life # Mixed /\ Same(w, f) => w.at - f.precise \in MinDelay .. MaxDelay
    BY <1>1, <1>w DEF Stamped, Paired
  <2> QED
    BY <1>2, <1>3, <1>4, <1>5, <2>1 DEF Stamped, Paired
<1>9. SentOnce' /\ RelayedOnce'
  BY <1>2, <1>4, <1>5 DEF SentOnce, RelayedOnce, Paired
<1>10. Timed'
  BY <1>2, <1>5 DEF Timed, Paired
<1>11. Corrected'
  <2>1. Slip' = Slip
    BY <1>2 DEF Slip
  <2> QED
    BY <1>2, <1>5, <2>1 DEF Corrected, Paired
<1>12. SentBefore'
  <2>1. \A f \in FollowUps(2) : f.at <= w.at
    BY <1>w DEF Labelled, Paired, FollowUps
  <2> QED
    BY <1>1, <1>2, <1>3, <1>4, <2>1 DEF SentBefore, Paired
<1> QED
  BY <1>6, <1>7, <1>8, <1>9, <1>10, <1>11, <1>12 DEF Paired

\* The relayed Follow-Up leaves the switch.
LEMMA PairedRelayFollowUp ==
  ASSUME Types, Types', Paired, RelayFollowUp
  PROVE  Paired'
<1>0. now \in Nat
  BY NowNat
<1>1. PICK u : unsent[2] = {u} /\ u \in Message /\ u.hop = 2 /\ u.type = "fu"
  BY DEF RelayFollowUp, Labelled, Paired, Types
<1> DEFINE x == [u EXCEPT !.at = now]
<1>2. /\ x \in Message /\ x.at = now /\ x.hop = 2 /\ x.type = "fu"
      /\ x.life = u.life /\ x.seq = u.seq /\ x.precise = u.precise /\ x.correction = u.correction
  BY <1>0, <1>1, SentFacts
<1>3. net' = net \union {x} /\ unsent' = [unsent EXCEPT ![2] = {}]
  BY <1>1 DEF RelayFollowUp
<1> HIDE DEF x
<1>4. UNCHANGED <<now, may_duplicate, life, seq_id, switch_pending, slave_pending>>
  BY DEF RelayFollowUp, master, nodes
<1>5. unsent'[2] = {} /\ unsent'[1] = unsent[1]
  BY <1>3 DEF Types
<1>6. /\ \A f \in FollowUps(2)' : f \in FollowUps(2) \/ f = x
      /\ FollowUps(1)' \subseteq FollowUps(1)
      /\ \A hop : Syncs(hop)' \subseteq Syncs(hop)
      /\ OnTheirWay' \subseteq OnTheirWay
  BY <1>2, <1>3, NetGrows
<1>7. Held' = Held /\ Received' = Received
  BY <1>4 DEF Held, Received
<1>8. Arrivals' \subseteq Arrivals /\ \A f \in Relays' : f \in FollowUps(2) \/ f = x
  BY <1>5, <1>6, <1>7 DEF Arrivals, Relays
<1>s. \A a : (Same(x, a) <=> Same(u, a)) /\ (Same(a, x) <=> Same(a, u))
  BY <1>2 DEF Same
<1>u. u \in Relays /\ FollowUps(2) \subseteq Relays
  BY <1>1 DEF Relays
<1>9. Labelled'
  BY <1>0, <1>2, <1>3, <1>4, <1>5, <1>7, <1>1 DEF Labelled, Paired
<1>10. Numbered'
  <2>1. \A a : Used(a)' <=> Used(a)
    BY <1>4 DEF Used
  <2>2. Used(x)
    BY <1>1, <1>2 DEF Numbered, Paired, Used
  <2> QED
    BY <1>3, <1>5, <1>7, <1>8, <2>1, <2>2 DEF Numbered, Paired
<1>11. Stamped'
  <2>1. x.life # Mixed => /\ \A n \in Syncs(1) : Same(n, x) => n.at = x.precise
                          /\ \A w \in Held : Same(w, x) => w.at - x.precise \in MinDelay .. MaxDelay
    BY <1>2, <1>s, <1>u DEF Stamped, Paired
  <2> QED
    BY <1>5, <1>6, <1>7, <1>8, <1>u, <2>1 DEF Stamped, Paired
<1>12. SentOnce'
  BY <1>5, <1>6, <1>8, <1>s, <1>u DEF SentOnce, Paired
<1>13. RelayedOnce'
  BY <1>4, <1>6, <1>8, <1>s, <1>u DEF RelayedOnce, Paired
<1>14. Timed'
  BY <1>4, <1>8 DEF Timed, Paired
<1>15. Corrected'
  <2>1. Slip' = Slip
    BY <1>4 DEF Slip
  <2>2. ASSUME NEW f \in Relays', f.life # Mixed
        PROVE  /\ Named(f) <= now + Max(Estimates) - MinDelay
               /\ f.correction >= Min(Estimates)
               /\ \A a \in Arrivals : Same(a, f) =>
                    /\ a.first >= Named(f) - Max(Estimates) + 2 * MinDelay - Slip
                    /\ \/ a.last <= Named(f) - Min(Estimates) + 2 * MaxDelay
                       \/ f.at <= f.precise + MaxDelay
    <3>1. CASE f \in FollowUps(2)
      BY <1>u, <2>2, <3>1 DEF Corrected, Paired
    <3>2. CASE f = x
      <4>1. Named(x) = Named(u) /\ u.life # Mixed /\ x.correction = u.correction
        BY <1>2, <2>2, <3>2 DEF Named
      <4>2. /\ Named(u) <= now + Max(Estimates) - MinDelay
            /\ u.correction >= Min(Estimates)
            /\ \A a \in Arrivals : Same(a, u) =>
                 /\ a.first >= Named(u) - Max(Estimates) + 2 * MinDelay - Slip
                 /\ a.last <= Named(u) - Min(Estimates) + 2 * MaxDelay
        BY <1>1, <1>u, <4>1 DEF Corrected, Paired
      <4> QED
        BY <1>s, <3>2, <4>1, <4>2
    <3> QED
      BY <1>8, <2>2, <3>1, <3>2
  <2> QED
    BY <1>4, <1>5, <1>8, <2>1, <2>2 DEF Corrected
<1>16. SentBefore'
  <2>1. \A w \in Held : ~Same(w, x)
    BY <1>1, <1>s DEF SentBefore, Paired
  <2> QED
    BY <1>5, <1>6, <1>7, <2>1 DEF SentBefore, Paired
<1> QED
  BY <1>9, <1>10, <1>11, <1>12, <1>13, <1>14, <1>15, <1>16 DEF Paired

\* A Sync arrives at the slave within the bounds it had on its way.
LEMMA PairedSlaveSync ==
  ASSUME Types, Types', Paired, NEW m \in net, SlaveSync(m)
  PROVE  Paired'
<1> DEFINE a == [life |-> m.life, seq |-> m.seq, first |-> now, last |-> now]
           b == [life |-> m.life, seq |-> m.seq, first |-> m.at + MinDelay, last |-> m.at + MaxDelay]
<1>0. now \in Nat /\ m.life \in Nat /\ m.seq \in Nat /\ m.at \in Nat
  BY NowNat, MessageFacts
<1>1. m \in Syncs(2) /\ now - m.at \in MinDelay .. MaxDelay
  BY DEF SlaveSync, Arrived, Syncs
<1>2. UNCHANGED <<now, may_duplicate, life, seq_id, unsent, switch_pending>> /\ net' \subseteq net
  BY RemainingFacts DEF SlaveSync, master
<1>3. /\ b \in Arrivals /\ a.first >= b.first /\ a.last <= b.last
      /\ a.first = now /\ a.last = now
      /\ \A f : (Same(f, a) <=> Same(f, b)) /\ (Same(a, f) <=> Same(b, f))
      /\ a.life = b.life /\ a.seq = b.seq
  BY <1>0, <1>1, TimeSyncAssumption DEF Arrivals, OnTheirWay, Same
<1>b. b.first \in Nat /\ b.last \in Nat
  BY <1>3, MessageFacts
<1>4. /\ Received' \subseteq Received \union {a}
      /\ \A s \in DOMAIN slave_pending' :
           /\ slave_pending'[s].received_at <= now
           /\ slave_pending'[s].ingress = slave_pending'[s].received_at + slave_pending'[s].offset
  <2> DEFINE e == [ingress |-> now + offset, received_at |-> now, offset |-> offset, life |-> m.life]
  <2>1. slave_pending' = Put(slave_pending, m.seq, e)
    BY DEF SlaveSync
  <2>2. e.ingress = now + offset /\ e.received_at = now /\ e.offset = offset /\ e.life = m.life
    OBVIOUS
  <2> HIDE DEF e
  <2>3. \A s \in DOMAIN slave_pending' :
          /\ s \in DOMAIN slave_pending \/ s = m.seq
          /\ slave_pending'[s] = IF s = m.seq THEN e ELSE slave_pending[s]
    BY <2>1, PutFacts
  <2>4. Received' \subseteq Received \union {a}
    BY <2>2, <2>3 DEF Received
  <2>5. ASSUME NEW s \in DOMAIN slave_pending'
        PROVE  /\ slave_pending'[s].received_at <= now
               /\ slave_pending'[s].ingress = slave_pending'[s].received_at + slave_pending'[s].offset
    <3>1. CASE s = m.seq
      BY <1>0, <2>2, <2>3, <3>1
    <3>2. CASE s # m.seq
      BY <2>3, <3>2 DEF Timed, Paired
    <3> QED
      BY <3>1, <3>2
  <2> QED
    BY <2>4, <2>5
<1>5. /\ \A hop : Syncs(hop)' \subseteq Syncs(hop) /\ FollowUps(hop)' \subseteq FollowUps(hop)
      /\ OnTheirWay' \subseteq OnTheirWay
  BY <1>2, NetShrinks
<1> HIDE DEF a, b
<1>6. /\ \A c \in Arrivals' : c \in Arrivals \/ c = a
      /\ Relays' \subseteq Relays /\ Held' = Held
  BY <1>2, <1>4, <1>5 DEF Arrivals, Relays, Held
<1>7. Labelled'
  BY <1>2, <1>6 DEF Labelled, Paired
<1>8. Numbered'
  <2>1. \A c : Used(c)' <=> Used(c)
    BY <1>2 DEF Used
  <2>2. Used(a)
    BY <1>3 DEF Used, Numbered, Paired
  <2> QED
    BY <1>2, <1>6, <2>1, <2>2 DEF Numbered, Paired
<1>9. Stamped'
  BY <1>2, <1>5, <1>6 DEF Stamped, Paired
<1>10. SentOnce'
  <2>1. \A f \in unsent[1] : ~Same(f, a)
    BY <1>3 DEF SentOnce, Paired
  <2> QED
    BY <1>2, <1>5, <1>6, <2>1 DEF SentOnce, Paired
<1>11. RelayedOnce'
  <2>1. \A f \in FollowUps(1) : Same(f, a) => may_duplicate /\ a.first >= f.at + 2 * MinDelay
    <3>1. \A f \in FollowUps(1) : f.at \in Nat
      BY MessageFacts DEF FollowUps
    <3> QED
      BY <1>0, <1>3, <1>b, <3>1, TimeSyncAssumption DEF RelayedOnce, Paired
  <2> QED
    BY <1>2, <1>5, <1>6, <2>1 DEF RelayedOnce, Paired
<1>12. Timed'
  <2>1. a.last <= now + MaxDelay
    BY <1>0, <1>3, TimeSyncAssumption
  <2> QED
    BY <1>2, <1>4, <1>6, <2>1 DEF Timed, Paired
<1>13. Corrected'
  <2>1. Slip' = Slip /\ Slip \in Int
    BY <1>2, TimeSyncAssumption DEF Slip
  <2>2. ASSUME NEW f \in Relays, f.life # Mixed, Same(a, f)
        PROVE  /\ a.first >= Named(f) - Max(Estimates) + 2 * MinDelay - Slip
               /\ \/ a.last <= Named(f) - Min(Estimates) + 2 * MaxDelay
                  \/ f \notin unsent[2] /\ f.at <= f.precise + MaxDelay
    <3>1. Named(f) \in Int
      BY MessageFacts DEF Named, Relays, FollowUps
    <3>2. /\ b.first >= Named(f) - Max(Estimates) + 2 * MinDelay - Slip
          /\ \/ b.last <= Named(f) - Min(Estimates) + 2 * MaxDelay
             \/ f \notin unsent[2] /\ f.at <= f.precise + MaxDelay
      BY <1>3, <2>2 DEF Corrected, Paired
    <3> QED
      BY <1>0, <1>3, <1>b, <2>1, <3>1, <3>2, EstimateFacts, TimeSyncAssumption
  <2> QED
    BY <1>2, <1>6, <2>1, <2>2 DEF Corrected, Paired
<1>14. SentBefore'
  BY <1>2, <1>5, <1>6 DEF SentBefore, Paired
<1> QED
  BY <1>7, <1>8, <1>9, <1>10, <1>11, <1>12, <1>13, <1>14 DEF Paired

\* The switch relays the Sync it held: the new Sync and Follow-Up, and those of
\* earlier copies, can be paired in either way.
LEMMA PairedSwitchFollowUp ==
  ASSUME Types, Types', Paired, NEW m \in net, SwitchFollowUp(m)
  PROVE  Paired'
<1>0. /\ now \in Nat /\ m.life \in Nat /\ m.seq \in Nat /\ m.at \in Nat
      /\ m.precise \in Nat /\ m.correction \in Int
  BY NowNat, MessageFacts
<1>1. /\ m \in FollowUps(1) /\ m.life # Mixed /\ m.correction = 0
      /\ now - m.at \in MinDelay .. MaxDelay /\ unsent[2] = {} /\ Used(m)
      /\ m.seq \in DOMAIN switch_pending
  BY DEF SwitchFollowUp, Arrived, FollowUps, Labelled, Numbered, Paired
<1>2. PICK w \in Held : /\ w.life = switch_pending[m.seq].life /\ w.seq = m.seq
                        /\ w.at = switch_pending[m.seq].ingress
  <2>1. [life |-> switch_pending[m.seq].life, seq |-> m.seq, at |-> switch_pending[m.seq].ingress] \in Held
    BY <1>1 DEF Held
  <2> QED
    BY <2>1
<1>3. PICK from : from = Common(m.life, w.life)
  OBVIOUS
<1>u. PICK upstream \in Estimates :
        unsent' = [unsent EXCEPT ![2] =
          {FollowUpOn(2, m.seq, from, m.precise, m.correction + upstream + (now - w.at))}]
  BY <1>2, <1>3 DEF SwitchFollowUp
<1>4. PICK F :
        /\ F = FollowUpOn(2, m.seq, from, m.precise, m.correction + upstream + (now - w.at))
        /\ unsent' = [unsent EXCEPT ![2] = {F}]
  BY <1>u
<1>5. /\ F.hop = 2 /\ F.type = "fu" /\ F.seq = m.seq /\ F.life = from /\ F.precise = m.precise
      /\ F.correction = m.correction + upstream + (now - w.at)
  BY <1>4, FollowUpOnFacts
<1>6. PICK S : /\ net' = Remaining(m) \union {S}
               /\ S.hop = 2 /\ S.type = "sync" /\ S.seq = m.seq /\ S.life = from /\ S.at = now
  BY <1>2, <1>3, SyncOnFacts DEF SwitchFollowUp
<1>7. PICK A : A = [life |-> S.life, seq |-> S.seq, first |-> S.at + MinDelay, last |-> S.at + MaxDelay]
  OBVIOUS
<1>8. A.life = from /\ A.seq = m.seq /\ A.first = now + MinDelay /\ A.last = now + MaxDelay
  BY <1>6, <1>7
<1>9. UNCHANGED <<now, may_duplicate, life, seq_id, slave_pending>>
  BY DEF SwitchFollowUp, master
<1>10. unsent'[1] = unsent[1] /\ unsent'[2] = {F}
  BY <1>4 DEF Types
<1>11. net' \subseteq net \union {S}
  BY <1>6, RemainingFacts
<1>12. /\ Syncs(1)' \subseteq Syncs(1)
       /\ \A hop : FollowUps(hop)' \subseteq FollowUps(hop)
       /\ \A a \in OnTheirWay' : a \in OnTheirWay \/ a = A
  BY <1>6, <1>7, <1>11, NetGrows
<1>13. Held' \subseteq Held /\ \A v \in Held' : v.seq # m.seq
  <2>1. switch_pending' = Take(switch_pending, m.seq)
    BY DEF SwitchFollowUp
  <2>2. /\ DOMAIN switch_pending' \subseteq DOMAIN switch_pending \ {m.seq}
        /\ \A s \in DOMAIN switch_pending' : switch_pending'[s] = switch_pending[s]
    BY <2>1, TakeFacts
  <2> QED
    BY <2>2 DEF Held
<1>14. /\ \A a \in Arrivals' : a \in Arrivals \/ a = A
       /\ \A f \in Relays' : f = F \/ f \in FollowUps(2)
       /\ FollowUps(2) \subseteq Relays
  BY <1>9, <1>10, <1>12 DEF Arrivals, Received, Relays
<1>15. w.life \in Nat /\ w.life # Mixed /\ w.at \in Nat /\ w.at <= now
  BY MessageFacts DEF Labelled, Paired
\* What has the life and number of the new messages also has those of m and w.
<1>16. /\ from \in Nat /\ (from # Mixed => from = m.life /\ from = w.life)
       /\ from # Mixed => /\ Same(m, w) /\ Same(w, m)
                          /\ \A a : (Same(a, F) => Same(a, m) /\ Same(a, w)) /\ (Same(F, a) => Same(m, a) /\ Same(w, a))
                          /\ \A a : (Same(a, A) => Same(a, m) /\ Same(a, w)) /\ (Same(A, a) => Same(m, a) /\ Same(w, a))
  <2>1. from \in Nat /\ (from # Mixed => from = m.life /\ from = w.life)
    BY <1>0, <1>3, <1>15, CommonFacts
  <2> QED
    BY <1>2, <1>5, <1>8, <2>1 DEF Same
<1>17. \A a : Same(a, F) \/ Same(a, A) => a.life = from
  BY <1>5, <1>8 DEF Same
<1>18. from # Mixed => w.at - m.precise \in MinDelay .. MaxDelay
  BY <1>1, <1>16 DEF Stamped, Paired
<1>19. Labelled'
  BY <1>0, <1>5, <1>6, <1>9, <1>10, <1>11, <1>13 DEF Labelled, Paired
<1>20. Numbered'
  <2>1. \A a : Used(a)' <=> Used(a)
    BY <1>9 DEF Used
  <2>2. \A a : a.life = from /\ a.seq = m.seq => Used(a)
    BY <1>1, <1>16 DEF Used, Mixed, Types
  <2>3. Used(F) /\ Used(S) /\ Used(A)
    BY <1>5, <1>6, <1>8, <2>2
  <2> QED
    BY <1>10, <1>11, <1>13, <1>14, <2>1, <2>3 DEF Numbered, Paired
<1>21. Stamped'
  <2>1. ASSUME F.life # Mixed
        PROVE  /\ \A n \in Syncs(1) : Same(n, F) => n.at = F.precise
               /\ \A v \in Held : Same(v, F) => v.at - F.precise \in MinDelay .. MaxDelay
    BY <1>1, <1>5, <1>16, <2>1 DEF Stamped, Paired
  <2> QED
    BY <1>10, <1>12, <1>13, <1>14, <2>1 DEF Stamped, Paired
<1>22. \A f \in unsent[1] \union FollowUps(1) : f.life # Mixed
  BY DEF Labelled, FollowUps, Paired
<1>23. SentOnce'
  <2>1. \A f \in unsent[1] : ~Same(f, F) /\ ~Same(f, A)
    BY <1>1, <1>16, <1>17, <1>22 DEF SentOnce, Paired
  <2> QED
    BY <1>10, <1>12, <1>14, <2>1 DEF SentOnce, Paired
<1>24. RelayedOnce'
  <2>1. ASSUME NEW f \in FollowUps(1)', Same(f, F) \/ Same(f, A)
        PROVE  may_duplicate /\ A.first >= f.at + 2 * MinDelay
    <3>1. f \in FollowUps(1) /\ f \in Remaining(m)
      BY <1>6, <1>12, <2>1 DEF FollowUps
    <3>2. f = m
      BY <1>1, <1>16, <1>17, <1>22, <2>1, <3>1 DEF SentOnce, Paired
    <3> QED
      BY <1>0, <1>1, <1>8, <3>1, <3>2, RemainingFacts, TimeSyncAssumption
  <2> QED
    BY <1>9, <1>12, <1>14, <2>1 DEF RelayedOnce, Paired
<1>25. Timed'
  <2>1. A.last <= now + MaxDelay
    BY <1>0, <1>8, TimeSyncAssumption
  <2> QED
    BY <1>9, <1>14, <2>1 DEF Timed, Paired
<1>26. Corrected'
  <2>0. Slip' = Slip /\ Slip \in Nat /\ (may_duplicate => Slip = MaxDelay - MinDelay)
    BY <1>9, TimeSyncAssumption DEF Slip
  <2> DEFINE Bounds(f) ==
        /\ Named(f) <= now + Max(Estimates) - MinDelay
        /\ f.correction >= Min(Estimates)
        /\ \A a \in Arrivals \union {A} : Same(a, f) =>
             /\ a.first >= Named(f) - Max(Estimates) + 2 * MinDelay - Slip
             /\ \/ a.last <= Named(f) - Min(Estimates) + 2 * MaxDelay
                \/ f # F /\ f.at <= f.precise + MaxDelay
  <2>1. ASSUME F.life # Mixed
        PROVE  Bounds(F)
    <3>1. from # Mixed
      BY <1>5, <2>1
    <3>2. Named(F) = m.precise + upstream + (now - w.at) /\ F.correction = upstream + (now - w.at)
      BY <1>0, <1>1, <1>5, <1>15, EstimateFacts DEF Named
    <3>3. /\ Named(F) \in Int /\ Named(F) <= now + Max(Estimates) - MinDelay
          /\ Named(F) >= now + Min(Estimates) - MaxDelay
          /\ F.correction >= Min(Estimates)
      BY <1>0, <1>15, <1>18, <3>1, <3>2, EstimateFacts, TimeSyncAssumption
    <3>4. ASSUME NEW a \in Arrivals, Same(a, F)
          PROVE  /\ a.first >= Named(F) - Max(Estimates) + 2 * MinDelay - Slip
                 /\ a.last <= Named(F) - Min(Estimates) + 2 * MaxDelay
      <4>1. Same(m, a)
        BY <1>16, <3>1, <3>4 DEF Same
      <4>2. may_duplicate /\ a.first >= m.at + 2 * MinDelay /\ a.last <= now + MaxDelay
        BY <1>1, <4>1 DEF RelayedOnce, Timed, Paired
      <4>3. a.first \in Nat /\ a.last \in Nat
        BY MessageFacts
      <4> QED
        BY <1>0, <1>1, <2>0, <3>3, <4>2, <4>3, EstimateFacts, TimeSyncAssumption
    <3>5. /\ A.first >= Named(F) - Max(Estimates) + 2 * MinDelay - Slip
          /\ A.last <= Named(F) - Min(Estimates) + 2 * MaxDelay
      BY <1>0, <1>8, <2>0, <3>3, EstimateFacts, TimeSyncAssumption
    <3> QED
      BY <3>3, <3>4, <3>5
  <2>2. ASSUME NEW f \in FollowUps(2), f # F, f.life # Mixed
        PROVE  Bounds(f)
    <3>1. /\ Named(f) \in Int /\ f.at \in Int /\ f.precise \in Int
      BY MessageFacts DEF Named, FollowUps
    <3>2. /\ Named(f) <= now + Max(Estimates) - MinDelay
          /\ f.correction >= Min(Estimates)
          /\ \A a \in Arrivals : Same(a, f) =>
               /\ a.first >= Named(f) - Max(Estimates) + 2 * MinDelay - Slip
               /\ \/ a.last <= Named(f) - Min(Estimates) + 2 * MaxDelay
                  \/ f.at <= f.precise + MaxDelay
      BY <1>14, <2>2 DEF Corrected, Paired
    <3>3. ASSUME Same(A, f)
          PROVE  /\ A.first >= Named(f) - Max(Estimates) + 2 * MinDelay - Slip
                 /\ f.at <= f.precise + MaxDelay
      <4>1. Same(w, f)
        BY <1>8, <1>16, <2>2, <3>3 DEF Same
      <4>2. f.at <= w.at /\ w.at - f.precise \in MinDelay .. MaxDelay
        BY <1>14, <2>2, <4>1 DEF SentBefore, Stamped, Paired
      <4> QED
        BY <1>0, <1>8, <1>15, <2>0, <3>1, <3>2, <4>2, EstimateFacts, TimeSyncAssumption
    <3> QED
      BY <2>2, <3>2, <3>3
  <2> QED
    BY <1>9, <1>10, <1>14, <2>0, <2>1, <2>2 DEF Corrected
<1>27. SentBefore'
  <2>1. \A v \in Held' : ~Same(v, F)
    BY <1>5, <1>13 DEF Same
  <2> QED
    BY <1>10, <1>12, <1>13, <2>1 DEF SentBefore, Paired
<1> QED
  BY <1>19, <1>20, <1>21, <1>23, <1>24, <1>25, <1>26, <1>27 DEF Paired

LEMMA PairedInit == Init => Paired
<1>1. ASSUME Init PROVE Paired
  <2>1. /\ net = {} /\ unsent[1] = {} /\ unsent[2] = {} /\ now = 0
        /\ DOMAIN switch_pending = {} /\ DOMAIN slave_pending = {}
    BY <1>1 DEF Init
  <2>2. Held = {} /\ Received = {} /\ Syncs(1) = {} /\ Syncs(2) = {} /\ FollowUps(1) = {} /\ FollowUps(2) = {}
    BY <2>1 DEF Held, Received, Syncs, FollowUps
  <2>3. Arrivals = {} /\ Relays = {}
    BY <2>1, <2>2 DEF Arrivals, OnTheirWay, Relays
  <2>4. Labelled /\ Numbered /\ Timed
    BY <2>1, <2>2, <2>3 DEF Labelled, Numbered, Timed
  <2>5. Stamped /\ SentOnce /\ RelayedOnce /\ Corrected /\ SentBefore
    BY <2>1, <2>2, <2>3 DEF Stamped, SentOnce, RelayedOnce, Corrected, SentBefore
  <2> QED
    BY <2>4, <2>5 DEF Paired
<1> QED
  BY <1>1

LEMMA PairedDeliver ==
  ASSUME Types, Types', Paired, NEW m \in net, Dispatch(m)
  PROVE  Paired'
<1>0. now \in Nat /\ Remaining(m) \subseteq net
  BY NowNat, RemainingFacts
<1>1. CASE SwitchSync(m)
  BY <1>1, PairedSwitchSync
<1>2. CASE SwitchFollowUp(m)
  BY <1>2, PairedSwitchFollowUp
<1>3. CASE SlaveSync(m)
  BY <1>3, PairedSlaveSync
<1>4. CASE SlaveFollowUp(m)
  <2>1. slave_pending' = Take(slave_pending, m.seq)
    BY <1>4 DEF SlaveFollowUp
  <2>2. /\ DOMAIN slave_pending' \subseteq DOMAIN slave_pending
        /\ \A s \in DOMAIN slave_pending' : slave_pending'[s] = slave_pending[s]
    BY <2>1, TakeFacts
  <2>3. UNCHANGED <<now, life, seq_id, may_duplicate, unsent, switch_pending>> /\ net' \subseteq net
    BY <1>0, <1>4 DEF SlaveFollowUp, master
  <2> QED
    BY <1>0, <2>2, <2>3, PairedFewer
<1>5. CASE IgnoreFollowUp(m)
  <2>1. /\ UNCHANGED <<now, life, seq_id, may_duplicate, unsent, switch_pending, slave_pending>>
        /\ net' \subseteq net
    BY <1>0, <1>5 DEF IgnoreFollowUp, master, nodes
  <2> QED
    BY <1>0, <2>1, PairedFewer
<1> QED
  BY <1>1, <1>2, <1>3, <1>4, <1>5 DEF Dispatch

LEMMA PairedStep ==
  ASSUME Types, Types', Paired, [Next]_vars
  PROVE  Paired'
<1>0. now \in Nat
  BY NowNat
<1>1. CASE SendSync
  BY <1>1, PairedSendSync
<1>2. CASE SendFollowUp
  BY <1>2, PairedSendFollowUp
<1>3. CASE RelayFollowUp
  BY <1>3, PairedRelayFollowUp
<1>4. CASE \E m \in net : Dispatch(m)
  BY <1>4, PairedDeliver
<1>5. CASE Stop
  <2>1. UNCHANGED <<now, life, seq_id, may_duplicate, net, unsent, switch_pending, slave_pending>>
    BY <1>5 DEF Stop, nodes
  <2> QED
    BY <1>0, <2>1, PairedFewer
<1>6. CASE RestartMaster
  <2>1. UNCHANGED <<now, may_duplicate, net, switch_pending, slave_pending>> /\ life' = life + 1
    BY <1>6 DEF RestartMaster, nodes
  <2>2. unsent'[1] \subseteq unsent[1] /\ unsent'[2] \subseteq unsent[2]
    BY <1>6 DEF RestartMaster, Types
  <2> QED
    BY <1>0, <2>1, <2>2, PairedFewer
<1>7. CASE Tick
  <2>1. UNCHANGED <<life, seq_id, may_duplicate, unsent, switch_pending, slave_pending>> /\ net' \subseteq net
    BY <1>7 DEF Tick
  <2>2. now <= now'
    BY <1>0, <1>7 DEF Tick
  <2> QED
    BY <2>1, <2>2, PairedFewer
<1>8. CASE UNCHANGED vars
  <2>1. UNCHANGED <<now, life, seq_id, may_duplicate, net, unsent, switch_pending, slave_pending>>
    BY <1>8 DEF vars, master, nodes
  <2> QED
    BY <1>0, <2>1, PairedFewer
<1> QED
  BY <1>1, <1>2, <1>3, <1>4, <1>5, <1>6, <1>7, <1>8 DEF Next

-----------------------------------------------------------------------------
(***************************************************************************)
(* How many Syncs wait.  The grand master sends no two Syncs, and no two   *)
(* Follow-Ups, closer than Interval; what waits at one time arrived within *)
(* PendingLife, each not much longer or shorter after it was sent.         *)
(***************************************************************************)
\* A Sync waits in the switch since it came from the grand master.
SyncSends(sends) ==
  /\ Spaced(sends, Interval)
  /\ \A m \in Syncs(1) : \E x \in sends : x.seq = m.seq /\ x.at = m.at
  /\ \A s \in DOMAIN switch_pending :
       \E x \in sends : x.seq = s /\ switch_pending[s].received_at - x.at \in MinDelay .. MaxDelay
  /\ \A x \in sends : x.at <= now /\ (unsent[1] = {} => x.at + Interval <= next_sync)

\* A Sync waits in the slave since it came from the switch, which relayed it
\* when the Follow-Up came from the grand master.
FollowUpSends(sends) ==
  /\ Spaced(sends, Interval)
  /\ \A m \in FollowUps(1) : \E x \in sends : x.seq = m.seq /\ x.at = m.at
  /\ \A m \in Syncs(2) : \E x \in sends : x.seq = m.seq /\ m.at - x.at \in MinDelay .. MaxDelay
  /\ \A s \in DOMAIN slave_pending :
       \E x \in sends : /\ x.seq = s
                       /\ slave_pending[s].received_at - x.at \in 2 * MinDelay .. 2 * MaxDelay
  /\ \A x \in sends : /\ x.at <= now /\ x.at + Interval <= next_sync
                      /\ unsent[1] # {} => x.at + Interval <= now

\* All that waits was there at the last instant at which something was added.
InWindow(pending) ==
  \E last \in 0 .. now : \A s \in DOMAIN pending : pending[s].received_at \in last - PendingLife .. last

Spread ==
  /\ \E sends : SyncSends(sends)
  /\ \E sends : FollowUpSends(sends)
  /\ InWindow(switch_pending) /\ InWindow(slave_pending)

\* A step that removes messages and entries, or lets time pass; the last
\* hypothesis says when the grand master may send next.
LEMMA SyncSendsFewer ==
  ASSUME Types, Types', NEW sends, SyncSends(sends),
         Syncs(1)' \subseteq Syncs(1),
         DOMAIN switch_pending' \subseteq DOMAIN switch_pending,
         \A s \in DOMAIN switch_pending' : switch_pending'[s] = switch_pending[s],
         now <= now',
         unsent'[1] = {} => (unsent[1] = {} /\ next_sync' = next_sync) \/ next_sync' >= now + Interval
  PROVE  SyncSends(sends)'
<1>1. now \in Nat /\ now' \in Nat /\ \A x \in sends : x.at \in Nat
  BY NowNat, TimeSyncAssumption DEF Types, SyncSends, Spaced, Sends
<1>2. \A x \in sends : x.at <= now' /\ (unsent'[1] = {} => x.at + Interval <= next_sync')
  BY <1>1, TimeSyncAssumption DEF SyncSends, Types
<1> QED
  BY <1>2 DEF SyncSends, Spaced

LEMMA FollowUpSendsFewer ==
  ASSUME Types, Types', NEW sends, FollowUpSends(sends),
         FollowUps(1)' \subseteq FollowUps(1), Syncs(2)' \subseteq Syncs(2),
         DOMAIN slave_pending' \subseteq DOMAIN slave_pending,
         \A s \in DOMAIN slave_pending' : slave_pending'[s] = slave_pending[s],
         now <= now', next_sync' = next_sync \/ next_sync' >= now + Interval,
         unsent'[1] # {} => unsent[1] # {} \/ next_sync <= now
  PROVE  FollowUpSends(sends)'
<1>1. now \in Nat /\ now' \in Nat /\ \A x \in sends : x.at \in Nat
  BY NowNat, TimeSyncAssumption DEF Types, FollowUpSends, Spaced, Sends
<1>2. \A x \in sends : /\ x.at <= now' /\ x.at + Interval <= next_sync'
                       /\ unsent'[1] # {} => x.at + Interval <= now'
  BY <1>1, TimeSyncAssumption DEF FollowUpSends, Types
<1> QED
  BY <1>2 DEF FollowUpSends, Spaced

LEMMA WindowFewer ==
  ASSUME NEW p, NEW q, now \in Nat, now' \in Nat, now <= now', InWindow(p),
         DOMAIN q \subseteq DOMAIN p, \A s \in DOMAIN q : q[s] = p[s]
  PROVE  \E last \in 0 .. now' : \A s \in DOMAIN q : q[s].received_at \in last - PendingLife .. last
<1>1. PICK last \in 0 .. now : \A s \in DOMAIN p : p[s].received_at \in last - PendingLife .. last
  BY DEF InWindow
<1>2. last \in 0 .. now' /\ \A s \in DOMAIN q : q[s].received_at \in last - PendingLife .. last
  BY <1>1
<1> QED
  BY <1>2

\* Put keeps what is within PendingLife of the new entry.
LEMMA WindowPut ==
  ASSUME NEW p, NEW k, NEW e, now \in Nat, InWindow(p), e.received_at = now
  PROVE  InWindow(Put(p, k, e))
<1>1. PICK q : q = Put(p, k, e)
  OBVIOUS
<1>2. ASSUME NEW s \in DOMAIN q PROVE q[s].received_at \in now - PendingLife .. now
  <2>1. /\ s \in DOMAIN p \union {k} /\ q[s] = IF s = k THEN e ELSE p[s]
        /\ now - q[s].received_at <= PendingLife
    BY <1>1, <1>2, PutFacts
  <2>2. CASE s = k
    BY <2>1, <2>2, TimeSyncAssumption
  <2>3. CASE s # k
    <3>1. PICK last \in 0 .. now : p[s].received_at \in last - PendingLife .. last
      BY <2>1, <2>3 DEF InWindow
    <3> QED
      BY <2>1, <2>3, <3>1, TimeSyncAssumption
  <2> QED
    BY <2>2, <2>3
<1> QED
  BY <1>1, <1>2 DEF InWindow


\* The message each of these steps sends.
LEMMA FollowUpSent ==
  ASSUME Types, Paired, SendFollowUp
  PROVE  \E x : /\ net' = net \union {x} /\ x.hop = 1 /\ x.type = "fu" /\ x.at = now /\ x.seq \in Nat
                /\ unsent'[1] = {}
<1>1. PICK u : unsent[1] = {u} /\ u \in Message /\ u.hop = 1 /\ u.type = "fu" /\ u.seq \in Nat
  BY MessageFacts DEF SendFollowUp, Labelled, Paired, Types
<1>2. PICK x : x = [u EXCEPT !.at = now]
  OBVIOUS
<1>3. x.hop = 1 /\ x.type = "fu" /\ x.at = now /\ x.seq \in Nat
  BY NowNat, <1>1, <1>2, SentFacts
<1>4. net' = net \union {x} /\ unsent'[1] = {}
  BY <1>1, <1>2 DEF SendFollowUp, Types
<1> QED
  BY <1>3, <1>4

LEMMA FollowUpRelayed ==
  ASSUME Types, Paired, RelayFollowUp
  PROVE  \E x : net' \subseteq net \union {x} /\ x.hop = 2 /\ x.type = "fu" /\ unsent'[1] = unsent[1]
<1>1. PICK u : unsent[2] = {u} /\ u \in Message /\ u.hop = 2 /\ u.type = "fu"
  BY DEF RelayFollowUp, Labelled, Paired, Types
<1>2. PICK x : x = [u EXCEPT !.at = now]
  OBVIOUS
<1>3. x.hop = 2 /\ x.type = "fu"
  BY NowNat, <1>1, <1>2, SentFacts
<1>4. net' = net \union {x} /\ unsent'[1] = unsent[1]
  BY <1>1, <1>2 DEF RelayFollowUp, Types
<1> QED
  BY <1>3, <1>4

LEMMA SyncRelayed ==
  ASSUME Types, NEW m \in net, SwitchFollowUp(m)
  PROVE  \E x : /\ net' \subseteq net \union {x} /\ x.hop = 2 /\ x.type = "sync" /\ x.seq = m.seq /\ x.at = now
                /\ unsent'[1] = unsent[1]
<1>1. PICK x : x = SyncOn(2, m.seq, Common(m.life, switch_pending[m.seq].life))
  OBVIOUS
<1>2. net' \subseteq net \union {x} /\ unsent'[1] = unsent[1]
  BY <1>1, RemainingFacts DEF SwitchFollowUp, Types
<1>3. x.hop = 2 /\ x.type = "sync" /\ x.seq = m.seq /\ x.at = now
  BY <1>1, SyncOnFacts
<1> QED
  BY <1>2, <1>3

\* Every step keeps Spread: of the sends of Syncs,
LEMMA SyncSendsStep ==
  ASSUME Types, Types', Paired, NEW sends, SyncSends(sends), [Next]_vars
  PROVE  \E more : SyncSends(more)'
<1>0. now \in Nat /\ now <= now /\ \A x \in sends : x.at \in Nat /\ x.seq \in Nat
  BY NowNat DEF SyncSends, Spaced, Sends
<1>1. CASE SendSync
  <2>1. PICK x : x = [seq |-> seq_id, at |-> now]
    OBVIOUS
  <2>2. PICK m : m = SyncOn(1, seq_id, life)
    OBVIOUS
  <2>3. m.hop = 1 /\ m.seq = seq_id /\ m.at = now
    BY <2>2, SyncOnFacts
  <2>4. net' = net \union {m} /\ UNCHANGED <<now, switch_pending>> /\ unsent[1] = {} /\ next_sync <= now
    BY <1>0, <1>1, <2>2 DEF SendSync, nodes, Types
  <2>5. unsent'[1] # {}
    BY <1>1 DEF SendSync, Types
  <2>6. \A n \in Syncs(1)' : n \in Syncs(1) \/ n = m
    BY <2>4, NetGrows
  <2>7. x \in Sends /\ x.seq = seq_id /\ x.at = now
    BY <1>0, <2>1 DEF Sends, Types
  <2>8. Spaced(sends \union {x}, Interval)
    <3>1. \A y \in sends : y.at + Interval <= x.at
      BY <1>0, <2>4, <2>7, TimeSyncAssumption DEF SyncSends, Types
    <3> QED
      BY <2>7, <3>1, SpacedMore, TimeSyncAssumption DEF SyncSends
  <2>9. \A n \in Syncs(1)' : \E y \in sends \union {x} : y.seq = n.seq /\ y.at = n.at
    BY <2>3, <2>6, <2>7 DEF SyncSends
  <2>10. \A y \in sends \union {x} : y.at <= now
    BY <1>0, <2>7 DEF SyncSends
  <2>11. SyncSends(sends \union {x})'
    BY <2>4, <2>5, <2>8, <2>9, <2>10 DEF SyncSends, Spaced
  <2> QED
    BY <2>11
<1>2. CASE SendFollowUp
  <2>1. PICK x : net' \subseteq net \union {x} /\ x.type = "fu"
    BY <1>2, FollowUpSent
  <2>2. Syncs(1)' \subseteq Syncs(1)
    BY <2>1, NetGrows
  <2>3. UNCHANGED <<now, switch_pending>> /\ next_sync' = now + Interval
    BY <1>2 DEF SendFollowUp, nodes
  <2>4. SyncSends(sends)'
    BY <1>0, <2>2, <2>3, TimeSyncAssumption, SyncSendsFewer
  <2> QED
    BY <2>4
<1>3. CASE RelayFollowUp
  <2>1. PICK x : net' \subseteq net \union {x} /\ x.type = "fu" /\ unsent'[1] = unsent[1]
    BY <1>3, FollowUpRelayed
  <2>2. Syncs(1)' \subseteq Syncs(1)
    BY <2>1, NetGrows
  <2>3. UNCHANGED <<now, next_sync, switch_pending>>
    BY <1>3 DEF RelayFollowUp, master, nodes
  <2>4. SyncSends(sends)'
    BY <1>0, <2>1, <2>2, <2>3, SyncSendsFewer
  <2> QED
    BY <2>4
<1>4. ASSUME NEW m \in net, SwitchSync(m) PROVE SyncSends(sends)'
  <2>1. UNCHANGED <<now, next_sync, unsent>> /\ net' \subseteq net
    BY <1>4, RemainingFacts DEF SwitchSync, master
  <2>2. Syncs(1)' \subseteq Syncs(1)
    BY <2>1, NetShrinks
  <2>3. m \in Syncs(1) /\ now - m.at \in MinDelay .. MaxDelay
    BY <1>4 DEF SwitchSync, Arrived, Syncs
  <2>4. ASSUME NEW s \in DOMAIN switch_pending'
        PROVE  \E x \in sends : x.seq = s /\ switch_pending'[s].received_at - x.at \in MinDelay .. MaxDelay
    <3> DEFINE e == [ingress |-> now, received_at |-> now, life |-> m.life]
    <3>1. switch_pending' = Put(switch_pending, m.seq, e) /\ e.received_at = now
      BY <1>4 DEF SwitchSync
    <3> HIDE DEF e
    <3>2. s \in DOMAIN switch_pending \union {m.seq} /\ switch_pending'[s] = IF s = m.seq THEN e ELSE switch_pending[s]
      BY <2>4, <3>1, PutFacts
    <3>3. CASE s = m.seq
      BY <2>3, <3>1, <3>2, <3>3 DEF SyncSends
    <3>4. CASE s # m.seq
      BY <3>2, <3>4 DEF SyncSends
    <3> QED
      BY <3>3, <3>4
  <2> QED
    BY <2>1, <2>2, <2>4 DEF SyncSends, Spaced
<1>5. ASSUME NEW m \in net, SwitchFollowUp(m) PROVE SyncSends(sends)'
  <2>1. PICK x : net' \subseteq net \union {x} /\ x.hop = 2 /\ unsent'[1] = unsent[1]
    BY <1>5, SyncRelayed
  <2>2. Syncs(1)' \subseteq Syncs(1)
    BY <2>1, NetGrows
  <2>3. switch_pending' = Take(switch_pending, m.seq) /\ UNCHANGED <<now, next_sync>>
    BY <1>5 DEF SwitchFollowUp, master
  <2>4. /\ DOMAIN switch_pending' \subseteq DOMAIN switch_pending
        /\ \A s \in DOMAIN switch_pending' : switch_pending'[s] = switch_pending[s]
    BY <2>3, TakeFacts
  <2> QED
    BY <1>0, <2>1, <2>2, <2>3, <2>4, SyncSendsFewer
<1>6. ASSUME NEW m \in net, SlaveSync(m) \/ SlaveFollowUp(m) \/ IgnoreFollowUp(m) PROVE SyncSends(sends)'
  <2>1. UNCHANGED <<now, next_sync, unsent, switch_pending>> /\ net' \subseteq net
    BY <1>6, RemainingFacts DEF SlaveSync, SlaveFollowUp, IgnoreFollowUp, master, nodes
  <2>2. Syncs(1)' \subseteq Syncs(1)
    BY <2>1, NetShrinks
  <2> QED
    BY <1>0, <2>1, <2>2, SyncSendsFewer
<1>7. CASE Stop \/ UNCHANGED vars
  <2>1. UNCHANGED <<now, next_sync, net, unsent, switch_pending>>
    BY <1>7 DEF Stop, vars, master, nodes
  <2>2. Syncs(1)' \subseteq Syncs(1)
    BY <2>1, NetShrinks
  <2>3. SyncSends(sends)'
    BY <1>0, <2>1, <2>2, SyncSendsFewer
  <2> QED
    BY <2>3
<1>8. CASE RestartMaster
  <2>1. UNCHANGED <<now, net, switch_pending>> /\ next_sync' >= now + Interval
    BY <1>0, <1>8, TimeSyncAssumption DEF RestartMaster, nodes
  <2>2. Syncs(1)' \subseteq Syncs(1)
    BY <2>1, NetShrinks
  <2>3. SyncSends(sends)'
    BY <1>0, <2>1, <2>2, SyncSendsFewer
  <2> QED
    BY <2>3
<1>9. CASE Tick
  <2>1. UNCHANGED <<next_sync, unsent, switch_pending>> /\ now <= now' /\ net' \subseteq net
    BY <1>0, <1>9 DEF Tick
  <2>2. Syncs(1)' \subseteq Syncs(1)
    BY <2>1, NetShrinks
  <2>3. SyncSends(sends)'
    BY <2>1, <2>2, SyncSendsFewer
  <2> QED
    BY <2>3
<1> QED
  BY <1>1, <1>2, <1>3, <1>4, <1>5, <1>6, <1>7, <1>8, <1>9 DEF Next, Dispatch

\* and of the sends of Follow-Ups,
LEMMA FollowUpSendsStep ==
  ASSUME Types, Types', Paired, NEW sends, FollowUpSends(sends), [Next]_vars
  PROVE  \E more : FollowUpSends(more)'
<1>0. now \in Nat /\ now <= now /\ \A x \in sends : x.at \in Nat /\ x.seq \in Nat
  BY NowNat DEF FollowUpSends, Spaced, Sends
<1>1. CASE SendFollowUp
  <2>1. PICK m : /\ net' = net \union {m} /\ m.hop = 1 /\ m.type = "fu" /\ m.at = now /\ m.seq \in Nat
                 /\ unsent'[1] = {}
    BY <1>1, FollowUpSent
  <2>2. PICK x : x = [seq |-> m.seq, at |-> now]
    OBVIOUS
  <2>3. x \in Sends /\ x.seq = m.seq /\ x.at = now
    BY <1>0, <2>1, <2>2 DEF Sends
  <2>4. UNCHANGED <<now, slave_pending>> /\ unsent[1] # {} /\ next_sync' = now + Interval
    BY <1>1 DEF SendFollowUp, nodes
  <2>5. /\ \A n \in FollowUps(1)' : n \in FollowUps(1) \/ n = m
        /\ Syncs(2)' \subseteq Syncs(2)
    BY <2>1, NetGrows
  <2>6. Spaced(sends \union {x}, Interval)
    <3>1. \A y \in sends : y.at + Interval <= x.at
      BY <2>3, <2>4 DEF FollowUpSends
    <3> QED
      BY <2>3, <3>1, SpacedMore, TimeSyncAssumption DEF FollowUpSends
  <2>7. \A n \in FollowUps(1)' : \E y \in sends \union {x} : y.seq = n.seq /\ y.at = n.at
    BY <2>1, <2>3, <2>5 DEF FollowUpSends
  <2>8. \A y \in sends \union {x} : y.at <= now /\ y.at + Interval <= next_sync'
    BY <1>0, <2>3, <2>4, TimeSyncAssumption DEF FollowUpSends
  <2>9. FollowUpSends(sends \union {x})'
    BY <2>1, <2>4, <2>5, <2>6, <2>7, <2>8 DEF FollowUpSends, Spaced
  <2> QED
    BY <2>9
<1>2. CASE SendSync
  <2>1. PICK x : net' \subseteq net \union {x} /\ x.hop = 1 /\ x.type = "sync"
    BY <1>2, SyncOnFacts DEF SendSync
  <2>2. FollowUps(1)' \subseteq FollowUps(1) /\ Syncs(2)' \subseteq Syncs(2)
    BY <2>1, NetGrows
  <2>3. UNCHANGED <<now, next_sync, slave_pending>> /\ next_sync <= now
    BY <1>0, <1>2 DEF SendSync, nodes, Types
  <2>4. FollowUpSends(sends)'
    BY <1>0, <2>2, <2>3, FollowUpSendsFewer
  <2> QED
    BY <2>4
<1>3. CASE RelayFollowUp
  <2>1. PICK x : net' \subseteq net \union {x} /\ x.hop = 2 /\ x.type = "fu" /\ unsent'[1] = unsent[1]
    BY <1>3, FollowUpRelayed
  <2>2. FollowUps(1)' \subseteq FollowUps(1) /\ Syncs(2)' \subseteq Syncs(2)
    BY <2>1, NetGrows
  <2>3. UNCHANGED <<now, next_sync, slave_pending>>
    BY <1>3 DEF RelayFollowUp, master, nodes
  <2>4. FollowUpSends(sends)'
    BY <1>0, <2>1, <2>2, <2>3, FollowUpSendsFewer
  <2> QED
    BY <2>4
<1>4. ASSUME NEW m \in net, SlaveSync(m) PROVE FollowUpSends(sends)'
  <2>1. UNCHANGED <<now, next_sync, unsent>> /\ net' \subseteq net
    BY <1>4, RemainingFacts DEF SlaveSync, master
  <2>2. FollowUps(1)' \subseteq FollowUps(1) /\ Syncs(2)' \subseteq Syncs(2)
    BY <2>1, NetShrinks
  <2>3. m \in Syncs(2) /\ now - m.at \in MinDelay .. MaxDelay /\ m.at \in Nat
    BY <1>4, MessageFacts DEF SlaveSync, Arrived, Syncs
  <2>4. ASSUME NEW s \in DOMAIN slave_pending'
        PROVE  \E x \in sends : /\ x.seq = s
                                /\ slave_pending'[s].received_at - x.at \in 2 * MinDelay .. 2 * MaxDelay
    <3> DEFINE e == [ingress |-> now + offset, received_at |-> now, offset |-> offset, life |-> m.life]
    <3>1. slave_pending' = Put(slave_pending, m.seq, e) /\ e.received_at = now
      BY <1>4 DEF SlaveSync
    <3> HIDE DEF e
    <3>2. s \in DOMAIN slave_pending \union {m.seq} /\ slave_pending'[s] = IF s = m.seq THEN e ELSE slave_pending[s]
      BY <2>4, <3>1, PutFacts
    <3>3. CASE s = m.seq
      <4>1. PICK x \in sends : x.seq = m.seq /\ m.at - x.at \in MinDelay .. MaxDelay
        BY <2>3 DEF FollowUpSends
      <4>2. now - x.at \in 2 * MinDelay .. 2 * MaxDelay
        BY <1>0, <2>3, <4>1, TimeSyncAssumption
      <4> QED
        BY <3>1, <3>2, <3>3, <4>1, <4>2
    <3>4. CASE s # m.seq
      BY <3>2, <3>4 DEF FollowUpSends
    <3> QED
      BY <3>3, <3>4
  <2> QED
    BY <2>1, <2>2, <2>4 DEF FollowUpSends, Spaced
<1>5. ASSUME NEW m \in net, SwitchFollowUp(m) PROVE FollowUpSends(sends)'
  <2>1. PICK x : /\ net' \subseteq net \union {x} /\ x.hop = 2 /\ x.type = "sync" /\ x.seq = m.seq /\ x.at = now
                 /\ unsent'[1] = unsent[1]
    BY <1>5, SyncRelayed
  <2>2. /\ FollowUps(1)' \subseteq FollowUps(1)
        /\ \A n \in Syncs(2)' : n \in Syncs(2) \/ n = x
    BY <2>1, NetGrows
  <2>3. UNCHANGED <<now, next_sync, slave_pending>>
    BY <1>5 DEF SwitchFollowUp, master
  <2>4. m \in FollowUps(1) /\ now - m.at \in MinDelay .. MaxDelay
    BY <1>5 DEF SwitchFollowUp, Arrived, FollowUps
  <2>5. \A n \in Syncs(2)' : \E y \in sends : y.seq = n.seq /\ n.at - y.at \in MinDelay .. MaxDelay
    BY <2>1, <2>2, <2>4 DEF FollowUpSends
  <2> QED
    BY <2>1, <2>2, <2>3, <2>5 DEF FollowUpSends, Spaced
<1>6. ASSUME NEW m \in net, SwitchSync(m) \/ IgnoreFollowUp(m) PROVE FollowUpSends(sends)'
  <2>1. UNCHANGED <<now, next_sync, unsent, slave_pending>> /\ net' \subseteq net
    BY <1>6, RemainingFacts DEF SwitchSync, IgnoreFollowUp, master, nodes
  <2>2. FollowUps(1)' \subseteq FollowUps(1) /\ Syncs(2)' \subseteq Syncs(2)
    BY <2>1, NetShrinks
  <2> QED
    BY <1>0, <2>1, <2>2, FollowUpSendsFewer
<1>7. ASSUME NEW m \in net, SlaveFollowUp(m) PROVE FollowUpSends(sends)'
  <2>1. UNCHANGED <<now, next_sync, unsent>> /\ net' \subseteq net /\ slave_pending' = Take(slave_pending, m.seq)
    BY <1>7, RemainingFacts DEF SlaveFollowUp, master
  <2>2. FollowUps(1)' \subseteq FollowUps(1) /\ Syncs(2)' \subseteq Syncs(2)
    BY <2>1, NetShrinks
  <2>3. /\ DOMAIN slave_pending' \subseteq DOMAIN slave_pending
        /\ \A s \in DOMAIN slave_pending' : slave_pending'[s] = slave_pending[s]
    BY <2>1, TakeFacts
  <2> QED
    BY <1>0, <2>1, <2>2, <2>3, FollowUpSendsFewer
<1>8. CASE Stop \/ UNCHANGED vars
  <2>1. UNCHANGED <<now, next_sync, net, unsent, slave_pending>>
    BY <1>8 DEF Stop, vars, master, nodes
  <2>2. FollowUps(1)' \subseteq FollowUps(1) /\ Syncs(2)' \subseteq Syncs(2)
    BY <2>1, NetShrinks
  <2>3. FollowUpSends(sends)'
    BY <1>0, <2>1, <2>2, FollowUpSendsFewer
  <2> QED
    BY <2>3
<1>9. CASE RestartMaster
  <2>1. UNCHANGED <<now, net, slave_pending>> /\ next_sync' >= now + Interval /\ unsent'[1] = {}
    BY <1>0, <1>9, TimeSyncAssumption DEF RestartMaster, nodes, Types
  <2>2. FollowUps(1)' \subseteq FollowUps(1) /\ Syncs(2)' \subseteq Syncs(2)
    BY <2>1, NetShrinks
  <2>3. FollowUpSends(sends)'
    BY <1>0, <2>1, <2>2, FollowUpSendsFewer
  <2> QED
    BY <2>3
<1>10. CASE Tick
  <2>1. UNCHANGED <<next_sync, unsent, slave_pending>> /\ now <= now' /\ net' \subseteq net
    BY <1>0, <1>10 DEF Tick
  <2>2. FollowUps(1)' \subseteq FollowUps(1) /\ Syncs(2)' \subseteq Syncs(2)
    BY <2>1, NetShrinks
  <2>3. FollowUpSends(sends)'
    BY <2>1, <2>2, FollowUpSendsFewer
  <2> QED
    BY <2>3
<1> QED
  BY <1>1, <1>2, <1>3, <1>4, <1>5, <1>6, <1>7, <1>8, <1>9, <1>10 DEF Next, Dispatch

\* and of the instants at which what waits has arrived.
LEMMA WindowsStep ==
  ASSUME Types, Types', InWindow(switch_pending), InWindow(slave_pending), [Next]_vars
  PROVE  InWindow(switch_pending)' /\ InWindow(slave_pending)'
<1>0. now \in Nat /\ now' \in Nat /\ now <= now
  BY NowNat, TimeSyncAssumption DEF Types
<1>1. ASSUME UNCHANGED switch_pending, now <= now' PROVE InWindow(switch_pending)'
  <2>1. PICK p : p = switch_pending
    OBVIOUS
  <2> QED
    BY <1>0, <1>1, <2>1, WindowFewer DEF InWindow
<1>2. ASSUME UNCHANGED slave_pending, now <= now' PROVE InWindow(slave_pending)'
  <2>1. PICK p : p = slave_pending
    OBVIOUS
  <2> QED
    BY <1>0, <1>2, <2>1, WindowFewer DEF InWindow
<1>3. ASSUME NEW m \in net, Dispatch(m)
      PROVE  InWindow(switch_pending)' /\ InWindow(slave_pending)'
  <2>0. now' = now /\ now <= now'
    BY <1>0, <1>3 DEF Dispatch, SwitchSync, SwitchFollowUp, SlaveSync, SlaveFollowUp, IgnoreFollowUp, master
  <2>1. CASE SwitchSync(m)
    <3> DEFINE e == [ingress |-> now, received_at |-> now, life |-> m.life]
    <3>1. switch_pending' = Put(switch_pending, m.seq, e) /\ e.received_at = now /\ UNCHANGED slave_pending
      BY <2>1 DEF SwitchSync
    <3> HIDE DEF e
    <3>2. InWindow(Put(switch_pending, m.seq, e))
      BY <1>0, <3>1, WindowPut
    <3>3. InWindow(switch_pending)'
      BY <2>0, <3>1, <3>2 DEF InWindow
    <3> QED
      BY <1>2, <2>0, <3>1, <3>3
  <2>2. CASE SwitchFollowUp(m)
    <3>1. switch_pending' = Take(switch_pending, m.seq) /\ UNCHANGED slave_pending
      BY <2>2 DEF SwitchFollowUp
    <3>2. /\ DOMAIN switch_pending' \subseteq DOMAIN switch_pending
          /\ \A s \in DOMAIN switch_pending' : switch_pending'[s] = switch_pending[s]
      BY <3>1, TakeFacts
    <3>3. InWindow(switch_pending)'
      BY <1>0, <2>0, <3>2, WindowFewer DEF InWindow
    <3> QED
      BY <1>2, <2>0, <3>1, <3>3
  <2>3. CASE SlaveSync(m)
    <3> DEFINE e == [ingress |-> now + offset, received_at |-> now, offset |-> offset, life |-> m.life]
    <3>1. slave_pending' = Put(slave_pending, m.seq, e) /\ e.received_at = now /\ UNCHANGED switch_pending
      BY <2>3 DEF SlaveSync
    <3> HIDE DEF e
    <3>2. InWindow(Put(slave_pending, m.seq, e))
      BY <1>0, <3>1, WindowPut
    <3>3. InWindow(slave_pending)'
      BY <2>0, <3>1, <3>2 DEF InWindow
    <3> QED
      BY <1>1, <2>0, <3>1, <3>3
  <2>4. CASE SlaveFollowUp(m)
    <3>1. slave_pending' = Take(slave_pending, m.seq) /\ UNCHANGED switch_pending
      BY <2>4 DEF SlaveFollowUp
    <3>2. /\ DOMAIN slave_pending' \subseteq DOMAIN slave_pending
          /\ \A s \in DOMAIN slave_pending' : slave_pending'[s] = slave_pending[s]
      BY <3>1, TakeFacts
    <3>3. InWindow(slave_pending)'
      BY <1>0, <2>0, <3>2, WindowFewer DEF InWindow
    <3> QED
      BY <1>1, <2>0, <3>1, <3>3
  <2>5. CASE IgnoreFollowUp(m)
    <3>1. UNCHANGED <<switch_pending, slave_pending>>
      BY <2>5 DEF IgnoreFollowUp, nodes
    <3> QED
      BY <1>1, <1>2, <2>0, <3>1
  <2> QED
    BY <1>3, <2>1, <2>2, <2>3, <2>4, <2>5 DEF Dispatch
<1>4. CASE ~ \E m \in net : Dispatch(m)
  <2>1. UNCHANGED <<switch_pending, slave_pending>> /\ now <= now'
    BY <1>0, <1>4 DEF Next, vars, master, nodes, SendSync, SendFollowUp, RelayFollowUp, Stop, RestartMaster, Tick
  <2> QED
    BY <1>1, <1>2, <2>1
<1> QED
  BY <1>3, <1>4

LEMMA SpreadStep ==
  ASSUME Types, Types', Paired, Spread, [Next]_vars
  PROVE  Spread'
<1>1. PICK sends : SyncSends(sends)
  BY DEF Spread
<1>2. PICK more : SyncSends(more)'
  BY <1>1, SyncSendsStep
<1>3. PICK fus : FollowUpSends(fus)
  BY DEF Spread
<1>4. PICK morefus : FollowUpSends(morefus)'
  BY <1>3, FollowUpSendsStep
<1>5. InWindow(switch_pending)' /\ InWindow(slave_pending)'
  BY WindowsStep DEF Spread
<1> QED
  BY <1>2, <1>4, <1>5 DEF Spread

LEMMA SpreadInit == Init => Spread
<1>1. ASSUME Init PROVE Spread
  <2>1. /\ net = {} /\ now = 0 /\ unsent[1] = {}
        /\ DOMAIN switch_pending = {} /\ DOMAIN slave_pending = {}
    BY <1>1 DEF Init
  <2>2. Syncs(1) = {} /\ Syncs(2) = {} /\ FollowUps(1) = {}
    BY <2>1 DEF Syncs, FollowUps
  <2>3. SyncSends({}) /\ FollowUpSends({})
    BY <2>1, <2>2 DEF SyncSends, FollowUpSends, Spaced
  <2>4. InWindow(switch_pending) /\ InWindow(slave_pending)
    BY <2>1 DEF InWindow
  <2> QED
    BY <2>3, <2>4 DEF Spread
<1> QED
  BY <1>1

-----------------------------------------------------------------------------
(***************************************************************************)
(* What the invariant gives.                                               *)
(***************************************************************************)
\* The slave pairs a Follow-Up with a Sync: Corrected bounds what the switch and
\* the first hop contributed, and the last peer delay is one estimate more.
LEMMA ErrorOfPair ==
  ASSUME Types, Paired, NEW m \in net, SlaveFollowUp(m)
  PROVE  error' # 0 => error' \in 2 * Early - Slip .. 2 * Late
<1> DEFINE p == slave_pending[m.seq]
           a == [life |-> p.life, seq |-> m.seq, first |-> p.received_at, last |-> p.received_at]
<1>1. /\ m \in Relays /\ now - m.at \in MinDelay .. MaxDelay /\ m.seq \in DOMAIN slave_pending
      /\ now \in Nat /\ m.life \in Nat /\ m.at \in Nat /\ m.precise \in Nat /\ m.correction \in Int
  BY NowNat, MessageFacts DEF SlaveFollowUp, Arrived, Relays, FollowUps
<1>2. /\ p.received_at \in Nat /\ p.offset \in Int /\ p.life \in Nat
      /\ p.ingress = p.received_at + p.offset /\ p.received_at <= now
  BY <1>1, TimeSyncAssumption DEF Types, Timed, Paired
<1>3. a \in Arrivals /\ a.life = p.life /\ a.seq = m.seq /\ a.first = p.received_at /\ a.last = p.received_at
  BY <1>1 DEF Arrivals, Received
<1>4. PICK upstream \in Estimates :
        error' = IF Common(m.life, p.life) = Mixed THEN 0
                 ELSE p.ingress - (m.precise + m.correction + upstream) - p.offset
  BY DEF SlaveFollowUp
<1> HIDE DEF p, a
<1>5. SUFFICES ASSUME error' # 0
               PROVE  error' \in 2 * Early - Slip .. 2 * Late
  OBVIOUS
<1>6. Common(m.life, p.life) # Mixed
  BY <1>4, <1>5
<1>7. m.life # Mixed /\ Same(a, m)
  BY <1>1, <1>2, <1>3, <1>6, CommonFacts DEF Same
<1>8. Named(m) = m.precise + m.correction
  BY DEF Named
<1>9. error' = p.received_at - Named(m) - upstream
  BY <1>1, <1>2, <1>4, <1>6, <1>8, EstimateFacts
<1>10. /\ m.correction >= Min(Estimates)
       /\ p.received_at >= Named(m) - Max(Estimates) + 2 * MinDelay - Slip
       /\ \/ p.received_at <= Named(m) - Min(Estimates) + 2 * MaxDelay
          \/ m.at <= m.precise + MaxDelay
  BY <1>1, <1>3, <1>7 DEF Corrected, Paired
<1>11. Slip \in Int
  BY TimeSyncAssumption DEF Slip
<1>12. p.received_at <= Named(m) - Min(Estimates) + 2 * MaxDelay
  BY <1>1, <1>2, <1>8, <1>10, EstimateFacts, TimeSyncAssumption
<1> QED
  BY <1>1, <1>2, <1>8, <1>9, <1>10, <1>11, <1>12, EstimateFacts, TimeSyncAssumption DEF Early, Late

LEMMA ErrorStep ==
  ASSUME Types, Types', Paired, OffsetError, [Next]_vars
  PROVE  OffsetError'
<1>1. Slip' = Slip
  <2>1. ASSUME NEW m \in net, Dispatch(m) PROVE may_duplicate' = may_duplicate
    BY <2>1 DEF Dispatch, SwitchSync, SwitchFollowUp, SlaveSync, SlaveFollowUp, IgnoreFollowUp, master
  <2>2. may_duplicate' = may_duplicate
    BY <2>1 DEF Next, vars, master, SendSync, SendFollowUp, RelayFollowUp, Stop, RestartMaster, Tick
  <2> QED
    BY <2>2 DEF Slip
<1>2. ASSUME NEW m \in net, Dispatch(m), ~SlaveFollowUp(m)
      PROVE  error' = error
  BY <1>2 DEF Dispatch, SwitchSync, SwitchFollowUp, SlaveSync, IgnoreFollowUp, nodes
<1>3. \/ error' = error \/ error' = 0
      \/ \E m \in net : SlaveFollowUp(m)
  BY <1>2 DEF Next, vars, nodes, SendSync, SendFollowUp, RelayFollowUp, Stop, RestartMaster, Tick
<1> QED
  BY <1>1, <1>3, ErrorOfPair DEF OffsetError, Early, Late

LEMMA TypeOKHolds ==
  ASSUME Types, Paired
  PROVE  TypeOK
<1>1. ASSUME NEW hop \in {1, 2} PROVE Cardinality(unsent[hop]) <= 1
  <2>1. CASE unsent[hop] = {}
    BY <2>1, FS_EmptySet
  <2>2. CASE unsent[hop] # {}
    <3>1. PICK m : unsent[hop] = {m}
      BY <2>2 DEF Labelled, Paired
    <3>2. Cardinality(unsent[hop]) = 1
      BY <3>1, FS_Singleton
    <3> QED
      BY <3>2
  <2> QED
    BY <2>1, <2>2
<1>2. ASSUME NEW s \in DOMAIN switch_pending, switch_pending[s].life = life
      PROVE  s < seq_id
  <2>1. [life |-> switch_pending[s].life, seq |-> s, at |-> switch_pending[s].ingress] \in Held
    BY DEF Held
  <2> QED
    BY <1>2, <2>1 DEF Numbered, Used, Paired, Types
<1>3. ASSUME NEW s \in DOMAIN slave_pending, slave_pending[s].life = life
      PROVE  s < seq_id
  <2>1. [life |-> slave_pending[s].life, seq |-> s, first |-> slave_pending[s].received_at,
         last |-> slave_pending[s].received_at] \in Arrivals
    BY DEF Arrivals, Received
  <2> QED
    BY <1>3, <2>1 DEF Numbered, Used, Paired, Types
<1> QED
  BY <1>1, <1>2, <1>3 DEF TypeOK, Types

\* The types, the numbers among them: what the switch or the slave waits for
\* with a number of the grand master's present life, was sent in that life.
THEOREM TypeCorrect == Spec => []TypeOK
<1>1. Init => Types /\ Paired
  BY TypesInit, PairedInit
<1>2. Types /\ Paired /\ [Next]_vars => Types' /\ Paired'
  BY TypesStep, PairedStep
<1>3. Types /\ Paired => TypeOK
  BY TypeOKHolds
<1> QED
  BY <1>1, <1>2, <1>3, PTL DEF Spec

\* The offset Slave._on_follow_up computes is off by what the two hops can be
\* off, for any delays, peer delay estimates, clock steps and restarts, and
\* with duplicates by one variation of the delay more.
THEOREM OffsetBounded == Spec => []OffsetError
<1>1. Init => Types /\ Paired /\ OffsetError
  <2>1. Init => OffsetError
    BY DEF Init, OffsetError
  <2> QED
    BY <2>1, TypesInit, PairedInit
<1>2. Types /\ Paired /\ OffsetError /\ [Next]_vars => Types' /\ Paired' /\ OffsetError'
  BY TypesStep, PairedStep, ErrorStep
<1> QED
  BY <1>1, <1>2, PTL DEF Spec

\* As many wait as sends fit into the time from which they can have come.
LEMMA PendingCount ==
  ASSUME NEW p, NEW sends, NEW low \in Nat, NEW high \in Nat, low <= high, now \in Nat,
         Spaced(sends, Interval), InWindow(p), \A s \in DOMAIN p : p[s].received_at \in Nat,
         \A s \in DOMAIN p : \E x \in sends : x.seq = s /\ p[s].received_at - x.at \in low .. high
  PROVE  Cardinality(DOMAIN p) <= (PendingLife + high - low) \div Interval + 1
<1>1. PendingLife \in Nat /\ Interval \in Nat \ {0}
  BY TimeSyncAssumption
<1>2. PICK last \in 0 .. now : \A s \in DOMAIN p : p[s].received_at \in last - PendingLife .. last
  BY DEF InWindow
<1>3. PICK W, base : W = PendingLife + high - low /\ base = last - PendingLife - high
  OBVIOUS
<1>4. W \in Nat /\ base \in Int /\ base + W = last - low
  BY <1>1, <1>3
<1>5. ASSUME NEW s \in DOMAIN p
      PROVE  \E x \in sends : x.seq = s /\ x.at \in base .. base + W
  <2>1. PICK x \in sends : x.seq = s /\ p[s].received_at - x.at \in low .. high
    OBVIOUS
  <2>2. x.at \in Nat
    BY DEF Spaced, Sends
  <2> QED
    BY <1>1, <1>2, <1>3, <1>4, <2>1, <2>2
<1>6. Cardinality(DOMAIN p) <= W \div Interval + 1
  BY <1>1, <1>4, <1>5, WaitingCount
<1> QED
  BY <1>3, <1>6

LEMMA PendingOfSpread ==
  ASSUME Types, Spread
  PROVE  PendingBounded
<1>1. MinDelay \in Nat /\ MaxDelay \in Nat /\ MinDelay <= MaxDelay /\ PendingLife \in Nat /\ now \in Nat
  BY NowNat, TimeSyncAssumption
<1>2. Cardinality(DOMAIN switch_pending) <= (PendingLife + MaxDelay - MinDelay) \div Interval + 1
  <2>1. PICK sends : SyncSends(sends)
    BY DEF Spread
  <2>2. \A s \in DOMAIN switch_pending : switch_pending[s].received_at \in Nat
    BY DEF Types
  <2> QED
    BY <1>1, <2>1, <2>2, PendingCount DEF SyncSends, Spread
<1>3. Cardinality(DOMAIN slave_pending) <= (PendingLife + 2 * (MaxDelay - MinDelay)) \div Interval + 1
  <2>1. PICK sends : FollowUpSends(sends)
    BY DEF Spread
  <2>2. \A s \in DOMAIN slave_pending : slave_pending[s].received_at \in Nat
    BY DEF Types
  <2>3. PICK low, high : low = 2 * MinDelay /\ high = 2 * MaxDelay
    OBVIOUS
  <2>4. /\ low \in Nat /\ high \in Nat /\ low <= high
        /\ PendingLife + high - low = PendingLife + 2 * (MaxDelay - MinDelay)
    BY <1>1, <2>3
  <2>5. Cardinality(DOMAIN slave_pending) <= (PendingLife + high - low) \div Interval + 1
    BY <1>1, <2>1, <2>2, <2>3, <2>4, PendingCount DEF FollowUpSends, Spread
  <2> QED
    BY <2>4, <2>5
<1> QED
  BY <1>2, <1>3 DEF PendingBounded

\* However many Follow-Ups are lost, the switch and the slave hold no more Syncs
\* than the grand master sends within the time after which they forget one,
\* and the variation of the delays.
THEOREM FewWaiting == Spec => []PendingBounded
<1>1. Init => Types /\ Paired /\ Spread
  BY TypesInit, PairedInit, SpreadInit
<1>2. Types /\ Paired /\ Spread /\ [Next]_vars => Types' /\ Paired' /\ Spread'
  BY TypesStep, PairedStep, SpreadStep
<1>3. Types /\ Spread => PendingBounded
  BY PendingOfSpread
<1> QED
  BY <1>1, <1>2, <1>3, PTL DEF Spec

=============================================================================
