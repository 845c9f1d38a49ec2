------------------------------ MODULE CBSEngine ------------------------------
(***************************************************************************)
(* tas/cbs.py, class CBSEngine: the credit-based shaper of one egress port *)
(* of the switch.  Parties:                                                *)
(*   callers  the threads that run check_and_send as the send_fn of the    *)
(*            TAS engine: the tunnel receive thread, the TAS drain loop    *)
(*            and the TAS wire loop;                                       *)
(*   drain    _drain_loop, the only consumer of the queues;                *)
(*   the dashboard, calling update_config.                                 *)
(*                                                                         *)
(* A tick is the unit of time, slopes are in bits per tick and a frame is  *)
(* given by the ticks it occupies the port.  The clock is never read but   *)
(* for the time since the previous pass, so `elapsed` replaces it; it      *)
(* saturates at ElapsedCap, where every credit is at its ceiling.  `level` *)
(* is no part of the program: it measures what the engine sends.           *)
(***************************************************************************)
EXTENDS Integers, Sequences, FiniteSets

CONSTANTS
  NumTC,            \* NUM_TC
  MaxQueueDepth,    \* MAX_QUEUE_DEPTH
  Configs,          \* configurations the port can be given
  Callers,          \* threads that call check_and_send
  RawTC,            \* values of the tc byte of a tunnel frame
  Sizes,            \* transmission times of frames, in ticks
  NumFrames,        \* bound: calls of check_and_send
  ElapsedCap,       \* bound: largest time between passes told apart
  MaxUpdates,       \* bound: calls of update_config
  MayStop           \* TRUE: stop() may be called

TC == 0 .. NumTC - 1

ClassConfig == [enabled : BOOLEAN, idle_slope_bps : Nat, max_credit_bytes : Nat]
Config == [enabled : BOOLEAN, port_speed_bps : Nat \ {0}, tc_configs : [TC -> ClassConfig]]

ASSUME CBSAssumption ==
  /\ NumTC \in Nat \ {0}
  /\ MaxQueueDepth \in Nat
  /\ Configs \subseteq Config
  /\ IsFiniteSet(Callers)
  /\ RawTC \subseteq Nat
  /\ Sizes \subseteq Nat \ {0} /\ Sizes # {}
  /\ NumFrames \in Nat /\ ElapsedCap \in Nat /\ MaxUpdates \in Nat
  /\ MayStop \in BOOLEAN

VARIABLES
  config,
  running,      \* _running
  updates,      \* calls of update_config so far
  queues,       \* _queues
  credits,      \* _credits
  event,        \* _event is set
  caller,       \* program counters and locals of the callers of check_and_send
  drain,        \* program counter and locals of _drain_loop
  elapsed,      \* time since last_update
  stats,        \* _stats
  arrived,      \* calls of check_and_send that reached a queue or send_fn
  out,          \* calls of send_fn, in order
  dropped,      \* frames refused because the queue was full
  level         \* bits each class has sent beyond its idle slope

port == <<config, running, updates>>
history == <<arrived, out, dropped>>
vars == <<port, queues, credits, event, caller, drain, elapsed, stats, history, level>>

\* sum(cfg.idle_slope_bps ... if cfg.enabled)
Reserved(cfg) ==
  LET sum[n \in 0 .. NumTC] ==
        IF n = 0 THEN 0
        ELSE LET c == cfg.tc_configs[n - 1]
             IN  sum[n - 1] + (IF c.enabled THEN c.idle_slope_bps ELSE 0)
  IN  sum[NumTC]

Validate(cfg) == Reserved(cfg) < cfg.port_speed_bps

SendSlope(class, speed) == class.idle_slope_bps - speed

Clamp(tc) == IF tc < 0 THEN 0 ELSE IF tc > NumTC - 1 THEN NumTC - 1 ELSE tc

AtMost(x, bound) == IF x <= bound THEN x ELSE bound
AtLeast(x, bound) == IF x >= bound THEN x ELSE bound

NoItem == [frame |-> 0, tc |-> 0, ticks |-> 0]
NoCall == [pc |-> "idle", tc |-> 0, ticks |-> 0]

\* Mutant of RecordSent: every frame counts as queued.
RecordSentQueued(tc, queued) ==
  stats' = [stats EXCEPT !.sent[tc] = @ + 1, !.queued[tc] = @ + 1]

RecordSent(tc, queued) ==
  stats' = [stats EXCEPT !.sent[tc] = @ + 1,
                         !.queued[tc] = IF queued THEN @ + 1 ELSE @]

\* send_fn(data, dest_ip, dest_port): the port starts to carry the frame.
Send(item, held, speed) ==
  /\ out' = Append(out, [frame |-> item.frame, tc |-> item.tc, held |-> held])
  /\ level' = [level EXCEPT ![item.tc] = @ + speed * item.ticks]

Init ==
  /\ config \in Configs
  /\ running = TRUE
  /\ updates = 0
  /\ queues = [tc \in TC |-> << >>]
  /\ credits = [tc \in TC |-> 0]
  /\ event = FALSE
  /\ caller = [c \in Callers |-> NoCall]
  /\ drain = [pc |-> "wait", speed |-> config.port_speed_bps, elapsed |-> 0,
              pending_tc |-> -1, pending_drain |-> 0, exclude_tc |-> -1,
              item |-> NoItem, left |-> 0]
  /\ elapsed = 0
  /\ LET zero == [tc \in TC |-> 0]
     IN  stats = [sent |-> zero, queued |-> zero, dropped |-> zero]
  /\ arrived = 0
  /\ out = << >>
  /\ dropped = {}
  /\ level = [tc \in TC |-> 0]

-----------------------------------------------------------------------------
(***************************************************************************)
(* check_and_send.  Frames are numbered when they reach a queue or send_fn,*)
(* so that calls in progress have no order yet.                            *)
(***************************************************************************)
\* Callers on their way to a queue or to send_fn.
InCall == {c \in Callers : caller[c].pc \in {"check", "bypass", "shaped"}}

\* Mutant of CallStart: the clamped class is not the one the frame is filed under.
CallStartRaw(c, tc, ticks) ==
  /\ caller[c].pc = "idle"
  /\ arrived + Cardinality(InCall) < NumFrames
  /\ caller' = [caller EXCEPT ![c] =
                  [tc |-> tc, ticks |-> ticks,
                   pc |-> IF config.tc_configs[Clamp(tc)].enabled THEN "check" ELSE "bypass"]]
  /\ UNCHANGED <<port, queues, credits, event, drain, elapsed, stats, history, level>>

\* Clamp the class and look up its configuration.
CallStart(c, tc, ticks) ==
  /\ caller[c].pc = "idle"
  /\ arrived + Cardinality(InCall) < NumFrames
  /\ caller' = [caller EXCEPT ![c] =
                  [tc |-> Clamp(tc), ticks |-> ticks,
                   pc |-> IF config.tc_configs[Clamp(tc)].enabled THEN "check" ELSE "bypass"]]
  /\ UNCHANGED <<port, queues, credits, event, drain, elapsed, stats, history, level>>

\* self.config.enabled is a second read of the configuration.
CallCheck(c) ==
  /\ caller[c].pc = "check"
  /\ caller' = [caller EXCEPT ![c].pc = IF config.enabled THEN "shaped" ELSE "bypass"]
  /\ UNCHANGED <<port, queues, credits, event, drain, elapsed, stats, history, level>>

CallBypass(c) ==
  /\ caller[c].pc = "bypass"
  /\ arrived' = arrived + 1
  /\ Send([frame |-> arrived + 1, tc |-> caller[c].tc, ticks |-> caller[c].ticks],
          FALSE, 0)
  /\ RecordSent(caller[c].tc, FALSE)
  /\ caller' = [caller EXCEPT ![c] = NoCall]
  /\ UNCHANGED <<port, queues, credits, event, drain, elapsed, dropped>>

\* Under the lock: a full queue refuses the frame.
CallRefuse(c) ==
  /\ caller[c].pc = "shaped"
  /\ Len(queues[caller[c].tc]) >= MaxQueueDepth
  /\ arrived' = arrived + 1
  /\ dropped' = dropped \union {arrived + 1}
  /\ stats' = [stats EXCEPT !.dropped[caller[c].tc] = @ + 1]
  /\ caller' = [caller EXCEPT ![c] = NoCall]
  /\ UNCHANGED <<port, queues, credits, event, drain, elapsed, out, level>>

\* Under the lock: append...
CallAppend(c) ==
  /\ caller[c].pc = "shaped"
  /\ Len(queues[caller[c].tc]) < MaxQueueDepth
  /\ arrived' = arrived + 1
  /\ queues' = [queues EXCEPT ![caller[c].tc] =
                  Append(@, [frame |-> arrived + 1, tc |-> caller[c].tc,
                             ticks |-> caller[c].ticks])]
  /\ caller' = [caller EXCEPT ![c].pc = "signal"]
  /\ UNCHANGED <<port, credits, event, drain, elapsed, stats, out, dropped, level>>

\* ... and, after it is released, wake the drain loop and count the frame.
CallSignal(c) ==
  /\ caller[c].pc = "signal"
  /\ event' = TRUE
  /\ RecordSent(caller[c].tc, TRUE)
  /\ caller' = [caller EXCEPT ![c] = NoCall]
  /\ UNCHANGED <<port, queues, credits, drain, elapsed, history, level>>

-----------------------------------------------------------------------------
(***************************************************************************)
(* _drain_loop: the outer loop waits for the event...                      *)
(***************************************************************************)
\* Mutant of DrainWake: wait() without a timeout.
DrainWakeOnEvent ==
  /\ drain.pc = "wait"
  /\ running /\ event
  /\ drain' = [drain EXCEPT !.pc = "clear"]
  /\ UNCHANGED <<port, queues, credits, event, caller, elapsed, stats, history, level>>

\* wait(timeout = 0.005) returns, set or not.
DrainWake ==
  /\ drain.pc = "wait"
  /\ running
  /\ drain' = [drain EXCEPT !.pc = "clear"]
  /\ UNCHANGED <<port, queues, credits, event, caller, elapsed, stats, history, level>>

DrainClear ==
  /\ drain.pc = "clear"
  /\ event' = FALSE
  /\ drain' = [drain EXCEPT !.pc = "pass"]
  /\ UNCHANGED <<port, queues, credits, caller, elapsed, stats, history, level>>

(***************************************************************************)
(* ... and the inner loop makes passes over the classes.                   *)
(***************************************************************************)
\* now, elapsed and last_update, before the lock is taken.
PassSample ==
  /\ drain.pc = "pass"
  /\ running
  /\ drain' = [drain EXCEPT !.pc = "locked", !.elapsed = elapsed]
  /\ elapsed' = 0
  /\ UNCHANGED <<port, queues, credits, event, caller, stats, history, level>>

\* Mutant of Charged: the charge of the previous transmission is forgotten.
ChargedNothing == credits

\* The previous transmission is charged, down to -max_credit_bytes.
Charged ==
  IF drain.pending_tc < 0 THEN credits
  ELSE [credits EXCEPT ![drain.pending_tc] =
          AtLeast(@ + drain.pending_drain,
                  -config.tc_configs[drain.pending_tc].max_credit_bytes)]

\* Each enabled class but the one that just sent gains its idle slope while its
\* credit is negative; a positive credit is lost with an empty queue.
Replenished ==
  [tc \in TC |->
    LET class == config.tc_configs[tc]
        credit == Charged[tc]
        gained == credit + class.idle_slope_bps * drain.elapsed
    IN  IF tc = drain.exclude_tc \/ ~class.enabled THEN credit
        ELSE IF credit < 0
          THEN AtMost(gained, IF queues[tc] = << >> THEN 0 ELSE class.max_credit_bytes)
        ELSE IF queues[tc] = << >> THEN 0 ELSE credit]

\* Mutant of Eligible: a credit of zero does not entitle to send.
EligibleStrict == {tc \in TC : /\ config.tc_configs[tc].enabled
                               /\ queues[tc] # << >>
                               /\ Replenished[tc] > 0}

\* Classes that may send, given the replenished credits.
Eligible == {tc \in TC : /\ config.tc_configs[tc].enabled
                         /\ queues[tc] # << >>
                         /\ Replenished[tc] >= 0}

AnyQueued == \E tc \in TC : config.tc_configs[tc].enabled /\ queues[tc] # << >>

\* Mutant of PassSelect: the newest frame of the class is popped.
PassSelectNewest(tc) ==
  /\ drain.pc = "locked"
  /\ tc \in Eligible /\ \A other \in Eligible : other <= tc
  /\ credits' = Replenished
  /\ queues' = [queues EXCEPT ![tc] = SubSeq(@, 1, Len(@) - 1)]
  /\ drain' = [drain EXCEPT !.pc = "send", !.elapsed = 0, !.pending_tc = -1,
                            !.pending_drain = 0, !.exclude_tc = -1,
                            !.item = queues[tc][Len(queues[tc])]]
  /\ UNCHANGED <<port, event, caller, elapsed, stats, history, level>>

\* Under the lock: update the credits and pick the highest eligible class.
PassSelect(tc) ==
  /\ drain.pc = "locked"
  /\ tc \in Eligible /\ \A other \in Eligible : other <= tc
  /\ credits' = Replenished
  /\ queues' = [queues EXCEPT ![tc] = Tail(@)]
  /\ drain' = [drain EXCEPT !.pc = "send", !.elapsed = 0, !.pending_tc = -1,
                            !.pending_drain = 0, !.exclude_tc = -1,
                            !.item = Head(queues[tc])]
  /\ UNCHANGED <<port, event, caller, elapsed, stats, history, level>>

\* Mutant of PassIdle: the loop waits although frames are queued.
PassIdleWaits ==
  /\ drain.pc = "locked"
  /\ Eligible = {}
  /\ credits' = Replenished
  /\ drain' = [drain EXCEPT !.pc = "wait", !.elapsed = 0, !.pending_tc = -1,
                            !.pending_drain = 0, !.exclude_tc = -1]
  /\ UNCHANGED <<port, queues, event, caller, elapsed, stats, history, level>>

\* Nothing may be sent: poll again while frames are queued, else wait.
PassIdle ==
  /\ drain.pc = "locked"
  /\ Eligible = {}
  /\ credits' = Replenished
  /\ drain' = [drain EXCEPT !.pc = IF AnyQueued THEN "pass" ELSE "wait",
                            !.elapsed = 0, !.pending_tc = -1,
                            !.pending_drain = 0, !.exclude_tc = -1]
  /\ UNCHANGED <<port, queues, event, caller, elapsed, stats, history, level>>

\* The frame goes out first, then the loop waits for its transmission time.  The
\* slope is that of the configuration in force now, the speed the one read when
\* the loop started.
DrainSend ==
  /\ drain.pc = "send"
  /\ Send(drain.item, TRUE, drain.speed)
  /\ drain' = [drain EXCEPT !.pc = "busy", !.left = drain.item.ticks,
                 !.pending_drain = SendSlope(config.tc_configs[drain.item.tc], drain.speed)
                                     * drain.item.ticks]
  /\ UNCHANGED <<port, queues, credits, event, caller, elapsed, stats, arrived, dropped>>

DrainSent ==
  /\ drain.pc = "busy"
  /\ drain.left = 0
  /\ drain' = [drain EXCEPT !.pc = "pass", !.pending_tc = drain.item.tc,
                            !.exclude_tc = drain.item.tc, !.item = NoItem]
  /\ UNCHANGED <<port, queues, credits, event, caller, elapsed, stats, history, level>>

-----------------------------------------------------------------------------
\* update_config validates (the store has, too) and takes the lock.
UpdateConfig(cfg) ==
  /\ updates < MaxUpdates
  /\ Validate(cfg)
  /\ updates' = updates + 1
  /\ config' = cfg
  /\ UNCHANGED <<running, queues, credits, event, caller, drain, elapsed, stats,
                 history, level>>

Stop ==
  /\ MayStop /\ running
  /\ running' = FALSE
  /\ event' = TRUE
  /\ UNCHANGED <<config, updates, queues, credits, caller, drain, elapsed, stats,
                 history, level>>

\* A tick passes, whatever the threads are doing: a transmission lasts at least
\* its time.  Bits within the idle slope are forgiven in `level`.
Tick ==
  /\ elapsed' = AtMost(elapsed + 1, ElapsedCap)
  /\ drain' = [drain EXCEPT !.left = AtLeast(@ - 1, 0)]
  /\ level' = [tc \in TC |-> AtLeast(level[tc] - config.tc_configs[tc].idle_slope_bps, 0)]
  /\ UNCHANGED <<port, queues, credits, event, caller, stats, history>>

-----------------------------------------------------------------------------
CallRest(c) ==
  \/ CallCheck(c) \/ CallBypass(c) \/ CallRefuse(c) \/ CallAppend(c) \/ CallSignal(c)

DrainLoop ==
  \/ DrainWake \/ DrainClear \/ PassSample
  \/ \E tc \in TC : PassSelect(tc)
  \/ PassIdle \/ DrainSend \/ DrainSent

Next ==
  \/ \E c \in Callers :
       \/ \E tc \in RawTC, ticks \in Sizes : CallStart(c, tc, ticks)
       \/ CallRest(c)
  \/ DrainLoop
  \/ \E cfg \in Configs : UpdateConfig(cfg)
  \/ Stop
  \/ Tick

Spec == Init /\ [][Next]_vars

(***************************************************************************)
(* Fairness: calls in progress complete, the drain loop runs, time passes. *)
(***************************************************************************)
FairSpec ==
  /\ Spec
  /\ \A c \in Callers : WF_vars(CallRest(c))
  /\ WF_vars(DrainLoop)
  /\ WF_vars(Tick)

-----------------------------------------------------------------------------
CallStates == {"idle", "check", "bypass", "shaped", "signal"}
DrainStates == {"wait", "clear", "pass", "locked", "send", "busy"}
ItemType == [frame : Nat, tc : TC, ticks : Nat]

PortType == config \in Configs /\ running \in BOOLEAN /\ updates \in 0 .. MaxUpdates

QueueType ==
  /\ queues \in [TC -> Seq(ItemType)]
  /\ \A tc \in TC : \A k \in DOMAIN queues[tc] : queues[tc][k].tc = tc

CallerType == caller \in [Callers -> [pc : CallStates, tc : TC, ticks : Nat]]

DrainType ==
  drain \in [pc : DrainStates, speed : Nat, elapsed : Nat, pending_tc : TC \union {-1},
             pending_drain : Int, exclude_tc : TC \union {-1}, item : ItemType, left : Nat]

CreditType == credits \in [TC -> Int] /\ level \in [TC -> Nat] /\ elapsed \in 0 .. ElapsedCap

StatsType == stats \in [sent : [TC -> Nat], queued : [TC -> Nat], dropped : [TC -> Nat]]

HistoryType ==
  /\ arrived \in 0 .. NumFrames
  /\ out \in Seq([frame : Nat, tc : TC, held : BOOLEAN])
  /\ dropped \subseteq Nat

\* Every variable has its type, and a frame waits in the queue of its class.
TypeOK ==
  /\ PortType
  /\ QueueType
  /\ CallerType
  /\ DrainType
  /\ CreditType
  /\ StatsType
  /\ HistoryType
  /\ event \in BOOLEAN

\* The reserved rate is a ceiling: over any interval, however the passes, the
\* other classes and the callers interleave, an enabled class sends at most its
\* idle slope times the length of the interval, plus one credit and one frame.
\* (_drain_loop charges a transmission one pass later, skips the class that just
\* sent, and credits every class for time it measured before taking the lock.)
RateConforms ==
  \A tc \in TC :
    LET class == config.tc_configs[tc]
    IN  class.enabled =>
          \E ticks \in Sizes : level[tc] <= class.max_credit_bytes + drain.speed * ticks

\* The same ceiling with max_credit_bytes read as a number of bytes, eight times
\* what the engine compares its credits with, which are in bits.  Where the
\* charge of a frame exceeds max_credit_bytes, part of it is forgotten with every
\* frame, and no burst allowance is enough.
ReservedRate ==
  \A tc \in TC :
    LET class == config.tc_configs[tc]
    IN  class.enabled =>
          \E ticks \in Sizes : level[tc] <= 8 * class.max_credit_bytes + drain.speed * ticks

\* No wake-up is lost: while the loop sleeps with a frame of an enabled class
\* queued, the event is set or the caller that queued it is about to set it, so
\* the 5 ms timeout is never what makes a frame go out.  (_event is cleared
\* before the pass and set after the lock is released.)
NoLostWakeup ==
  drain.pc = "wait" /\ AnyQueued
    => event \/ \E c \in Callers : caller[c].pc = "signal"

\* Callers that have queued a frame of the class and not counted it yet.
Signalling(tc) == {c \in Callers : caller[c].pc = "signal" /\ caller[c].tc = tc}
OnPort(tc) == IF drain.pc = "send" /\ drain.item.tc = tc THEN 1 ELSE 0
SentHeld(tc) == {k \in DOMAIN out : out[k].held /\ out[k].tc = tc}

\* The dashboard's counters: each frame counted as queued is in its queue, on
\* the port or sent, and a frame not yet counted belongs to a call in progress.
StatsBalance ==
  \A tc \in TC :
    stats.queued[tc] + Cardinality(Signalling(tc))
      = Len(queues[tc]) + OnPort(tc) + Cardinality(SentHeld(tc))

\* Every frame accepted leaves or is refused in the end.
Gone(f) == f \in dropped \/ \E k \in DOMAIN out : out[k].frame = f
EveryFrameGoes == \A f \in 1 .. NumFrames : arrived >= f ~> Gone(f)

\* Whatever the configuration was in between, a class that in the end is enabled
\* and has a rate gets rid of its backlog: frames stranded while it was disabled,
\* and a charge that could not be worked off at rate zero.  (Nothing wakes the
\* drain loop after update_config but the timeout of its wait.)
BacklogDrains ==
  \A tc \in TC :
    <>[](running /\ config.tc_configs[tc].enabled /\ config.tc_configs[tc].idle_slope_bps > 0)
      => <>[](queues[tc] = << >>)

=============================================================================
