# V-TSN: specifications and proofs

V-TSN emulates a small TSN network over UDP: a grand master and slaves that run
a gPTP-like time synchronisation, a software switch with a Time-Aware Shaper
(TAS, 802.1Qbv) and a Credit-Based Shaper (CBS, 802.1Qav) on every egress port,
endpoints that feed Ethernet frames into the switch, and a web dashboard that
shows the network and configures the shapers.

This directory holds TLA+ modules for the parts that carry the system's logic,
TLC configurations that check them on small instances, and theorems with proofs
for TLAPS. `PROJECT.json` ties them to the code: which definition stands for
which lines, which run checks what, for each property a plausible bug of the
code that breaks it, and every hazard we know of, covered or not.

    tlc -workers 2 -config MCTASEngine_prompt.cfg MCTASEngine    # one run
    tlapm TASProofs.tla                                          # one module of proofs

All source paths below are relative to `src/`.


## 1. Inventory

The repository has no tests; its documentation is `README.md`. Everything is
plain Python threads and blocking sockets, so any two statements of different
threads interleave unless a lock orders them.

| component | code | keeps | operations | model |
|---|---|---|---|---|
| TAS engine | `tas/engine.py` | configuration, gate queues, wire queues with a sequence counter, counters | `enqueue`, `_drain_loop`, `_wire_loop`, `update_config`, `start`/`stop` | `TASConfig`, `TASEngine`, `TASPort` |
| CBS engine | `tas/cbs.py` | configuration, queues, credits, an event, counters | `check_and_send`, `_drain_loop`, `update_config`, `start`/`stop` | `CBSEngine`, `CBSPort` |
| configuration store | `tas/store.py` | the configurations of every port, the file they are saved in, listeners | `_load`, `update_*`, `reset_*`, `_save`, `_notify` | `ConfigStore` |
| dashboard requests | `dashboard/app.py` | nothing of their own | four POST routes that change a configuration, many that read | `ConfigStore` |
| switch forwarding | `nodes/switch.py` | the two engines of each port, waiting Syncs | tunnel frames into the engines, Sync relay, `_on_config_update` | `SwitchPort` for a port; `Endpoint` for the dispatch, `ConfigStore` for the listener, `TimeSync` for the relay |
| Sync path | `nodes/master.py`, `switch.py`, `slave.py` | sequence number, waiting Syncs by number | `_send_sync`, `_on_sync`, `_on_follow_up` | `TimeSync` |
| peer delay | `protocol/peer_delay.py`, `core/filter.py` | pending requests, the last delay samples | `_send_req`, `on_req`, `on_resp`, `on_resp_fu`; `add`, `get_best` | `PeerDelay`, `DelayFilter` |
| clock and servo | `core/clock.py` | offset, integral | `now_ns`, `adjust` | `ClockServo`; elsewhere any step |
| node base | `nodes/base_node.py` | sessions, peers, socket | `_recv_loop`, `_dispatch`, `_add_pdelay_session` | `Messages` up to the handler; the handlers in the protocol modules |
| messages, tunnel | `protocol/messages.py`, `tunnel.py` | none | pack, unpack | `Messages`; tunnel header in `Endpoint` |
| accuracy probe | `nodes/slave.py`, `accuracy/metrics.py` | pending probes, error samples | probe request and answer, summary | `AccuracyProbe`, `Metrics` |
| endpoint | `endpoint/agent.py`, `tap.py` | a TAP device and a socket | classification, two copying loops | `Endpoint`, both directions, without the loops |
| display | `dashboard/state.py`, `dashboard/app.py`, `core/reporter.py` | last values of every node | report, update, status | `NodeReports`, without the pages |
| drift logger | `core/drift_logger.py` | samples of every node, a spreadsheet | `record`, `flush` by two threads, statistics | `DriftLog`, `Metrics` |
| start scripts | `run_*.py` | none | argument parsing | not modelled |

How they meet. A tunnel frame is received by the switch's one tunnel thread and
handed, for each port, to `TASEngine.enqueue`. The TAS engine sends it at once,
or from its drain thread, or from its wire thread; `send_fn` is the CBS
engine's `check_and_send`, so the CBS engine is called by three threads. It
sends at once or from its own drain thread. Each of the callers is inside
`check_and_send` until it returns. The dashboard's request threads
call the store, which saves the file and calls `update_config` of both engines
of a port while all those threads run. On the time side, each node's receive
thread dispatches messages to the peer delay objects and to the node; the slave
feeds each computed offset into its servo, which steps the clock that the peer
delay exchange is reading at that moment. The slave also probes the grand master
directly, past the switch, to measure its error; and every node posts its last
offset to the dashboard, whose request threads hand it to the drift logger.

What is hard here, and what we ask of it:

* *TAS engine.* The gate queues have a lock, the wire queues, the sequence
  counter and the configuration have none. Ages and gates are judged by a clock
  read earlier. Correct: no frame is lost or sent twice; order within a class is
  kept but for frames that were never held; a frame starts to leave in an open
  window; a window empties its queue; only classes that are never opened lose
  frames to the age limit; counters add up.
* *CBS engine.* The event is cleared before and set after the critical
  sections. Charges are applied one pass late, the class that sent is left out
  once, and elapsed time is taken before the lock. Correct: the reserved rate
  is a ceiling; no wake-up is lost; every queued frame goes; counters add up.
* *Port.* Two engines in series, four threads, six queues, two sets of counters.
  Correct: what an engine promises, the port promises, as far as the other
  engine lets it.
* *Store.* `_notify` works outside the lock, `_save` truncates the file, its
  errors are swallowed. Correct: engines run what the store shows; a restart
  brings back what was set, or what was last written, never a mixture; nothing
  invalid runs.
* *Peer delay.* Numbers are reused after a restart; responses and follow-ups
  are not matched with each other; clocks are stepped within an exchange.
  Correct: a sample is a delay of the path; pending requests do not pile up.
* *Sync path.* Pairing by number at two hops, with messages lost, late,
  reordered or doubled, and a grand master that restarts. Correct: the offset is off by the delays' errors only;
  waiting Syncs do not pile up.
* *Servo.* The integral winds up while a step is limited to 10 ms. Correct: the
  swings die out, and a drift is taken up completely.
* *Endpoint.* Four tables and two headers carry a frame's class to the port.
  Correct: the class an application asks for is the one that is shaped.
* *Messages.* One layout for three messages, names cut to 32 bytes, packets of
  any length. Correct: a message is handled as it was sent or not at all.
* *Accuracy probe.* Numbers start over after a restart, answers are doubled, the
  servo steps the clock meanwhile. Correct: a sample is the slave's error but for
  the asymmetry of the way.
* *Reports.* A post waits for the connection and again for the answer, and may be
  given up while it is still handled, or be lost. Correct: a node whose reports
  arrive is not shown as offline, and never with an older offset than before.
* *Drift log.* The copy is taken under a lock and written without it. Correct:
  the newest samples are kept, and a flush on its own leaves a file with all of
  those it began with, in every part.

PROJECT.json lists every hazard at its line.


## 2. The modules

Time is discrete: a tick is the unit of every duration. An action is what a
thread does between two points where another thread can observe or change
shared state; statements on locals are folded into the neighbouring action, and
a critical section is one action. Frames are numbered in the order they enter
and carry nothing but that number, a class, and what the engine attaches.
Mutated forms of definitions stand next to the original and are marked
"Mutant of"; nothing in a specification uses them.

**TASConfig** is the pure part of `tas/engine.py`: `Validate`, and the gate
decision. `_is_gate_open` reads the configuration once for the offset in the
cycle and once for the list, so it is two operators (`CycleOffset`, `GateAt`)
that unlocked callers apply to possibly different configurations. Running sums
are a recursive function, which keeps the module usable in proofs.

**TASEngine** has three threads. *rx* runs `enqueue`: `EnqueueBypass`
(shaping disabled), or `EnqueueSample` (clamp, clock, offset), `EnqueueJudge`
(gate list), and then `EnqueueSend`, or `EnqueueHold` and `EnqueueCount`, or the
steps into a wire queue. *drain* runs `DrainSample` (clock, age limit, wire or
not, all before the lock), `DrainScan` (the critical section: expire, release),
then the batch in the order of the stable sort, one `DrainSend` or one walk
into a wire queue per frame. A thread that has called `send_fn` is inside the call
("sent") until it counts the frame (`Counted`): `record_sent` comes after the call. `_wire_seq += 1` is a load and a store
(`BumpLoad`, `BumpStore`) for either thread. *wire* runs `_wire_loop` class by
class: `WireOffset`, `WireJudge`, `WireTake` (popleft), the transmission time,
`WireSend`. `UpdateConfig` and `Stop` may fall anywhere but inside a critical
section. A gate queue is a set of items: arrival order is frame order, so the
list is the set, sorted. `out` and `dropped` are histories. `send_fn` does not
fail (the switch's swallows its errors), and one transmission time stands for
all (`TxTicks`).

**CBSEngine** has any number of callers in `check_and_send` and one drain
thread. `CallStart` and `CallCheck` are the two reads of the configuration;
`CallAppend` (locked) and `CallSignal` (not locked) are apart, as are
`DrainWake` and `DrainClear`. A pass is `PassSample` (elapsed time) and then the
critical section, `PassSelect` or `PassIdle`, with the operators `Charged`,
`Replenished` and `Eligible` for its three parts; `DrainSend` and `DrainSent`
are the transmission. The engine only uses the time since the previous pass, so
that is the clock. Credits are integers, a floor at `max_credit_bytes` included,
which the code compares with bits. `level` measures what a class has sent beyond
its idle slope: a leaky bucket no part of the engine can see.

Among the configurations are classes without a rate, whose first charge stays
until the configuration is changed (`validate` accepts a slope of zero).

**EgressPort** is the abstract specification of an egress shaper: what the caller
may rely on. A frame accepted leaves at most once or is discarded, never both;
until the configuration is first changed (`fixed`), a frame can be passed within
its class only while it is held, by one that never was. **TASPort** and
**CBSPort** instantiate it with a refinement mapping (`PortSpec`). The CBS engine
keeps its queues through every change, so its mapping has `fixed` always true.

**SwitchPort** is a port as `_broadcast_data` uses it: `TASEngine` and `CBSEngine`
together, every variable of both, where a step of the TAS engine that calls its
`send_fn` also begins a call of the CBS engine (`HandOver`), and the thread goes on,
counting the frame first, when the call has returned. The CBS engine numbers frames as it gets hold of them,
so `relayed` says which they are. It implements `EgressPort` once more
(`EndToEnd`): what was shown of each engine holds of the two in series.

**ConfigStore** has the store, the engines' configurations, the file, and
request handlers as threads. `Store` takes the lock and changes the store; `Open`
opens the file, which truncates it, or fails and leaves the file as it was; `Save`
writes all ports, or breaks off, and releases the lock. Failures are swallowed: the
handler goes on to `ReadTAS`, `ReadCBS`, `ApplyTAS`, `ApplyCBS`, which are `_notify`
and its listener. `Crash` may come between any two of these steps, and while the
switch is down an operator may `Edit` the file. Configurations are opaque but for
validity. A file that is JSON but not an object, or whose part for a port is not one
(`NotObject`), raises out of `_load` and keeps the switch from starting until it is
edited. The switch constructs store and engines before the dashboard starts, so
`Start` is one action. `saved` (what was last written completely) and `unsaved` are
ghosts.

**DelayFilter** is the window of samples and its estimate; the median is defined
by ranks. **PeerDelay** is one session and its responder, with the clocks of
both nodes, which their servos step (`Adjust`), and a net in which a message
lives from `MinDelay` to `MaxDelay` after the timestamp it carries: it may be
delivered never, once or several times, in any order. A node reads its clock and
sends in one action; what a thread may dawdle between the two is part of the
delay. `Restart` starts the initiator's process again with messages under way.
`sources`, `adjusted` and `reused` are histories.

**TimeSync** follows a Sync and its Follow-Up from the grand master through the
switch to a slave. The grand master's clock is the time; the switch's clock
differs by a constant, which cancels out of a residence time. Each of them sends
the Follow-Up in an action of its own, any time after the Sync
(`SendFollowUp`, `RelayFollowUp`), and the switch's one receive thread handles
nothing in between. The slave's clock is
off by `offset`, which every computed offset may step to any of `Offsets`, so
nothing depends on the servo's law. `error` is the computed offset less the
offset the Sync was stamped under. `RestartMaster` begins a new life with
number 0, after `StartDelay`, with the messages of the old one still under way and
its Syncs still pending at both hops. `may_duplicate` is chosen at the start.

**ClockServo** is `LocalClock.adjust` as the slave calls it, once per Sync: the
true offset, the integral in tenths (the gains are 0.7 and 0.3), an oscillator
that drifts by a constant, and computed offsets that are wrong by any of
`Errors`. **Endpoint** is the classification of a frame in the endpoint's agent,
the tunnel header, the switch's dispatch, and the agent's receiving side with and
without a TAP, as operators.

**Messages** takes a message from `encode` to the handler `_dispatch` calls: the
header, one layout per message class, names that are cut and filled up, packets of
too few or too many bytes, unknown types, and the lookup of the session. A packet
is its length and its fields; numbers are not taken apart, since every sender masks
its sequence numbers to the width they are packed with. **Metrics** is the
arithmetic of the reported percentiles, of the endpoint's tracker (absolute values)
and the drift log's (signed ones).

**AccuracyProbe** is the slave's `_probe_loop`, the grand master's answer and
`_on_probe_resp`, in true time (the grand master's clock), with a clock that is
stepped at any instant and a process that is restarted once. The handler reads the
clock twice, `late` apart.

**NodeReports** is one node's reporter thread and the dashboard's side of it. The
timeout of `urlopen` limits every wait for the socket, not their sum: `Post` begins
to connect, which takes up to `ReportTimeout` (`Connected`, `NotConnected`), and the
answer may take as long again (`TimedOut`). That the head of an answer comes in one
piece, so that there is one wait for it, is an assumption about the dashboard's
server. A report is handled up to `ReportMax` seconds after it was sent, whether or
not the reporter still waits, or it is lost; so may be its answer.

**DriftLog** is the logger with one node's samples, and any number of threads that
flush. The copy (`Copy`), the truncation by `wb.save` (`Open`) and the two halves of
the file (`Write`, `Save`) are steps of their own, between which others write, too;
any of them may raise (`Fail`), and the process may be restarted. `alone` marks a
flush that met no other, `left` remembers the moment such a flush began, from its
end until the file is opened again.

**MCParts** checks the parts that share nothing with another: `TASConfig`,
`Endpoint`, `Messages`, `Metrics`, `ClockServo`, `AccuracyProbe`, `NodeReports`,
`DriftLog`. A behaviour exercises one of them.

Proofs are in modules of their own, each of which extends the modules it is about:
**TASProofs** and **CBSEngineProofs** for the engines, **SwitchPortProofs** for the two
in series, which uses the theorems of both, **ConfigStoreProofs**,
**PeerDelayProofs**, **TimeSyncProofs**, and **PartsProofs** for what `MCParts` puts
together. **NumberFacts** has what several of them need of numbers: a least
counterexample, running sums, remainders, and how many spaced instants fit into an
interval. Section 4 goes through them.



## 3. The runs

| run | module and cfg | checks | outcome |
|---|---|---|---|
| parts | MCParts | `GateFollowsTimeline`, `ClassKept`, `Understood`, `Percentiles`, `NeverFarther`, `ConvergedInBand`, `ServoSettles`, `ErrorTrue`, `LiveShown`, `NewestShown`, `LogComplete` | holds |
| slow | MCTASEngine_slow | `Conserved`, `StatsBalance`, `PortSpec` | holds |
| prompt | MCTASEngine_prompt | `TypeOK`, `DropsOnlyShut`, `StartsInWindow`, `NoSleeper`, `EveryFrameGoes` | holds |
| late_wire | MCTASEngine_late_wire | `EveryFrameGoes` | violated |
| shaped | MCCBSEngine_shaped | `RateConforms`, `NoLostWakeup`, `EveryFrameGoes` | holds |
| hot | MCCBSEngine_hot | `TypeOK`, `StatsBalance`, `PortSpec`, `BacklogDrains` | holds |
| readme | MCCBSEngine_readme | `ReservedRate` | violated |
| crash | MCConfigStore_crash | `TypeOK`, `TASValid`, `EnginesFollowSerial`, `RestartKeeps` | holds |
| race | MCConfigStore_race | `EnginesFollowStore` | violated |
| delay | MCPeerDelay | `TypeOK`, `SamplesGenuine`, `EstimateGenuine`, `PendingBounded` | holds |
| sync | MCTimeSync | `TypeOK`, `OffsetError`, `PendingBounded` | holds |
| chain | MCSwitchPort | `CountersAgree`, `EndToEnd`, `UnshapedInWindow` | holds |

### What they show

*parts* compares the gate decision with the cycle written out tick by tick, for
every valid list of up to three entries with durations up to two, base times
before and after the clock, and each instant of more than one cycle. A fourth
entry only repeats what the boundary between two entries shows. It sends a frame
of every class, and of none, through the agent, the tunnel and the receiving
agent. It starts the servo up to 45 ms off, four and a half of its steps, in both
directions, with a drift of up to 3 ms from Sync to Sync and computed offsets that
are wrong by up to 1 ms in any order (a unit is a millisecond): the clock
overshoots, never swings out farther than it started, and settles within twice the
error. The log's "Clock converged" after five Syncs is true only of a clock that
started within 10 ms (`ConvergedInBand`); from farther off it may be wrong by any
amount.

It encodes every kind of message for senders with names of one to three bytes (of
two that fit) and delivers every prefix of it, and one byte more. `Quantile`
defines a percentile by counting; the lists of the run (`Values`) are all those of up
to four values out of three, and one of every length up to 101, where the 95th and
99th part from the maximum. The theorem is about any lists. Two probes in each of two lives of the slave, over a net that loses,
doubles and reorders, give an error that is true up to half of what the two ways
differ by and half of any step of the clock in between. That an answer to an old
probe never meets a new one rests on `StartDelay > 2 * ProbeMax + Busy`: the three
seconds `_probe_loop` sleeps first. `t1_echo_ns`, which would settle it, is not
looked at. Reports are handled within `ReportTimeout + ReportInterval`
(`ReportAssumption`) or lost; a slower dashboard may show an older offset. Between
two reports that arrive up to nine seconds may pass: two for an answer that does not
come, two of sleep, two for the connection and three until it is handled, so that a
node that loses none is not shown as offline (`PatienceAssumption`,
`LiveShown`). That is all the code's numbers allow: a lost report adds up to six
seconds, which are enough to show a live node as offline. The log keeps two of four
samples, which two threads flush.

*slow* lets every thread be arbitrarily slow, with two frames, while the
configuration changes once, anywhere, among no shaping, gates only, and gates with a
wire, or the port stops. Two frames are what order, duplication and the race
between rx and drain on a wire queue need; an update is what a frame judged under
one configuration and sent under another needs. That is where the properties
"`wire_queues` has two unlocked writers" and "`self.config` is read without a lock"
are decided.

*prompt* assumes that the polling threads complete a round in every tick
(`Prompt`): they poll every 0.1 ms while gate lists are in the order of
milliseconds. Without that assumption no claim about windows could hold. Three
frames and five configurations show that transmissions start in open windows,
that no queue survives an open window, that only a class that is never opened
loses frames, and, under fairness, that every frame goes.

*shaped* has the CBS engine under four configurations in which credits cover the
charge of a frame, three frames, one caller (a second one is in *hot*): the
reserved rate is a ceiling up to one credit and one frame, over every interval
and with the drain thread arbitrarily slow. `NoLostWakeup` says that the 5 ms
timeout of the event is never what makes a frame go out.

*hot* has two callers, three frames, a queue of depth two, two configuration updates
at any points, and stop. The queue can hold two frames and refuse the third, so that
taking from its wrong end would show as an order the port contract forbids. All
frames are of class 1, since class 0 is shaped by none of the configurations: one
shapes class 1, one turns the shaper off, and in one class 1 has no rate. So an
update strands what is queued, and the next one frees it. `BacklogDrains` is what
remains of `EveryFrameGoes` when configurations change: if a class is enabled and has
a rate from some point on, its queue is empty from some point on. A frame queued
under one configuration is thus sent under a later one. No property of this run
looks at the value of a credit or at a speed, of which there is only one.

*crash* has two ports, two handlers, three requests and two crashes, at any point of a
save, before the file is opened included. A switch that starts again with a file
nobody edited has what the store last held, if a save wrote all of it; if not, what
was last written completely (an `open` that failed or was not reached leaves the old
file) or, once the file had been opened, the defaults (`RestartKeeps`). Each port
whose last update did not overlap another on the same port runs what the store shows,
whatever earlier requests left behind. The operator's files (`Edits`) differ from the
default in one section, with any content, or are no objects or unreadable.

*delay* steps either clock by one tick in the middle of an exchange and restarts
the initiator once. Two of its requests, at 0 and 2, are answered in time for the
filter to hold two samples, which may differ, as delays are 1 or 2: then least,
median and estimate are three different numbers. A sample is a delay of the path, up to half of what the
clocks were stepped, even where `t2` and `t3` come from different answers to a
request: each pair of them still brackets a delay of the path. Only samples with
a number that was in flight at a restart are exempt.

*chain* has both engines: classes that take turns, with and without a wire, or a TAS
engine that is disabled, one or both classes shaped by credit, with CBS queues of
depth one, so that frames are refused, too. The TAS threads are prompt; the CBS
thread is as slow as it likes. The counters of the two engines differ by what is on
the virtual wire, in a call, or counted by the CBS engine and not yet by the TAS
engine, which counts when the call has returned (`CountersAgree`). That is a claim about classes both
engines know: a disabled TAS engine counts a frame under the class it was given
(`tas/engine.py:134`), which the CBS engine clamps (`tas/cbs.py:125`), so for a
disabled engine the claim is restricted to classes in range. A disabled engine has
no window to start in either, and with a wire a frame may still be leaving when its
window has closed: `UnshapedInWindow` is about enabled ports without a wire. The
gates hold for an unshaped class. For a shaped one they do not: the credit may let a
frame go when its window has closed, since the CBS engine knows no gates.
README.md:216-220 describes both shapers and promises nothing of the two together.

*sync* bounds the error of the computed offset by the sum of what the two hops'
delays and delay estimates can differ. The time a Sync waits in the switch
cancels exactly. A net that duplicates adds one variation of the delay, in one
direction: the slave may pair a relayed Sync with the Follow-Up of another
relaying of the same number. Both bounds are tight on this instance. The grand master
restarts once, and its second life reuses the numbers of the first while a Sync of
the first may still be pending: offsets from messages of one life are not affected.
One from messages of two lives is wrong by the time between them and is exempt
(`Mixed`): nothing in the code prevents it. One estimate of the delay is enough, as
it enters as a summand.

### Violations

* *readme* (`tas/cbs.py:169`). The credit is kept in bits and its floor in bytes.
  With TC3 of the README's own example, 2 of 10 Mbps, `max_credit_bytes` 2500 and
  frames of 1500 bytes, each frame is charged 9600 and the floor forgets all but
  2500: the class sends at a multiple of the rate that README.md:223 calls
  reserved.
* *late_wire* (`tas/engine.py:109`). The wire thread is created at start only if
  the port has a speed then. Given one later, `enqueue` and the drain loop fill
  wire queues that nobody serves.
* *race* (`tas/store.py:134`). Of two updates of a port at once, the slower
  handler may apply its older values last; store, file and dashboard then show a
  configuration that the engine does not run, until the port is next updated.

Three more disagreements of this kind are in the model and described under
"hazards", without a violation of their own: the CBS section of an edited file is
not validated (`tas/store.py:51`); disabling a CBS class strands the frames queued
for it until it is enabled again (`tas/cbs.py:182`, `BacklogDrains`); and with a
wire a frame may still be leaving after its window has closed, there being no
guard band (`tas/engine.py:233`).

### Bounds

`NumFrames`, `MaxUpdates`, `MaxRequests`, `MaxCrashes`, `MaxRestarts` and
`MaxAdjusted` bound what the environment does. `ElapsedCap` is a saturation, not a
cut: beyond it every credit is at its ceiling; in *hot* and *chain*, which ask
nothing about rates, it is lower, and a credit is at most one tick's slope above
zero. The TAS engine's clock is not cut either: `LoopTo` follows `MaxTime`, a
whole number of cycles later, at a point where every held frame has expired, so
that liveness is checked on infinite behaviours. In *slow* and *chain* frames do
not expire, because the clock loops earlier (its two instants are the two phases
of the cycle); *prompt* has them expire under every list. In `PeerDelay` and
`TimeSync` the clock ends at `MaxTime`, three requests (and more after a restart) or
three Syncs (of two lives) long, and only safety is asked there; these runs and *crash* and *parts*
have `CHECK_DEADLOCK FALSE`, since a node that is stopped, or out of requests, has
nothing to do.

### Fairness

`FairSpec` of both engines is weak fairness for each thread and for time: Python
schedules its threads and clocks advance. Arrivals, updates and stops are nobody's
duty. `BacklogDrains` is checked with updates, under the same fairness. An
`enqueue` or `check_and_send` in progress completes. Strong fairness is not
needed: a thread that waits for a lock only waits for a critical section, which is
one action. `MCParts` assumes that Syncs keep coming (`WF_vars(Sync)`): the grand
master sends one every interval, and a lost one only makes the next one later.


## 4. What is proved

Every theorem holds for every value of the constants that satisfies the named
assumptions of its module (`ConfigsAssumption`, `CBSAssumption`, ...), which TLC
evaluates in every run of it. Where a theorem needs more, its statement says so.
Eight modules hold proofs; `NumberFacts` has lemmas only.

| module | theorem | states | extra hypothesis |
|---|---|---|---|
| TASProofs | `TypeCorrect` | `TypeOK` | |
| | `WindowsKept` | `StartsInWindow` | `Prompt`, port as started |
| | `NobodySleeps` | `NoSleeper` | `Prompt`, configuration as started |
| | `ServedWithinCycle` | `DropsOnlyShut` | `Prompt`, port as started |
| | `FramesConserved` | `Conserved` | |
| | `CountersBalance` | `StatsBalance` | |
| | `TASIsPort` | `PortSpec` | |
| CBSEngineProofs | `TypeCorrect` | `TypeOK` | |
| | `CountersBalance` | `StatsBalance` | |
| | `WakeupsKept`, `OnlyUpdatesStrand` | `NoLostWakeup` | configuration as started; none |
| | `CBSIsPort` | `PortSpec` | |
| | `RateKept` | `RateConforms` | configuration as started, `Covers` |
| SwitchPortProofs | `SeriesIsPort` | `EndToEnd` | |
| | `CountersAlwaysAgree` | `CountersAgree` | |
| | `UnshapedKept` | `UnshapedInWindow` | `Prompt` |
| ConfigStoreProofs | `TypeCorrect` | `TypeOK` | |
| | `TASAlwaysValid` | `TASValid` | |
| | `RestartSafe` | `RestartKeeps` | |
| | `SerialFollow` | `EnginesFollowSerial` | |
| PeerDelayProofs | `TypeCorrect` | `TypeOK` | |
| | `SamplesMeasure` | `SamplesGenuine` | |
| | `EstimateMeasures` | `EstimateGenuine` | |
| | `FewPending` | `PendingBounded` | |
| TimeSyncProofs | `TypeCorrect` | `TypeOK` | |
| | `OffsetBounded` | `OffsetError` | |
| | `FewWaiting` | `PendingBounded` | |
| PartsProofs | `ErrorMeasured` | `ErrorTrue` | |
| | `NotOffline` | `LiveShown` | |
| | `NeverOlder` | `NewestShown` | |
| | `NothingForgotten` | `LogComplete` | |
| | `TimelineFollowed` | `GateFollowsTimeline` | |
| | `ClassAlwaysKept` | `ClassKept` | |
| | `AlwaysUnderstood` | `Understood` | |
| | `AlwaysPercentiles` | `Percentiles` | |

The extra hypotheses are those of the runs. `Prompt` is a constant: the polling
threads complete a round within a tick, without which no claim about windows
holds. An update takes effect between two steps of a thread, so a frame judged
under one configuration may start under the next; hence "as started"
(`updates = 0`, and for the windows also `running`, as a stopped port flushes
nothing). `SwitchPort` has no updates and no stop, so its theorems need neither.
`Covers` says that no idle slope exceeds the port speed, as `validate`
checks, and that `max_credit_bytes` covers the charge of a frame, which is what run
*readme* shows to be necessary.

### The TAS engine

`TypeCorrect`. Two conjuncts of `TypeOK` are more than types: an item waits only in
the queue of its own class, and the class whose head the wire loop is looking at,
or about to pop, has one. The second keeps `popleft` from raising and ending the
wire thread, and rests on a fact about the whole module: only the wire loop removes
from a wire queue. The inductive invariant is `TypeOK` and `Finite` (gate queues are
finite, without which the number of expired items added to a counter would not be a
number).

`WindowsKept` and `NobodySleeps` rest on `Timely`, which says of each thread, by its
program counter, what the gate it has looked at is at this instant: under `Prompt`
the clock stands still until the round is over, so what was judged is still true.

`ServedWithinCycle` says that the age limit of three cycles costs no frame of a
class that some entry of the list opens. `OpensOnce` is the fact about the list:
every stretch of `cycle_us` instants has one at which the class is open, whatever
the base time and wherever the stretch begins. `Unserved` is the invariant: while a
frame is held, its gate has not been open at any instant since it came
(`ShutSince`), but for the present one, of which the drain loop may have yet to take
note; and the age limit of a round is three cycles of the configuration in force. A
frame that has expired was thus shut out for longer than a cycle, and no entry opens
its class.

`FramesConserved` has the invariant `Kept`. `Spread` says that the sets of frames at
the eight kinds of location are disjoint and make up `1 .. arrived`; the other
conjuncts, that no location has a frame twice, since a sequence or a set of
records is more than the set of its frames. A step either moves one frame
(`Moving`) or gathers several at one place (`Gathering`: the scan of the drain loop,
which discards the expired and takes the open queues), and one lemma for each
shows that `Spread` is kept.

`CountersBalance` needs in addition that what was taken into a batch is finite: the
counter of a class is short by what is in the batch, or in a producer's hand and not
counted yet.

`TASIsPort` has to show that a frame passes another of its class only when the
port contract allows it. Three invariants, each proved from the ones before:
`Waiting` (among the frames held, age and order of arrival agree, from the gate
queue into the batch and on into the drain thread's hand: that is why sorting by
age keeps the order), `Led` (a wire queue with two unlocked writers is in order but
for frames that found their gate open), and `OneMode` (until the configuration
changes, a port without a wire keeps everything out of the wire's path, and one
with a wire sends from nowhere else). The step from there to the contract has a
lemma for each way out: a frame that moves inside, that leaves, that expires.

### The CBS engine

`TypeCorrect` and `CountersBalance` count the calls in progress: `InCall`, whose
cardinality is part of the bound on the frames and of the counters' difference.

`WakeupsKept`: the event is cleared before the critical section and set after it, so
a frame is queued, and the loop asleep, only with the event set, somebody about to
set it, or the class disabled. `OnlyUpdatesStrand` is the rest as an action property:
the only step that may end that is `update_config`.

`CBSIsPort` rests on `Ordered` (`OrderKept`): each queue is in the order of arrival,
and what has left it came before what is in it.

`RateKept` ties the ghost `level`, what a class has sent beyond its idle slope, to
what the engine knows (`Conforming`): it is at most what the credit is short of its
ceiling, less what was gained since the last pass, plus what the class is not charged
for yet. `Covers` enters where a charge is applied: then nothing of it is forgotten
at the floor. `Charging`, `CreditBounded` and `Sized` say which charges are pending
at which program counter, and bound them.

### The two engines in series

`SwitchPort` runs the actions of both engines on variables of its own, so every
theorem about either holds of it: a step of the port is a step or a stutter of the TAS
engine (`RunsTAS`) and one of the CBS engine (`RunsCBS`). `CBSP` is the module
`CBSEngineProofs` instantiated for the classes that the TAS engine hands over, and
`Started` and `Shaped` collect what is used of the two.

What is new is a frame between the engines. `HandsKept` says of the frame in a call
which one it can be, by its thread (`From`): the receive thread calls with the
newest frame, which was not held; the drain thread with one that was, while there is
no wire; the wire thread only if there is one. `CallStarts` has the cases in which a
step of the TAS engine hands a frame over.

`CountersAlwaysAgree` counts that boundary from both sides: what has left the TAS
engine is its counter and what that counter is late by (`TASCount`), from the moment
a thread calls `check_and_send`, though it counts only after the call; what has come
into the CBS engine is its two counters and the calls that have not reached them
(`CBSCount`). A step that changes one side changes the other by as much.

`UnshapedKept` has `InWindowCalls`: without a wire, the class of a frame in a call has
its gate open now, since the clock stands still until a prompt thread has returned. An
unshaped frame is sent in such a call, and a shaped one is marked `held`.

`SeriesIsPort` maps the port to the contract of one: waiting is what is in the TAS
engine or behind it, discarded what either has discarded. The invariant is `Sound`:

* `RelayKept`: each number of the CBS engine stands for one frame, of the class the
  engine has for it.
* `Unique`: each frame that left the TAS engine is in one call or has one such number,
  so that none leaves the switch twice.
* `ModesKept`: a class is shaped or not, for good; so no frame bypasses a queue that
  another frame of its class waits in.
* `InOrder`: a frame further on may have passed none that is behind it, but for those
  the contract lets it pass (`Leads`): from the TAS engine to the calls, from there to
  the CBS queues, and within these. It needs the other three: two frames of one class
  in calls at once are one of the receive thread and one of the drain thread
  (`HandsKept`), of which the first is the newest and was not held.

A step of the TAS engine that hands nothing over is then an arrival, a discard or a
stutter of the contract; a frame handed over stays in `waiting`; only a step of the
CBS engine, or the end of a call, lets one depart (`CallMoves` has the cases of a
call).

### The store

`TypeCorrect` says of the lock that it is held exactly during a save, and
`TASAlwaysValid` rests on `StoreValid`: what the store holds is valid, too.
`RestartSafe` has two more invariants. `FileCurrent`: a file that nobody edited is an
object and loads as what was last written completely or, if something was stored
since, that or the defaults; and if nothing was, the store holds it. It needs
`WriteInHand`, that the file is only opened and written while something is unsaved, so
that an open file is never the last word on a complete store. `LoadSaved` says that
loading undoes saving, for which TAS configurations must be valid, hence `StoreValid`.

`SerialFollow`: of a port whose last update is alone on it, `Alone` says what that
update has read and applied so far, by its program counter. That is not enough: an
update of the TAS configuration also applies the CBS configuration, and the CBS
engine refuses an invalid one, which an edited file can have put in the store.
`InvalidCBS` says that then engine, store and every handler that serves the port
agree on it.

### Peer delay

The invariant `Inv` is stated with ranges: `il .. ih` is what the initiator's clock
has been off by since its last restart, `rl .. rh` what the responder's has, 0
included. The widths of the ranges are at most what the clocks were stepped
(`Stepped`), and a reading of the responder less the reading of the initiator that
it answers is a delay, give or take the ranges (`Passed`). `Readings` says so of each
message under way and of each entry of the pending table, `Numbered` which
numbers are in use. `SamplesMeasure` follows because a sample is half the sum of two
such differences, whichever response and follow-up were combined (`ExchangeFacts`);
a plausible sample stays so, as the sum of the steps only grows (`StaysPlausible`).

`EstimateMeasures` asks for the smallest and the k-th smallest sample. That every
set of samples has a smallest and a largest one (`Ordered`) would be an induction
over the set; here it is an invariant of the state machine, as `add` changes the
window by one sample. The k-th smallest exists because the samples with fewer than
k at or below them have a largest one (`KthExists`).

`FewPending`: `Waiting` has the history of sends that the pending entries belong
to, no two closer than `Interval` (`Spaced`), and says that none was older than
`PendingLife`, by the clock of that moment, at the last send. `SpacedCount` counts
how many fit into that time; the steps of the clock widen it.

### The Sync path

`OffsetBounded` has the invariant `Paired`. Messages and pending entries are related
by life and number. `Stamped` and `Timed` tie a Follow-Up to the instant its Sync was
stamped with, and a Sync under way to the instants at which it can arrive;
`SentOnce` and `RelayedOnce` say when there can be two of them: none without a net
that duplicates. `Corrected` is the heart: for each relayed Follow-Up, and each
relayed Sync it may be paired with at the slave, it bounds the instant that the
Follow-Up names against that of the Sync, with a second bound for a Sync relayed
before a copy of the Follow-Up came in. From there to the error is one delay
estimate (`ErrorOfPair`).

`FewWaiting` has `Spread`: the sends that belong to what waits at each hop are
spaced, and all that waits was there at the last instant at which something was
added, when the code removes what is too old.

### The parts

`ErrorMeasured`: what waits for an answer is the instant, by the slave's clock, at
which the request was sent (`PairedProbe`). A restart forgets it and starts the
numbers over; `OfThisLife` says that before the first probe everything under way is
of the life before, with the time it must end by, and `FirstProbeAlone` that
`StartDelay` is long enough for nothing to be left.

`NotOffline` and `NeverOlder` share an invariant: at most one report is under way,
and the reporter is waiting for its answer or in the sleep after the timeout
(`AwaitedOf`); and while nothing is lost, the next report is sent within the rest of a
wait, a sleep and a connection of the last one handled (`SoonAfter`, `SoonAgain`).
`PatienceAssumption` is the relation between the code's numbers that the theorem
needs: 2 * 2 s + 2 s + 3 s is less than 10 s.

`NothingForgotten`: the list and every copy of it are the newest samples of their
moment; trimming one more than the limit forgets the oldest (`TrimmedNewest`). Of two
flushes under way neither is `alone` (`Lone`), so the first half that a flush alone
finds in the file at its end is the one it wrote itself, and both halves are its copy.
`ClassAlwaysKept` is arithmetic about code points.

`TimelineFollowed`: the gate decision walks the list with a running sum and a
remainder; `Timeline` writes the cycle out, tick by tick. Both are recursive
functions over a list of any length, and the argument is by a least counterexample
(`Least`): the running sums exist and increase (`LaidExists`, `LaidIncrease`), so
the offset lies in one entry only (`LaidHolds`, `Governed`), and the written line
has the gates of that entry there (`LineFacts`).

`AlwaysUnderstood`: `BytesFacts` lays the fields of a packet one behind another,
`RoundTrip` shows that decoding at these places gives back what was encoded,
`NameKept` that a name is cut and filled up to its width, and `Handled` that a
packet reaches the handler exactly if no byte of it is missing and, for a response,
its session is known. `MessagesFit` says that what the senders make fits its layout.

`AlwaysPercentiles`, for any `Values`, which are lists of integers: sorting is modelled by the place each value comes to. No two have
one place (`PlacesDiffer`), so every place is somebody's (`SortedFacts`), and its number
counts the values before it (`AtQuantile`).

### Only model-checked

* Liveness: `EveryFrameGoes` (twice), `BacklogDrains`, `ServoSettles`. It is out of
  the prover's reach.
* `NeverFarther` and `ConvergedInBand` of the servo: claims about a clamped and rounded
  second-order recurrence, for which no inductive invariant is known to us. They hold
  of the gains of the code and of drifts and errors that are small against a step, not
  of all: an integral invariant is exact while the step is limited, a polygon while it
  is not, and neither covers the passage from one to the other with what `int()` cuts.
* The three violations are counterexamples and need no proof.

Structural induction over data is out of the prover's reach, as its induction
theorems take an operator as a parameter. Where a theorem is about lists of any
length the proof takes a least counterexample instead, which needs only that a set
of numbers has a least member.


## 5. What is left

1. A port speed that changes under running loops (`tas/engine.py:225`,
   `tas/cbs.py:148`): the loops keep the speed they began with. It needs
   transmission times that depend on the speed.
2. "Clock converged" (`nodes/slave.py:73`) as a statement that `ClockServo`
   refutes, for clocks that start more than one step off.
3. An update or a stop of a `SwitchPort` in service: each engine alone is modelled
   and proved with updates, the two in series without.

### Not modelled

* The start scripts, the pages of the dashboard and its login, the layout of the
  spreadsheet, device and socket I/O and the endpoint's copying loops: no state of
  their own beyond a running flag, or the operating system's.
* Several ports of a switch. They share the tunnel thread, which serves one after
  the other, and the socket; `ConfigStore` has two ports where they share the store.
* The order in which threads are started and stopped, and receive timeouts.
* The bits of a packed number, floating-point rounding in the servo and the credit.

### Seen while modelling

Not about a property of any module, but worth knowing to whoever maintains the code:

* `core/drift_logger.py` means to work without openpyxl, but builds its fonts
  when it is imported, where `Font` is then undefined.
* Nobody calls `DriftLogger.stop`, so the last interval's samples are never written;
  and a restarted switch replaces the file of the run before.
* The switch reports a residence time as its offset (`nodes/switch.py`), and a
  reporter shows 0.0, hence "synced", until the first offset is computed; it goes on
  repeating the last one when no Syncs arrive (`core/reporter.py:18`).
* The session of a peer whose name is longer than 32 bytes never gets a response:
  `_dispatch` looks it up by the name that was cut (`protocol/messages.py:19`).
* Without a TAP, a tunnelled gPTP frame would be given to the gPTP handler with its
  Ethernet header, whose first byte, 01, reads as the type of a Sync
  (`endpoint/agent.py:181`). No code in the repository sends one.
