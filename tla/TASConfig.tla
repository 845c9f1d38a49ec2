------------------------------ MODULE TASConfig ------------------------------
(***************************************************************************)
(* The pure part of the Time-Aware Shaper, tas/engine.py: gate control     *)
(* lists, the validation of a configuration and the decision whether the   *)
(* gate of a traffic class is open at an instant.                          *)
(*                                                                         *)
(* One tick is the unit of every duration and instant (the code scales     *)
(* microseconds to nanoseconds by 1000 on both sides of each comparison).  *)
(* A gates bit mask is the set of the classes whose bit is set.            *)
(***************************************************************************)
EXTENDS Integers, Sequences

CONSTANT NumTC                  \* NUM_TC, the number of traffic classes

ASSUME NumTCAssumption == NumTC \in Nat \ {0}

TC == 0 .. NumTC - 1

\* Gate control lists, the entries of which may be any number of ticks long.
GateList == Seq([gates : SUBSET TC, duration_us : Nat])

\* Ends(gcl)[i] is the offset in the cycle at which entry i ends.
Ends(gcl) ==
  LET end[i \in 0 .. Len(gcl)] ==
        IF i = 0 THEN 0 ELSE end[i - 1] + gcl[i].duration_us
  IN  end

TotalDuration(gcl) == Ends(gcl)[Len(gcl)]

Validate(cfg) ==
  /\ cfg.gcl # << >>
  /\ TotalDuration(cfg.gcl) = cfg.cycle_us
  /\ \A i \in DOMAIN cfg.gcl :
        /\ cfg.gcl[i].duration_us > 0
        /\ cfg.gcl[i].gates \subseteq TC

\* Mutant of Clamp: the class is used as received.
ClampNone(tc) == tc

\* tc = max(0, min(NUM_TC - 1, tc))
Clamp(tc) == IF tc < 0 THEN 0 ELSE IF tc > NumTC - 1 THEN NumTC - 1 ELSE tc

-----------------------------------------------------------------------------
(***************************************************************************)
(* _is_gate_open reads the configuration twice: the cycle and base time    *)
(* give the offset, then the list gives the gates at that offset.  Callers *)
(* that hold no lock can see a different configuration in each half, so    *)
(* the halves are operators of their own.                                  *)
(***************************************************************************)
CycleOffset(cfg, now) == (now - cfg.base_time_ns) % cfg.cycle_us

\* Mutant of GateAt: an entry still governs the instant at which it ends.
GateAtInclusive(cfg, tc, offset) ==
  LET ends == Ends(cfg.gcl)
      hits == {i \in DOMAIN cfg.gcl : ends[i - 1] <= offset /\ offset <= ends[i]}
  IN  \E i \in hits : tc \in cfg.gcl[i].gates /\ \A j \in hits : i <= j

GateAt(cfg, tc, offset) ==
  \/ cfg.gcl = << >>
  \/ LET ends == Ends(cfg.gcl)
         hits == {i \in DOMAIN cfg.gcl : ends[i - 1] <= offset /\ offset < ends[i]}
     IN  \E i \in hits : tc \in cfg.gcl[i].gates /\ \A j \in hits : i <= j

IsGateOpen(cfg, tc, now) == GateAt(cfg, tc, CycleOffset(cfg, now))

-----------------------------------------------------------------------------
\* What a gate list means: the cycle written out tick by tick, one set of open
\* classes each.
Ticks(entry) == [k \in 1 .. entry.duration_us |-> entry.gates]

Timeline(gcl) ==
  LET line[i \in 0 .. Len(gcl)] ==
        IF i = 0 THEN << >> ELSE line[i - 1] \o Ticks(gcl[i])
  IN  line[Len(gcl)]

\* The gates at an instant are those of the written-out cycle, repeated for ever
\* from the base time, also backwards.
FollowsTimeline(cfg, now) ==
  \A tc \in TC :
    IsGateOpen(cfg, tc, now)
      <=> tc \in Timeline(cfg.gcl)[((now - cfg.base_time_ns) % cfg.cycle_us) + 1]

=============================================================================
