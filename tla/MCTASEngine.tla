---------------------------- MODULE MCTASEngine ----------------------------
(***************************************************************************)
(* Small configurations of a TAS port for model checking: two classes, a   *)
(* cycle of two ticks.                                                     *)
(***************************************************************************)
EXTENDS TASPort

Entry(gates, duration) == [gates |-> gates, duration_us |-> duration]

Shaping(gcl, speed) ==
  [enabled |-> TRUE, cycle_us |-> TotalDuration(gcl), base_time_ns |-> 0,
   port_speed_bps |-> speed, gcl |-> gcl]

Off == [Shaping(<<Entry({0, 1}, 1)>>, 0) EXCEPT !.enabled = FALSE]

\* One tick for each class in turn.
Turns == <<Entry({1}, 1), Entry({0}, 1)>>
\* One tick for both, one for none.
Burst == <<Entry({0, 1}, 1), Entry({}, 1)>>
\* Class 0 never opens.
Shut0 == <<Entry({1}, 1), Entry({}, 1)>>

SlowConfigs == {Off, Shaping(Turns, 0), Shaping(Turns, 1)}
PromptConfigs == {Shaping(gcl, speed) : gcl \in {Turns, Burst}, speed \in {0, 1}}
                   \union {Shaping(Shut0, 0)}
LateWireConfigs == {Shaping(Turns, 0), Shaping(Turns, 1)}
=============================================================================
