---------------------------- MODULE MCSwitchPort ----------------------------
(***************************************************************************)
(* Small switch ports for model checking: two classes that take turns, or  *)
(* that the TAS engine leaves alone, one or both shaped by credit as well. *)
(***************************************************************************)
EXTENDS SwitchPort

Entry(gates) == [gates |-> gates, duration_us |-> 1]

Turns(speed) ==
  [enabled |-> TRUE, cycle_us |-> 2, base_time_ns |-> 0, port_speed_bps |-> speed,
   gcl |-> <<Entry({1}), Entry({0})>>]

TASConfigs == {Turns(0), Turns(1), [Turns(0) EXCEPT !.enabled = FALSE]}

Shaped == [enabled |-> TRUE, idle_slope_bps |-> 1, max_credit_bytes |-> 2]
Unshaped == [Shaped EXCEPT !.enabled = FALSE]

Shaper(class0, class1) ==
  [enabled |-> TRUE, port_speed_bps |-> 3, tc_configs |-> (0 :> class0 @@ 1 :> class1)]

ShaperConfigs == {Shaper(Unshaped, Shaped), Shaper(Shaped, Shaped)}
=============================================================================
