---------------------------- MODULE MCCBSEngine ----------------------------
(***************************************************************************)
(* Small CBS ports for model checking: two classes, a port of four bits a  *)
(* tick.                                                                   *)
(***************************************************************************)
EXTENDS CBSPort, TLC

Class(idle, max) == [enabled |-> TRUE, idle_slope_bps |-> idle, max_credit_bytes |-> max]
Free == [enabled |-> FALSE, idle_slope_bps |-> 0, max_credit_bytes |-> 0]

PortOf(speed, class0, class1) ==
  [enabled |-> TRUE, port_speed_bps |-> speed, tc_configs |-> (0 :> class0 @@ 1 :> class1)]

\* Both classes shaped; max credit covers the charge of a frame.
Nominal == PortOf(4, Class(1, 3), Class(2, 4))

\* A slower port on which credits recover sooner; class 0 shaped or not, or the
\* whole shaper off.
Even == PortOf(3, Class(1, 2), Class(1, 2))
Half == PortOf(3, Free, Class(1, 2))
Off == [Even EXCEPT !.enabled = FALSE]
\* Class 1 has no rate: it never recovers from its first charge.
Rateless == PortOf(3, Free, Class(0, 2))
\* Class 1 is not shaped, nor is anything: what waits in it waits on.
Dark == [PortOf(3, Class(1, 2), Free) EXCEPT !.enabled = FALSE]
EvenConfigs == {Even, Half, Off}
HotConfigs == {Half, Dark, Rateless}
ShapedConfigs == {Nominal} \union EvenConfigs

\* TC3 of the README's example: 2 of 10 Mbps, a floor of -2500, frames of 1500
\* bytes, whose charge is 9600.  Scaled: a bit here is 100 there.
Readme == PortOf(40, Free, Class(8, 25))
ReadmeConfigs == {Readme}
=============================================================================
