----------------------------- MODULE ClockServo -----------------------------
(***************************************************************************)
(* core/clock.py, LocalClock.adjust: the PI servo that steers the clock of *)
(* a slave, called with every offset the slave computes (nodes/slave.py).  *)
(*                                                                         *)
(* An offset is that of the slave's clock from the grand master's.  The    *)
(* computed one is wrong by any of Errors (see OffsetError in TimeSync),   *)
(* and the oscillator runs away by `drift` from one Sync to the next.  The *)
(* gains are 7/10 and 3/10, so the integral is kept in tenths.             *)
(***************************************************************************)
EXTENDS Integers, FiniteSetsExt

CONSTANTS
  MaxStep,      \* max_step, 10 ms
  Starts,       \* offsets before the first Sync
  Drifts,       \* drifts of the oscillator
  Errors        \* errors of a computed offset

ASSUME ServoAssumption ==
  /\ MaxStep \in Nat \ {0}
  /\ Starts \subseteq Int /\ Drifts \subseteq Int /\ Errors \subseteq Int

\* Syncs after which the slave takes itself for synchronised.
SyncsToConverge == 5

VARIABLES
  offset,       \* what offset_ns leaves of the start and the drift
  integral,     \* ten times _integral
  syncs,        \* _sync_count, up to SyncsToConverge
  synced,       \* _synced
  drift, start

servo == <<offset, integral, syncs, synced, drift, start>>

ServoInit ==
  /\ start \in Starts /\ drift \in Drifts
  /\ offset = start
  /\ integral = 0
  /\ syncs = 0 /\ synced = FALSE

Size(n) == IF n < 0 THEN -n ELSE n

\* int() cuts toward zero.
Cut(tenths) == IF tenths < 0 THEN -(Size(tenths) \div 10) ELSE tenths \div 10

Limited(correction) ==
  IF correction > MaxStep THEN MaxStep
  ELSE IF correction < -MaxStep THEN -MaxStep ELSE correction

\* Mutant of Adjust: the proportional term is left out.
AdjustIntegralOnly(offset_ns) ==
  /\ integral' = integral + 3 * offset_ns
  /\ offset' = offset - Limited(Cut(integral')) + drift

\* Mutant of Adjust: nothing is carried over to the next Sync.
AdjustForgetful(offset_ns) ==
  /\ integral' = 3 * offset_ns
  /\ offset' = offset - Limited(Cut(7 * offset_ns + integral')) + drift

\* LocalClock.adjust; the oscillator drifts until the next Sync.
Adjust(offset_ns) ==
  /\ integral' = integral + 3 * offset_ns
  /\ offset' = offset - Limited(Cut(7 * offset_ns + integral')) + drift

\* Slave._on_follow_up, from the offset it has computed.
FollowUp ==
  /\ \E e \in Errors : Adjust(offset + e)
  /\ syncs' = IF syncs < SyncsToConverge THEN syncs + 1 ELSE syncs
  /\ synced' = (synced \/ syncs' >= SyncsToConverge)
  /\ UNCHANGED <<drift, start>>

-----------------------------------------------------------------------------
MaxError == Max({Size(e) : e \in Errors})

\* The limit of 10 ms a step makes the integral wind up while a large offset is
\* worked off, so that the clock shoots through zero.  It never swings out
\* farther than it was off at the start.
NeverFarther == Size(offset) <= Size(start) + 2 * MaxError + Size(drift)

\* Slave logs "Clock converged" after five Syncs, however far the clock is off.
\* For a clock that started within one step of the grand master's that is true:
\* a fifth of the start is left at most, besides the errors.
ConvergedInBand ==
  synced /\ Size(start) <= MaxStep
    => 5 * Size(offset) <= Size(start) + 5 * (2 * MaxError + Size(drift))

\* However far from the grand master's the clock starts (Starts) and the integral
\* winds up meanwhile, the swings die out, and the integral takes up the whole
\* drift: only the errors of the computed offsets remain.
Settles == <>[](Size(offset) <= 2 * MaxError)

=============================================================================
