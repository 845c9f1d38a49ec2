----------------------------- MODULE EgressPort -----------------------------
(***************************************************************************)
(* What an egress shaper promises its caller, whatever it does inside: a   *)
(* frame handed to it leaves at most once or is discarded, never both, and *)
(* within a traffic class it can be passed only while it is held back.     *)
(*                                                                         *)
(* A frame is accepted or refused, may be held (it then waits its turn),   *)
(* and leaves or is discarded.  The order is promised for as long as the   *)
(* shaping is not changed.                                                 *)
(***************************************************************************)
EXTENDS Naturals, Sequences

CONSTANT Classes                \* traffic classes as received

VARIABLES
  fixed,        \* the shaping has not been changed yet
  accepted,     \* number of frames accepted; frames are numbered from 1
  waiting,      \* accepted frames still inside
  left,         \* frames that left, in order
  discarded     \* numbers of the frames discarded

vars == <<fixed, accepted, waiting, left, discarded>>

Frame == [frame : Nat, tc : Nat, held : BOOLEAN]

Init ==
  /\ fixed = TRUE
  /\ accepted = 0
  /\ waiting = {}
  /\ left = << >>
  /\ discarded = {}

\* The class a frame is shaped under need not be the one it was received with.
Accept(tc, held) ==
  /\ accepted' = accepted + 1
  /\ waiting' = waiting \union {[frame |-> accepted + 1, tc |-> tc, held |-> held]}
  /\ UNCHANGED <<fixed, left, discarded>>

Refuse ==
  /\ accepted' = accepted + 1
  /\ discarded' = discarded \union {accepted + 1}
  /\ UNCHANGED <<fixed, waiting, left>>

\* An unshaped frame passes through within the call.
Pass(tc) ==
  /\ accepted' = accepted + 1
  /\ left' = Append(left, [frame |-> accepted + 1, tc |-> tc, held |-> FALSE])
  /\ UNCHANGED <<fixed, waiting, discarded>>

Hold(f) ==
  /\ f \in waiting /\ ~f.held
  /\ waiting' = (waiting \ {f}) \union {[f EXCEPT !.held = TRUE]}
  /\ UNCHANGED <<fixed, accepted, left, discarded>>

\* Earlier frames of the class that are still inside.
Ahead(f) == {g \in waiting : g.tc = f.tc /\ g.frame < f.frame}

\* A frame leaves after everything ahead of it, except that one that was never
\* held may pass frames that are.
Depart(f) ==
  /\ f \in waiting
  /\ fixed => \A g \in Ahead(f) : g.held /\ ~f.held
  /\ waiting' = waiting \ {f}
  /\ left' = Append(left, f)
  /\ UNCHANGED <<fixed, accepted, discarded>>

Discard(S) ==
  /\ S \subseteq waiting
  /\ waiting' = waiting \ S
  /\ discarded' = discarded \union {f.frame : f \in S}
  /\ UNCHANGED <<fixed, accepted, left>>

Reconfigure ==
  /\ fixed' = FALSE
  /\ UNCHANGED <<accepted, waiting, left, discarded>>

Next ==
  \/ \E tc \in Classes : Accept(tc, FALSE) \/ Accept(tc, TRUE) \/ Pass(tc)
  \/ Refuse
  \/ \E f \in waiting : Hold(f) \/ Depart(f)
  \/ \E S \in SUBSET waiting : Discard(S)
  \/ Reconfigure

Spec == Init /\ [][Next]_vars

=============================================================================
