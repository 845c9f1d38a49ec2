---------------------------- MODULE MCPeerDelay ----------------------------
(***************************************************************************)
(* Small instances of the peer delay exchange.                             *)
(***************************************************************************)
EXTENDS PeerDelay

StepUpDown == {-1, 1}
NoSteps == {}
=============================================================================
