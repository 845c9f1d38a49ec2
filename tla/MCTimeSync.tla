----------------------------- MODULE MCTimeSync -----------------------------
(***************************************************************************)
(* Small instances of the Sync path.                                       *)
(***************************************************************************)
EXTENDS TimeSync
=============================================================================
