----------------------------- MODULE MCLifecycle -----------------------------
(***************************************************************************)
(* An instance of Lifecycle for TLC: three events, one of them terminal.   *)
(* KillOnExit only takes one hook out of the sequence.                     *)
(***************************************************************************)
EXTENDS Lifecycle
=============================================================================
