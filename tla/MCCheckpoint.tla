---------------------------- MODULE MCCheckpoint ----------------------------
(***************************************************************************)
(* The instance of Checkpoint that TLC checks.                             *)
(***************************************************************************)
EXTENDS Checkpoint
=============================================================================
