------------------------------- MODULE MCTui -------------------------------
(***************************************************************************)
(* Instances of Tui for TLC.  The bounds are numbers, given in the .cfg.   *)
(***************************************************************************)
EXTENDS Tui
=============================================================================
