------------------------------ MODULE MCTcHook ------------------------------
(***************************************************************************)
(* Instances of TcHook for TLC: on both kernels, with and without deaths.  *)
(***************************************************************************)
EXTENDS TcHook
=============================================================================
