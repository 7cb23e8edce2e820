--------------------------- MODULE MCRuleEncoding ---------------------------
(***************************************************************************)
(* Instances of RuleEncoding for TLC.  The bounds are numbers, given in    *)
(* the .cfg.                                                               *)
(***************************************************************************)
EXTENDS RuleEncoding
=============================================================================
