---------------------------- MODULE MCShmCreate ----------------------------
(***************************************************************************)
(* Instances of ShmCreate for TLC: two runs of the creating program and    *)
(* one of the opening one; and one of each, with a creator that may die    *)
(* before the header is complete.                                          *)
(***************************************************************************)
EXTENDS ShmCreate

CONSTANTS c1, c2, o1

TwoCreators == {c1, c2}
OneCreator == {c1}
OneOpener == {o1}
=============================================================================
