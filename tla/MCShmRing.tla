---------------------------- MODULE MCShmRing ----------------------------
(***************************************************************************)
(* An instance of ShmRing for TLC.  Two slots and indices that wrap at     *)
(* four: six pushes go round the slots three times and round the index     *)
(* once, with two crashes in between.                                      *)
(***************************************************************************)
EXTENDS ShmRing

CONSTANTS a, b

ItemValues == {a, b}
=============================================================================
