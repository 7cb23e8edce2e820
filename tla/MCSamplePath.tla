---------------------------- MODULE MCSamplePath ----------------------------
(***************************************************************************)
(* Instances of SamplePath for TLC: one CPU that receives two of the three *)
(* flows and one that receives the third, and one reader of the statistics.*)
(***************************************************************************)
EXTENDS SamplePath

CONSTANTS cpu1, cpu2, f, g, k, h1

TwoCpus == {cpu1, cpu2}
ThreeFlows == {f, g, k}
OneCpuEach == [x \in ThreeFlows |-> IF x = g THEN {cpu2} ELSE {cpu1}]
OneHandler == {h1}
=============================================================================
