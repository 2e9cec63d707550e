-------------------------- MODULE MCCycleIsolation --------------------------
(* Instances of CycleIsolation for TLC.                                    *)
EXTENDS CycleIsolation, TLC

Ids == Permutations(NodeId) \cup Permutations(LoopId)
=============================================================================
