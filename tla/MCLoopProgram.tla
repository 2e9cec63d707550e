--------------------------- MODULE MCLoopProgram ---------------------------
(* Instances of LoopProgram for TLC.                                       *)
EXTENDS LoopProgram, TLC

Ids == Permutations(NodeId) \cup Permutations(LoopId)
=============================================================================
