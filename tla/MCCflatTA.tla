----------------------------- MODULE MCCflatTA -----------------------------
(* Instances of CflatTA for TLC: any client, one session at a time.        *)
EXTENDS CflatTA, TLC

Ids == Permutations(NodeId) \cup Permutations(LoopId)
=============================================================================
