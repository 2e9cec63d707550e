---------------------------- MODULE MCCflatHost ----------------------------
(* An application that is instrumented by hand, for TLC.                   *)
EXTENDS CflatHost, TLC

Ids == Permutations(LoopId)
=============================================================================
