\* A cycle may be finalized inside a loop.
CONSTANTS
  n1 = n1
  l1 = l1
  NodeId = {n1}
  LoopId = {l1}
  NoId = NoId
  MaxLoopDepth = 2
  MaxLoopRecords = 1
  MaxCallDepth = 0
  CounterMod = 1
  BufferSizes = {200}
  AllocMayFail = FALSE
  MaxChain = 1
  MaxNest = 2
  MayRecurse = FALSE
  FinalizeInLoops = TRUE
  UnhookedCalls = FALSE
SPECIFICATION IsoSpec
INVARIANTS
  CyclesIndependent
