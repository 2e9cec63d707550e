\* Cycles that are finalized outside loops, as the instrumented programs do.
CONSTANTS
  n1 = n1
  n2 = n2
  l1 = l1
  l2 = l2
  NodeId = {n1, n2}
  LoopId = {l1, l2}
  NoId = NoId
  MaxLoopDepth = 2
  MaxLoopRecords = 1
  MaxCallDepth = 2
  CounterMod = 2
  BufferSizes = {200}
  AllocMayFail = FALSE
  MaxChain = 1
  MaxNest = 3
  MayRecurse = FALSE
  FinalizeInLoops = FALSE
  UnhookedCalls = TRUE
SYMMETRY Ids
SPECIFICATION IsoSpec
INVARIANTS
  CyclesIndependent
  EntriesAreOpenCalls
