\* Loops and calls two deep; a cycle may end anywhere, inside a loop too.
CONSTANTS
  n1 = n1
  l1 = l1
  l2 = l2
  NodeId = {n1}
  LoopId = {l1, l2}
  NoId = NoId
  MaxLoopDepth = 2
  MaxLoopRecords = 2
  MaxCallDepth = 2
  CounterMod = 2
  BufferSizes = {200}
  AllocMayFail = FALSE
  MaxChain = 0
  MaxNest = 2
  MayRecurse = FALSE
  FinalizeInLoops = TRUE
  UnhookedCalls = FALSE
SYMMETRY Ids
SPECIFICATION ProgSpec
INVARIANTS
  CallStackFollowsCalls
PROPERTIES
  ExitResumesChain
  IterationCountsInnermost
