\* Three loops that nest three deep over a TA with room for two of them.
CONSTANTS
  n1 = n1
  l1 = l1
  l2 = l2
  l3 = l3
  NodeId = {n1}
  LoopId = {l1, l2, l3}
  NoId = NoId
  MaxLoopDepth = 2
  MaxLoopRecords = 2
  MaxCallDepth = 0
  CounterMod = 1
  BufferSizes = {200}
  AllocMayFail = FALSE
  MaxChain = 1
  MaxNest = 3
  MayRecurse = FALSE
  FinalizeInLoops = FALSE
  UnhookedCalls = TRUE
SYMMETRY Ids
SPECIFICATION ProgSpec
INVARIANTS
  RecordsFollowNest
PROPERTIES
  ImplementsMeasurement
