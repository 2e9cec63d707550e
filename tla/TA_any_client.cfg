\* A loop that may hold two records, nesting two deep; allocation may fail.
CONSTANTS
  n1 = n1
  l1 = l1
  NodeId = {n1}
  LoopId = {l1}
  NoId = NoId
  MaxLoopDepth = 2
  MaxLoopRecords = 2
  MaxCallDepth = 1
  CounterMod = 1
  BufferSizes = {36, 200}
  AllocMayFail = TRUE
  MaxChain = 1
SPECIFICATION Spec
INVARIANTS
  TypeOK
  ActiveWithinDepth
  AuthComplete
  NoOperationLeak
