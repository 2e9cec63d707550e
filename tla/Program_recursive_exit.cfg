\* A loop entered again, through a call, while it is open.
CONSTANTS
  n1 = n1
  l1 = l1
  NodeId = {n1}
  LoopId = {l1}
  NoId = NoId
  MaxLoopDepth = 2
  MaxLoopRecords = 2
  MaxCallDepth = 0
  CounterMod = 1
  BufferSizes = {200}
  AllocMayFail = FALSE
  MaxChain = 1
  MaxNest = 3
  MayRecurse = TRUE
  FinalizeInLoops = FALSE
  UnhookedCalls = FALSE
SPECIFICATION ProgSpec
PROPERTIES
  ExitResumesChain
