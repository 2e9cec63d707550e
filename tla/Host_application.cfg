\* Two loops, two deep; one fault; a buffer too small.
CONSTANTS
  n1 = n1
  l1 = l1
  l2 = l2
  NodeId = {n1}
  LoopId = {l1, l2}
  NoId = NoId
  MaxLoopDepth = 2
  MaxLoopRecords = 1
  MaxCallDepth = 0
  CounterMod = 1
  BufferSizes = {36}
  AllocMayFail = TRUE
  CallsMayFail = TRUE
  MaxChain = 2
  MaxFaults = 1
SPECIFICATION HostSpec
SYMMETRY Ids
INVARIANTS
  SessionTracked
  ToldWhatIsMeasured
PROPERTIES
  RetryFits
