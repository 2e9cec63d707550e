\* Two processes; calls and allocations may fail, twice in all.
CONSTANTS
  p1 = p1
  p2 = p2
  n1 = n1
  Proc = {p1, p2}
  NoProc = NoProc
  NodeId = {n1}
  LoopId = {}
  NoId = NoId
  MaxLoopDepth = 0
  MaxLoopRecords = 0
  MaxCallDepth = 1
  CounterMod = 1
  BufferSizes = {36}
  AllocMayFail = TRUE
  CallsMayFail = TRUE
  MaxChain = 6
  MaxPath = 2
  MaxFaults = 2
SPECIFICATION LibSpec
PROPERTIES
  AttestsOwnCycle
  AutoInitializes
