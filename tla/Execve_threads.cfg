CONSTANTS
  t1 = t1
  t2 = t2
  t3 = t3
  f1 = f1
  m1 = m1
  Thread = {t1, t2, t3}
  NoThread = NoThread
  FirstLeader = t1
  File = {f1}
  NoFile = NoFile
  Format = {m1}
  NoFormat = NoFormat
  Registered <- MCRegistered
  MaxRewrites = 1
  MaxDisturbances = 1
SPECIFICATION FairExecSpec
INVARIANTS
  NeverReturnsToOldProgram
  AloneInNewSpace
  LocksReleased
  UnsafeKnown
  RefsBalanced
  FormatInUse
PROPERTIES
  ExecEnds
\* The process may end.
CHECK_DEADLOCK FALSE
