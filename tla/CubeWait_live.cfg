CONSTANTS
  t1 = t1 t2 = t2
  NumProcs = 2
  Tuples = {t1, t2}
  Cells = {1, 2}
  CellOf <- MCCellOf
  ProcOf <- MCProcOf
  Chains = {c1}
  Subs = {s1}
  InitialSubs = {s1}
  Movers = {}
  Flushes = {f1}
  NoBatch = {2}
  Check = Check
  None = None
SPECIFICATION FairWaitSpec
CHECK_DEADLOCK FALSE
INVARIANT WaitDrains
PROPERTIES WaitReturns EventuallyStored EventuallyAnswered
