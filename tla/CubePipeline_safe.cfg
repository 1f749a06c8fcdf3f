CONSTANTS
  t1 = t1 t2 = t2
  NumProcs = 2
  Tuples = {t1, t2}
  Cells = {1, 2}
  CellOf <- MCOneCell
  ProcOf <- MCProcOf
  Chains = {c1, c2}
  Subs = {s1}
  InitialSubs = {s1}
  Movers = {s1}
  Flushes = {f1}
  NoBatch = {}
  Check = Check
  None = None
SPECIFICATION Spec
CHECK_DEADLOCK FALSE
INVARIANTS TypeOK TupleConservation QueueLengthsExact FlushBarrier CallbacksBeforeFlush StallNeedsWriter
PROPERTY KeepsPromise
