CONSTANTS
  Tuples = {1, 2}
  Flushes = {f1, f2}
  Chains = {1, 2}
  ChainOf <- MCChainOf
  TimeOf <- MCTimeOf
  Offset = 1
  MaxTime = 3
  Closing = {1}
SPECIFICATION WSpec
CHECK_DEADLOCK FALSE
INVARIANT OnTimeIsEmitted
