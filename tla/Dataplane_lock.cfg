SPECIFICATION Spec
CONSTANTS
  Chains = {c1}
  Emissions = 1
  BufMax = 1
INVARIANT HeldUntilDone
CHECK_DEADLOCK FALSE
