CONSTANTS
  Chains = {c1, c2}
  Emissions = 2
  BufMax = 1
SPECIFICATION FairSpec
CHECK_DEADLOCK FALSE
INVARIANTS TypeOK NothingAfterEnd CrashNeedsBreak StallShape
PROPERTIES KeepsDelivery Handshake Arrives FarEnds
