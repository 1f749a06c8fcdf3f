SPECIFICATION FairSpec
CONSTANTS
  NumOut = 1
  NumIn = 1
  Rearms = 0
  PeerMayClose = FALSE
PROPERTY CloseCompletes
CHECK_DEADLOCK FALSE
