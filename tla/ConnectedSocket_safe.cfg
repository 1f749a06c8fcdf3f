SPECIFICATION FairSpec
CONSTANTS
  NumOut = 3
  NumIn = 1
  Rearms = 1
  PeerMayClose = TRUE
INVARIANT SentInOrder
INVARIANT BytesQueuedExact
INVARIANT FramesIntact
PROPERTY AcceptedIsSent
CHECK_DEADLOCK FALSE
