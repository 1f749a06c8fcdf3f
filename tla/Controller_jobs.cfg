SPECIFICATION FairSpec
CONSTANTS
  Nodes = {n1, n2}
  None = None
  Unstable = {n1}
  MaxComps = 1
  MaxStops = 1
INVARIANTS TypeOK LocalIsRegistered RaisesNeedFault ListedCubeExists OrphansExplained
PROPERTIES Starts Stops
CHECK_DEADLOCK FALSE
