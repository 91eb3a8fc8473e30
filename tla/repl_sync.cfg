SPECIFICATION FairSpec
CONSTANTS
  n1 = n1
  n2 = n2
  n3 = n3
  None = None
  Node = {n1, n2, n3}
  DB = {0}
  Diskless = {n2}
  BacklogSize = 2
  Topologies <- StarsAndChain
  MaxStream = 1
  MaxSaves = 1
  MaxFaults = 1
  MaxCommands = 0
  MaxRestarts = 0
INVARIANTS TypeOK StreamConverges AssertionsHold RepliesInOrder
PROPERTY EventuallySynced
CHECK_DEADLOCK FALSE
