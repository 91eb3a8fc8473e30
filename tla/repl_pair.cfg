SPECIFICATION FairSpec
CONSTANTS
  n1 = n1
  n2 = n2
  n3 = n3
  None = None
  Node = {n1, n2}
  DB = {0, 1}
  Diskless = {n2}
  BacklogSize = 2
  Topologies <- Star
  MaxStream = 2
  MaxSaves = 0
  MaxFaults = 2
  MaxCommands = 0
  MaxRestarts = 1
INVARIANTS StreamConverges OneHistory RepliesInOrder
PROPERTY EventuallySynced
CHECK_DEADLOCK FALSE
