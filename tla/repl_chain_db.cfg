SPECIFICATION SynchronizedSpec
CONSTANTS
  n1 = n1
  n2 = n2
  n3 = n3
  None = None
  Node = {n1, n2, n3}
  DB = {0, 1}
  Diskless = {}
  BacklogSize = 2
  Topologies <- Star
  MaxStream = 1
  MaxSaves = 0
  MaxFaults = 2
  MaxCommands = 1
  MaxRestarts = 0
SYMMETRY Symmetry
CONSTRAINT Rooted
INVARIANT ChainedSelect
CHECK_DEADLOCK FALSE
