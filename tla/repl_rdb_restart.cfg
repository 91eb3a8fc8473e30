SPECIFICATION RdbSpec
CONSTANTS
  n1 = n1
  n2 = n2
  n3 = n3
  None = None
  Node = {n1, n2}
  DB = {0}
  Diskless = {}
  BacklogSize = 2
  Topologies <- Star
  MaxStream = 2
  MaxSaves = 0
  MaxFaults = 0
  MaxCommands = 0
  MaxRestarts = 2
SYMMETRY Symmetry
CONSTRAINT Rooted
INVARIANT StreamConverges
CHECK_DEADLOCK FALSE
