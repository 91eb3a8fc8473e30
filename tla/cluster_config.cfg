SPECIFICATION FairSpec
CONSTANTS
  a = a
  b = b
  c = c
  s = s
  t = t
  NULL = NULL
  Master = {c}
  Failing = c
  Slave = {s, t}
  NodeId <- MCNodeId
  MaxEpoch = 2
  MaxInFlight = 1
  MaxDelayed = 1
  MayTakeOver = {s, t}
  MayRestart = {s, t}
  MayDetect = {}
  Reach = {c, s, t}
  Links <- ConfigLinks
INVARIANTS SlotsOwnedByMasters
PROPERTY SlotsConverge
