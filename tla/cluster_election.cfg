SPECIFICATION Spec
CONSTANTS
  a = a
  b = b
  c = c
  s = s
  t = t
  NULL = NULL
  Master = {a, b, c}
  Failing = c
  Slave = {s, t}
  NodeId <- MCNodeId
  MaxEpoch = 3
  MaxInFlight = 2
  MaxDelayed = 0
  MayTakeOver = {}
  MayRestart = {s}
  MayDetect = {a, b, s, t}
  Reach = {a, b}
  Links = {}
SYMMETRY MCSymmetry
INVARIANTS TypeOK OneWinnerPerEpoch DurableClaim
PROPERTY ElectionSpec
CHECK_DEADLOCK FALSE
