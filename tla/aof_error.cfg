SPECIFICATION Spec
CONSTANTS
  DB = {0, 1}
  Setting <- Settings
  PipeSize = 2
  MaxWrites = 2
  MaxFaults = 1
INVARIANT ErrorHasBuffer
