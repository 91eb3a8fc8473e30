SPECIFICATION FairSpec
CONSTANTS
  DB = {0, 1}
  Setting <- Settings
  PipeSize = 2
  MaxWrites = 2
  MaxFaults = 2
INVARIANTS TypeOK FileRebuildsDataset AckedIsSynced
PROPERTY WaitEnds
