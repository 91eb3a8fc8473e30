SPECIFICATION FairSpec
CONSTANTS
  s1 = s1
  s2 = s2
  i1 = i1
  i2 = i2
  i3 = i3
  NULL = NULL
  Sentinel = {s1, s2}
  Instance = {i1, i2, i3}
  FirstMaster = i1
  Quorum = 2
  MaxEpoch = 2
  MaxInFlight = 1
  MayFail = {s1, s2}
  MayFailOther = {s2}
  MayRetry = FALSE
  MayRestart = {s1}
INVARIANTS TypeOK OneVotePerEpoch ElectedByMajorityOfItsEpoch PromotedIsSet
PROPERTY FailoverEnds
