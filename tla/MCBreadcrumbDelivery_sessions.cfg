SPECIFICATION FairSpec
CONSTANTS
  t1 = t1  t2 = t2  a1 = a1  a2 = a2
  Crumbs <- TwoByTwo
  ChanCap = 2
  MaxDrops = 1
  MaxFails = 2
CHECK_DEADLOCK FALSE
INVARIANT FirstSessionDecodedAsAdded
INVARIANT RefusedOnlyAfterDrop
PROPERTY CallsAnswered
PROPERTY AddedIsDecoded
