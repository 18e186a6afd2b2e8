SPECIFICATION Spec
CONSTANTS
  t1 = t1  t2 = t2  a1 = a1  a2 = a2
  Crumbs <- TwoByTwo
  ChanCap = 2
  MaxDrops = 1
  MaxFails = 1
CHECK_DEADLOCK FALSE
INVARIANT DecodedAsAdded
