SPECIFICATION FairSpec
CONSTANTS
  f1 = f1  f2 = f2  f3 = f3
  Triggers <- ThreeTriggers
  LocalCap = 1
  OutCap = 2
  RemoteCap = 1
  BatchSize = 2
  MaxDrops = 1
  MaxFails = 1
CHECK_DEADLOCK FALSE
INVARIANT ReceivedOnce
PROPERTY StoredInTheEnd
PROPERTY DeliveredOrLost
