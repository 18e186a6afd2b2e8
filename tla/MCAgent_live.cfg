SPECIFICATION FairSpec
CONSTANTS
  b1 = b1  b2 = b2  b3 = b3  a1 = a1
  TraceIds = {1, 2}
  Queues = {"q1", "q2"}
  Fireable <- TwoQueues
  Buffers <- ThreeBuffers
  Crumbs = {a1}
  Timeout = 1
  MaxTime = 0
  MaxEntries = 2
  BatchSize = 1
  ChanCap = 1
PROPERTIES BuffersComeBack CrumbsFollowTrigger
