SPECIFICATION Spec
CONSTANTS
  b1 = b1  b2 = b2  b3 = b3  a1 = a1
  TraceIds = {1, 2}
  Queues = {"q1", "q2"}
  Fireable <- Shared
  Buffers <- ThreeBuffers
  Crumbs = {}
  Timeout = 1
  MaxTime = 1
  MaxEntries = 2
  BatchSize = 1
  ChanCap = 1
SYMMETRY BufferSymmetry
INVARIANTS LinksAgree IdleHoldsNoData ListsExact CountersExact BuffersConserved CapacityEnforced HorizonSound NoExpiredIdle
