SPECIFICATION MCSpec
SYMMETRY Interchangeable
CONSTANTS
  p = p
  q = q
  Threads <- TwoThreads
  TraceIds = {1, 2}
  NumBuffers = 2
  BufSize = 4
  HeaderSize = 1
  WordSize = 2
  WriteSizes = {1, 4}
  HeadThreshold = 0
  RetroThreshold = 1
  MaxDetached = 1
INVARIANT EveryBufferInOnePlace
INVARIANT ReturnNeverWaits
INVARIANT EntryNamesItsHeader
PROPERTY CallsGetDone
