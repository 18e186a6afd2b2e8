SPECIFICATION Spec
CONSTANTS
  p = p
  q = q
  Threads <- TwoThreads
  TraceIds = {1, 2}
  NumBuffers = 2
  BufSize = 6
  HeaderSize = 2
  WordSize = 2
  WriteSizes = {3}
  HeadThreshold = 0
  RetroThreshold = 1
  MaxDetached = 1
INVARIANT CounterWrittenInside
