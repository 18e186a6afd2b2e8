CONSTANTS
  Agents = {11, 12}
  Pool <- MCPool
  Workloads <- MCWorkloads
  TraceIds = {0, 5}
  DataCap = 1
  IncomingCap = 1
  HeaderSize = 1
  MaxFailures = 1
  GetSize = 2
  ChanCap = 1
SPECIFICATION FairSpec
INVARIANTS StoredAsReported StoredAsFilled ReportedInOrder
PROPERTIES BuffersReturn AllIsStored
