CONSTANTS
  w1 = w1
  w2 = w2
  r1 = r1
  r2 = r2
  Writers = {w1, w2}
  Readers = {r1, r2}
  Capacity = 2
  PutSizes = {1, 2}
  GetSizes = {1, 2}
  MaxPuts = 3
SPECIFICATION MCSpec
INVARIANTS IndexBounds SlotExclusion SlotBalance
PROPERTIES EmptyOrOvertaken FullOrOvertaken ClaimsFinish ImplementsPool
