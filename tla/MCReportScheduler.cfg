\* Data keeps coming for both queues; a limiter lets one trigger through and is
\* then in debt.
CONSTANTS
  Queues = {"q1", "q2"}
  Traces = {1, 2, 3}
  Fireable <- MCFireable
  MaxHeld = 2
  BatchSize = 2
  Burst = 0
  MaxCredit = 2
  Width = 3
  LeafMax = 3
  Ids = {0, 2, 3, 4, 7}
SPECIFICATION MCSpec
INVARIANTS PopsInOrder
PROPERTIES GapNeverWidens NoStarvation BatchReturns
