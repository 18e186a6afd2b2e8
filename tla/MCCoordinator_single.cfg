SPECIFICATION Spec
CONSTANTS
  a1 = a1  a2 = a2  t1 = t1  t2 = t2  f1 = f1  f2 = f2  f3 = f3
  Agents = {a1, a2}
  TraceIds = {t1, t2}
  Fireable <- OneTraceEach
  Timeout = 1
  MaxTime = 2
SYMMETRY AgentSymmetry
INVARIANTS LinksAgree CollectedWhereKnown
PROPERTIES ExpiredAreGone
