CONSTANTS
  t1 = t1
  t2 = t2
  t3 = t3
  seed = seed
  Name = {t1, t2, t3, seed}
  Empty = Empty
  Graphs <- MCGraphs
SPECIFICATION Spec
INVARIANTS
  SortFailsOnlyOnCycles
  NoStaleOrder
PROPERTIES
  CallReturns
  ImplementsPrepareSpec
