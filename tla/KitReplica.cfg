CONSTANTS
  e1 = e1
  e2 = e2
  x1 = x1
  x2 = x2
  x3 = x3
  x4 = x4
  d1 = d1
  d2 = d2
  None = None
  Editor = {e1, e2}
  Edit = {x1, x2, x3}
  Lineage = {d1, d2}
  CompactAfter = 1
  MaxSeq = 3
SPECIFICATION Spec
SYMMETRY Alike
CHECK_DEADLOCK FALSE
INVARIANT StoreHoldsItsVersion
INVARIANT InTurnTheHistoryIsItsOwn
PROPERTY InTurnAFoldKeepsTheVersion
