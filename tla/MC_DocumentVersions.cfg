SPECIFICATION Spec
CONSTANTS
  a = a
  b = b
  c = c
  d = d
  Ops = {a, b, c, d}
  None = None
  Size <- Mixed
  Quota = 6
  MaxFailures = 1
SYMMETRY MixedSymmetry
INVARIANTS RowsHaveObjects DraftContinuesTip LedgerMatchesRows StoreMatchesRows
PROPERTY NoSaveIsLost
CHECK_DEADLOCK FALSE
