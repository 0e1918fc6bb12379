SPECIFICATION Spec
CONSTANTS
  r = r
  m = m
  s = s
  f = f
  Keys = {r, m, s, f}
  KindOf <- OneOfEach
  MaxTurns = 1
  MaxAttempts = 1
  MaxBatch = 3
  MaxSegments = 2
INVARIANTS MutationsFormAPrefix ReadsSeeTheSelection FinishedWhole FuseHolds
CHECK_DEADLOCK FALSE
