SPECIFICATION Spec
CONSTANTS
  e1 = e1
  e2 = e2
  w = w
  Edits = {e1, e2}
  Work = w
  None = None
  MaxRuns = 1
  MaxMishaps = 1
SYMMETRY Symmetric
INVARIANTS NoEditIsLost CleanIsSaved RunReadsTheEdits
CHECK_DEADLOCK FALSE
