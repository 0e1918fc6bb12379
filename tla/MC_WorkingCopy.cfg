SPECIFICATION Spec
CONSTANTS
  a = a
  b = b
  n1 = n1
  Existing = {a, b}
  Created = {n1}
  None = None
  MaxTurns = 3
  MaxEdits = 2
  MaxTyped = 1
  MaxFaults = 1
SYMMETRY Symmetric
INVARIANTS HandlesAreCurrent ReuseIsCurrent NoEditIsLost
PROPERTY ViewIsCurrent
CHECK_DEADLOCK FALSE
