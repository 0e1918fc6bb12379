SPECIFICATION LeaseSpec
CONSTANTS
  u1 = u1
  u2 = u2
  t1 = t1
  t2 = t2
  t3 = t3
  t4 = t4
  Users = {u1, u2}
  Tokens = {t1, t2, t3, t4}
  UserOf <- MCUserOf
  LeaseMs = 4
  RenewMs = 1
  MaxSilence = 3
  NoRow = NoRow
  MaxTime = 6
  MaxCrashes = 1
SYMMETRY CallSymmetry
PROPERTY ImplementsMutex
CHECK_DEADLOCK FALSE
