SPECIFICATION Spec
CONSTANTS
  u1 = u1
  r1 = r1
  r2 = r2
  r3 = r3
  t1 = t1
  t2 = t2
  Users = {u1}
  Runs = {r1, r2, r3}
  Tabs = {t1}
  OwnerOf <- OneOwner3
  None = None
  MaxFaults = 0
  Stopped = None
  MaxCrashes = 1
INVARIANT AtMostOneExecution
CHECK_DEADLOCK FALSE
