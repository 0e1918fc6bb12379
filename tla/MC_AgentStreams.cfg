SPECIFICATION VisitedSpec
CONSTANTS
  u1 = u1
  r1 = r1
  r2 = r2
  r3 = r3
  t1 = t1
  t2 = t2
  Users = {u1}
  Runs = {r1}
  Tabs = {t1, t2}
  Stopped = None
  OwnerOf <- OneRun
  None = None
  MaxFaults = 2
  MaxCrashes = 1
PROPERTIES ImplementsLifecycle StreamEnds EveryRunEnds LeaseFreed
CHECK_DEADLOCK FALSE
