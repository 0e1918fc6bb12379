SPECIFICATION FairPanelSpec
CONSTANTS
  t1 = t1
  t2 = t2
  r1 = r1
  r2 = r2
  Threads = {t1, t2}
  Runs = {r1, r2}
  None = None
  MaxSwitches = 1
  Retries = 1
  MaxLosses = 2
  MaxFaults = 1
PROPERTIES Settles EndedStaysEnded
CHECK_DEADLOCK FALSE
