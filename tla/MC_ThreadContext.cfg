SPECIFICATION Spec
CONSTANTS
    t1 = t1
    r1 = r1
    r2 = r2
    k1 = k1
    k2 = k2
    Runs = {r1,r2}
    Compactions = {k1,k2}
    Titles = {t1}
    Grant = 3
    Costs = {1}
    MaxFaults = 1
    Earlier = 1
    MaxMessages = 5
    Trigger = 3
    Retain = 1
    History = 2
    CompactionOf <- CompactionOfRun
INVARIANTS ChargedOnce BoundaryIsRepresented RecentIsRemembered
PROPERTY LatestAdvances
CHECK_DEADLOCK FALSE
