SPECIFICATION Spec
CONSTANTS
    p1 = p1
    p2 = p2
    c1 = c1
    a1 = a1
    q1 = q1
    v0 = v0
    Purges = {p1, p2}
    Creates = {c1}
    Appends = {a1}
    DocPurges = {q1}
    First = v0
    None = None
    MaxToggles = 2
    MaxFaults = 1
INVARIANTS ActiveKeepsItsBytes PurgeLeavesNothing
PROPERTY PurgesEnd
CHECK_DEADLOCK FALSE
