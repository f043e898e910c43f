CONSTANTS
    p1 = p1
    p2 = p2
    p3 = p3
    People = {p1, p2, p3}
    o1 = o1
    o2 = o2
    Occupations = {o1, o2}
    Minimum <- MCMinimum
    Threshold <- MCThreshold
    Start <- MCStart
    Rows = {1, 2, 3, 4}
    Requests = {request}
    Jobs = {job}
    MaxEvents = 2
    MaxFaults = 1
SPECIFICATION Spec
INVARIANTS MinimumKept CoversOnce
PROPERTY CoverArrives
CHECK_DEADLOCK FALSE
