SPECIFICATION Spec
CONSTANTS
    Proc = {p1, p2}
    Key = {k1, k2, k3}
    Size = {1, 8, 9}
    Limit = 8
    MaxRecords = 2
    StaleAfter = 1
    MaxStores = 3
    MaxClock = 0
    Faults = TRUE
    PruneFaults = FALSE
    Kills = FALSE
    None = None
SYMMETRY Interchangeable
INVARIANTS QuietBound Accounted LoadWhole
CHECK_DEADLOCK FALSE
