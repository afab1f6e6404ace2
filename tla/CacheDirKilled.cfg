SPECIFICATION Spec
CONSTANTS
    Proc = {p1, p2}
    Key = {k1, k2}
    Size = {1, 8}
    Limit = 8
    MaxRecords = 2
    StaleAfter = 1
    MaxStores = 2
    MaxClock = 0
    Faults = FALSE
    PruneFaults = FALSE
    Kills = TRUE
    None = None
INVARIANTS QuietBound
CHECK_DEADLOCK FALSE
