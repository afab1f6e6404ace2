SPECIFICATION Spec
CONSTANTS
    Proc = {p1}
    Key = {k1, k2, k3}
    Size = {1, 8, 9}
    Limit = 8
    MaxRecords = 2
    StaleAfter = 1
    MaxStores = 3
    MaxClock = 2
    Faults = FALSE
    PruneFaults = TRUE
    Kills = FALSE
    None = None
SYMMETRY Interchangeable
PROPERTIES UsedLastStays
CHECK_DEADLOCK FALSE
