SPECIFICATION FairSpec
CONSTANTS
    Proc = {p1, p2}
    Key = {k1, k2}
    Size = {1, 8}
    Limit = 8
    MaxRecords = 2
    StaleAfter = 1
    MaxStores = 2
    MaxClock = 1
    Faults = FALSE
    PruneFaults = FALSE
    Kills = TRUE
    None = None
PROPERTIES IsLossyStore Terminates
INVARIANTS YoungTempKept SweepFits
CHECK_DEADLOCK FALSE
