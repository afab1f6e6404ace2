SPECIFICATION StagesSpec
CONSTANTS
    Run = {r1, r2}
    r1 = r1
    Compiler = {c1, c2, c3}
    Format <- OneFormat
    Serves <- MCServes
    CompilerLists <- OneList
    Name = {"names", "validate"}
    PassLists <- OneOrTwo
    Options <- VerifyOrNot
    Limit <- MCLimit
    Sizes = {1}
    Ref = {x1, x2, x3, x4, x5}
    Given = {x1}
    File = {spec, ext}
    SpecFile = spec
    Index <- MCIndex
    Tables <- MCTables
    Reports <- FewReports
    None = None
    c1 = c1
    c2 = c2
    c3 = c3
    x1 = x1
    x2 = x2
    x3 = x3
    x4 = x4
    x5 = x5
    spec = spec
    ext = ext
CHECK_DEADLOCK FALSE
INVARIANTS FindingsPlaced NothingLost VerifiedSound StopReturnsNone
