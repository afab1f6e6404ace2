SPECIFICATION FairSpec
CONSTANTS
    Run = {r1}
    Compiler = {c1, c2, c3}
    Format <- MCFormat
    Serves <- MCServes
    CompilerLists <- AllLists
    Name = {"validate"}
    PassLists <- FewPasses
    Options <- AnyOptions
    Limit <- MCLimit
    Sizes = {0, 1, 2, 4}
    Ref = {x1, x2, x3}
    Given = {}
    File = {spec, ext}
    SpecFile = spec
    Index <- MCIndex
    Tables <- DetectTables
    Reports <- DetectReports
    None = None
    r1 = r1
    c1 = c1
    c2 = c2
    c3 = c3
    x1 = x1
    x2 = x2
    x3 = x3
    x4 = x4
    x5 = x5
    spec = spec
    ext = ext
CHECK_DEADLOCK FALSE
INVARIANTS RefusalStated CompilesWhole
PROPERTY RunsEnd
