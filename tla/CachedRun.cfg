SPECIFICATION FairSpec
CONSTANTS
    Run = {r1, r2}
    Key = {k1, k2}
    Doc = {a, b}
    Content = {1, 2}
    k1 = k1
    k2 = k2
    a = a
    b = b
    Root <- MCRoot
    Refs <- MCRefs
    Missing = Missing
    None = None
    MaxEdits = 1
    MaxRuns = 2
INVARIANTS AnswersCurrent EntriesVouch
CHECK_DEADLOCK FALSE
PROPERTY RunsEnd
