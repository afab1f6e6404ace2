CONSTANTS
    Procs = {p1, p2}
    Modes = {m1, m2}
    NewMode = m1
    None = None
    Lines <- ArgLines
SPECIFICATION Spec
INVARIANTS OutputSafe ExitTells
PROPERTY ModeKept
SYMMETRY Symmetry
CHECK_DEADLOCK FALSE
