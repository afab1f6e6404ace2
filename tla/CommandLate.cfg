CONSTANTS
    Procs = {p1}
    Modes = {m1}
    NewMode = m1
    None = None
    Lines <- ArgLines
SPECIFICATION Spec
INVARIANT LateSignalChangesNothing
CHECK_DEADLOCK FALSE
