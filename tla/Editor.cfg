CONSTANTS
  t1 = t1
  t2 = t2
  m1 = m1
  None = None
  Types = {t1, t2}
  Members = {m1}
  Ptrs <- P
  Docs <- MCDocs
  Tree <- MCTree
  MaxGroupDepth = 1
  MaxRefusals = 2
SPECIFICATION MCSpec
CHECK_DEADLOCK FALSE
INVARIANT EditSound
INVARIANT BuiltAsEdited
PROPERTY WritesConfined
