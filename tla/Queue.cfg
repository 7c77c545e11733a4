SPECIFICATION Spec
CONSTANTS
  TaskId = {t1, t2, t3}
  MaxSeq = 4
  MayFail = TRUE
SYMMETRY Symmetry
INVARIANT RestoreKeepsOrder
PROPERTY ImplementsDeques
CHECK_DEADLOCK FALSE
