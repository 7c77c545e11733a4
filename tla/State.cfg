SPECIFICATION Spec
CONSTANTS
  Proc = {p1, p2, p3}
  None = None
  MaxCalls = 3
  MaxHead = 1
  MaxCrashes = 1
  MaxSpoils = 1
  Slow = FALSE
SYMMETRY Symmetry
VIEW View
INVARIANTS TypeOK NeverOvercharged
PROPERTIES SectionsAtomic
CHECK_DEADLOCK FALSE
