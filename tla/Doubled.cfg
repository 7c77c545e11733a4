SPECIFICATION Spec
CONSTANTS
  Wid = {w1, w2}
  TaskId = {a, b, c}
  None = None
  Requests = {"toggle_evolution"}
  Jobs = {}
  MaxRetries = 1
  StormThreshold = 2
  MaxCrashes = 0
  MaxEvents = 1
  MaxOpen = 2
  SpareIds = 0
  MayRaise = FALSE
  OwnerKnown = TRUE
INVARIANTS ListedOnce
