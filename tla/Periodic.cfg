SPECIFICATION Spec
CONSTANTS
  Wid = {w1, w2}
  TaskId = {a, b}
  None = None
  Requests = {"toggle_evolution"}
  Jobs = {"timeouts", "evolution", "health_check"}
  MaxRetries = 1
  StormThreshold = 2
  MaxCrashes = 1
  MaxEvents = 1
  MaxOpen = 1
  SpareIds = 1
  MayRaise = FALSE
  OwnerKnown = TRUE
SYMMETRY Symmetry
INVARIANTS TypeOK OneExecutor QueuedOnce OneOfAKind
PROPERTIES NoSilentLoss
