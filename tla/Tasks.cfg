SPECIFICATION Spec
CONSTANTS
  Wid = {w1, w2}
  TaskId = {a, b, c, d}
  None = None
  Requests = {"schedule_task", "cancel_task", "review_request", "restart_request"}
  Jobs = {}
  MaxRetries = 1
  StormThreshold = 2
  MaxCrashes = 2
  MaxEvents = 1
  MaxOpen = 2
  SpareIds = 2
  MayRaise = TRUE
  OwnerKnown = TRUE
SYMMETRY Symmetry
INVARIANTS IInv OneExecutor RunningIsBusy QueuedOnce OneOfAKind
PROPERTIES NoSilentLoss CancelEndsTask
