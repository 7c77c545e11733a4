SPECIFICATION QuietSpec
CONSTANTS
  Wid = {w1}
  TaskId = {a, b}
  None = None
  Requests = {"schedule_task"}
  Jobs = {}
  MaxRetries = 1
  StormThreshold = 2
  MaxCrashes = 0
  MaxEvents = 1
  MaxOpen = 3
  SpareIds = 0
  MayRaise = FALSE
  OwnerKnown = TRUE
PROPERTIES QueuedIsLaunched
