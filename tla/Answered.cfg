SPECIFICATION FairSpec
CONSTANTS
  Wid = {w1, w2}
  TaskId = {a, b, c}
  None = None
  Requests = {}
  Jobs = {}
  MaxRetries = 1
  StormThreshold = 2
  MaxCrashes = 1
  MaxEvents = 1
  MaxOpen = 1
  SpareIds = 0
  MayRaise = FALSE
  OwnerKnown = TRUE
PROPERTIES EveryTaskAnswered
