SPECIFICATION FairSpec
CONSTANTS
  Thread = {th1, th2}
  None = None
  Budget = "amount"
  MaxBg = 1
  MaxCost = 1
  MaxRounds = 2
  MaxEvents = 2
  Pauses = TRUE
  Fails = TRUE
  Hangs = TRUE
VIEW View
INVARIANTS OverspendBound EventsInOrder
PROPERTY StopEndsLoop
