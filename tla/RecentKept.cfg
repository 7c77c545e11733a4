SPECIFICATION Spec
CONSTANTS
  Mail = {m1, m2}
  Clean = {m1, m2}
  MaxRounds = 2
  MaxRetries = 2
  MaxCalls = 2
  MaxCrashes = 1
  ReflectAfter = 1
  SystemSizes <- OwnSize
  Short = 500
  Long = 1500
  Threshold = 12000
  Window = 10000
  KeepRecent = 1
  ManyFrom = 1
  OldRound = 2
  AskedKeep = {1}
  KeepOld = 1
INVARIANT RecentKept
CHECK_DEADLOCK FALSE
