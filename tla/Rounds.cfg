SPECIFICATION FairSpec
CONSTANTS
  Mail = {m1, m2, m3}
  Clean = {m1, m3}
  MaxRounds = 3
  MaxRetries = 2
  MaxCalls = 2
  MaxCrashes = 1
  ReflectAfter = 1
  SystemSizes <- Sizes
  Short = 500
  Long = 1500
  Threshold = 12000
  Window = 10000
  KeepRecent = 1
  ManyFrom = 1
  OldRound = 2
  AskedKeep = {1}
  KeepOld = 1
VIEW View
INVARIANTS OwnerInOrder IInv NoHoles FitsWindow CallsAnswered CallsBounded
PROPERTY TaskEnds
CHECK_DEADLOCK FALSE
