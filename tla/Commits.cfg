SPECIFICATION Spec
CONSTANTS
  Call = {c1, c2}
  Foreign = {f}
  Agent = {a}
  NewFile = {c2}
  None = None
  MaxBreaks = 2
  MaxDeaths = 2
  MaxRestarts = 1
INVARIANTS IInv OneAtATime OkIsPushed LocalIsCommitted
PROPERTIES ChangesKept
CHECK_DEADLOCK FALSE
