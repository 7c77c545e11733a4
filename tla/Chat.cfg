SPECIFICATION FairSpec
CONSTANTS
  Limit = 4
  Least = 2
  MaxSize = 5
  FenceSize = 1
  Texts <- AllTexts
  Pages <- AllPages
  Messages <- Forms
  Attempts = 3
  MaxUpdates = 3
  MaxMessages = 2
  MaxRestarts = 2
INVARIANTS IInv ConfirmedIsTask TasksInOrder PartsInOrder TextKept
PROPERTY Heard
