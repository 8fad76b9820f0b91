SPECIFICATION FairSpec
CONSTANTS
  WINDOW_SIZE = 2
  MaxCalls = 2
  MaxRows = 4
  MaxNow = 3
INVARIANTS TypeOK WindowInOrder NoSecondSkipped
PROPERTIES CatchesUp
