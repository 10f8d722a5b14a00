SPECIFICATION FairSpec
CONSTANTS
  Item = {1, 2, 3, 4}
  CreatedAt <- MCTied
  Limit = 2
  PageSize = 1
  Faults = TRUE
CHECK_DEADLOCK FALSE
INVARIANTS NothingSkipped NothingMissedByPull
PROPERTIES NoRepeat ScrollEnds
