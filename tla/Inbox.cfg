SPECIFICATION InboxSpec
CONSTANTS
  Notice = {"n1", "n2", "n3", "n4", "own"}
  Own = {"own"}
  PageSize = 2
CHECK_DEADLOCK FALSE
INVARIANTS PagesShiftOnlyByWrites
