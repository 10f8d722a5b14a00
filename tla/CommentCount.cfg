SPECIFICATION Spec
CONSTANTS
  Comment = {1, 2}
  Creator = {"p1"}
  Editor = {"e"}
  Destroyer = {"d1", "d2"}
  Viewer = {"v"}
  CommentOf <- MCCommentOf
  Faults = TRUE
  KeyExpires = TRUE
CHECK_DEADLOCK FALSE
INVARIANTS CountLagsByUncounted DriftBounded
