SPECIFICATION Spec
CONSTANTS
  Comment = {1}
  Creator = {}
  Editor = {"e"}
  Destroyer = {"d2"}
  Viewer = {"v"}
  CommentOf <- MCCommentOf
  Faults = FALSE
  KeyExpires = FALSE
CHECK_DEADLOCK FALSE
INVARIANT EditsNeverCount
