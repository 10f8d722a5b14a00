SPECIFICATION FairSpec
CONSTANTS
  Target = {"a", "b"}
  Follower = {"f1", "f2"}
  Unfollower = {"d1"}
  Viewer = {"v"}
  TargetOf <- MCTargetOf
  Earlier = "earlier"
  Faults = TRUE
CHECK_DEADLOCK FALSE
INVARIANTS NothingInvented CreatedOnce
PROPERTIES StaleEnds
