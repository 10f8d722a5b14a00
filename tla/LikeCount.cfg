SPECIFICATION FairSpec
CONSTANTS
  User = {"u1"}
  Liker = {"l1", "l2"}
  Canceller = {"c1", "c2"}
  Viewer = {"v"}
  UserOf <- MCUserOf
  Faults = TRUE
  KeyExpires = TRUE
CHECK_DEADLOCK FALSE
INVARIANTS CountLagsByVain DriftIsExplained NotifiedOnce
PROPERTIES WritersReturn
