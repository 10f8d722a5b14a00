SPECIFICATION FairSpec
CONSTANTS
  Signup = {"s1", "s2"}
  Login = {"l1"}
  Patch = {"p1", "p2"}
  Viewer = {"v1"}
  UserOf <- MCUserOf
  Scenes <- MCScenes
  Faults = TRUE
CHECK_DEADLOCK FALSE
INVARIANTS MailSharedOnlyByOverlap SignedUpHasProfile LostOnlyToOverlap
PROPERTY StaleEnds
