SPECIFICATION TweetFairSpec
CONSTANTS
  Moderation = {"t"}
  Editor = {"e"}
  Deleter = {"d"}
  Reader = {"r"}
  Faults = TRUE
CHECK_DEADLOCK FALSE
INVARIANTS FannedOutWhole LostOnlyToForms
PROPERTIES StaleEnds
