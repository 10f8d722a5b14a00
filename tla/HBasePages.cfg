SPECIFICATION Spec
CONSTANTS
  Fan = {"a", "b"}
  Idol = {"x", "y"}
  Follower = {"f1", "f2"}
  Unfollower = {"u1"}
  PairChoices <- MCPairChoices
  OldRows <- MCOldRows
  FirstTime = 3
  LastTime = 4
  Faults = TRUE
  Scrolled = "a"
  PageSize = 1
  Width = 3
  Sizes = 4
  UserId <- MCUserId
  Epoch = 94
CHECK_DEADLOCK FALSE
INVARIANTS ScansAgree FollowingsAreFollowers LoneFollowersExplained AcknowledgedIsStored NothingSkipped NoRepeat
