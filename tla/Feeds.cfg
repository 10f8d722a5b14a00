SPECIFICATION FeedFairSpec
CONSTANTS
  Tweet = {"a", "b"}
  Delivery = {"d1", "d2", "d3"}
  TweetOf <- MCTweetOf
  CreatedAt <- MCCreatedAt
  Client = {"c"}
  Limit = 3
  MaxTurns = 2
CHECK_DEADLOCK FALSE
INVARIANTS ErrorsNeedTwoAnswers CopiesBounded
PROPERTIES ListReadable
