---------------------------- MODULE MCFeedStores ----------------------------
(* FeedStores for TLC: "a" is delivered twice, "b" once and later.          *)
EXTENDS FeedStores

MCTweetOf == [d \in Delivery |-> IF d = "d3" THEN "b" ELSE "a"]
MCCreatedAt == [t \in Tweet |-> IF t = "a" THEN 1 ELSE 2]
=============================================================================
