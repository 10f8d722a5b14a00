------------------------------ MODULE MCTweets ------------------------------
(* Tweets for TLC.                                                          *)
EXTENDS Tweets
=============================================================================
