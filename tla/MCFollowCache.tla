--------------------------- MODULE MCFollowCache ---------------------------
(* FollowCache for TLC: all requests name "a"; "b" is in the set from the   *)
(* start or never.                                                          *)
EXTENDS FollowCache

MCTargetOf == [p \in Follower \cup Unfollower |-> "a"]
=============================================================================
