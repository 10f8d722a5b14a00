---------------------------- MODULE MCLikeCount ----------------------------
(* LikeCount for TLC: every request comes from the same user.              *)
EXTENDS LikeCount

MCUserOf == [p \in Liker \cup Canceller |-> "u1"]
=============================================================================
