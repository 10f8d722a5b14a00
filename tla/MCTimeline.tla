----------------------------- MODULE MCTimeline -----------------------------
(* Timeline for TLC: rows 2 and 3 have one created_at.                      *)
EXTENDS Timeline

MCTied == [x \in Item |-> IF x > 2 THEN x - 1 ELSE x]
=============================================================================
