---------------------------- MODULE MCListCache ----------------------------
(* ListCache for TLC: object 1 is the oldest.                              *)
EXTENDS ListCache

MCCreatedAt == [x \in Item |-> IF x = 1 THEN 1 ELSE 2]
=============================================================================
