--------------------------- MODULE MCHBasePages ---------------------------
(* HBasePages for TLC: the second follow repeats the first, or shares its   *)
(* fan or its idol, and the unfollow is of the first one's pair or of an    *)
(* older row.  The reversed id of "a" begins that of "b" but for the zeros. *)
EXTENDS HBaseScans, TLC

To(fan, idol) == [fan |-> fan, idol |-> idol]

MCPairChoices ==
  {p \in [Request -> {To("a", "x"), To("a", "y"), To("b", "x")}] :
     p["f1"] = To("a", "x") /\ p["u1"].fan = "a"}

MCOldRows == {[fan |-> "a", idol |-> "x", at |-> 1], [fan |-> "a", idol |-> "y", at |-> 2]}

MCUserId == "a" :> 1 @@ "b" :> 21
=============================================================================
