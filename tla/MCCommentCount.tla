--------------------------- MODULE MCCommentCount ---------------------------
(* CommentCount for TLC: every request is about one comment, which p1      *)
(* creates if there is a p1; another comment may be there.                 *)
EXTENDS CommentCount

MCCommentOf == [p \in Writer |-> 1]
=============================================================================
