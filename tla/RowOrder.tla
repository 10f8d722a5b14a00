------------------------------ MODULE RowOrder ------------------------------
(* Lists of rows by created_at, as the database orders them and as the      *)
(* cached lists are meant to be ordered.                                    *)
EXTENDS Integers, Sequences, FiniteSets

CONSTANT CreatedAt  \* created_at of each row

Elements(s) == {s[i] : i \in DOMAIN s}

Distinct(s) == \A i, j \in DOMAIN s : s[i] = s[j] => i = j

NewestFirst(s) == \A i, j \in DOMAIN s : i < j => CreatedAt[s[i]] >= CreatedAt[s[j]]

Keep(s, n) == SubSeq(s, 1, IF Len(s) < n THEN Len(s) ELSE n)

(* What order_by('-created_at')[:n] may return of the rows S: the newest n, *)
(* newest first; rows of equal created_at in any order.                     *)
NewestRows(S, n) ==
  {s \in UNION {[1..k -> S] : k \in 0..n} :
     /\ Distinct(s)
     /\ NewestFirst(s)
     /\ Len(s) < n => Elements(s) = S
     /\ \A x \in S \ Elements(s) : \A i \in DOMAIN s : CreatedAt[x] <= CreatedAt[s[i]]}
=============================================================================
