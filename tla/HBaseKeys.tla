------------------------------ MODULE HBaseKeys ------------------------------
(***************************************************************************)
(* Row keys of django_hbase/models/hbase_models.py, byte by byte, since    *)
(* HBase knows no other order than that of the bytes.  A key is the id of  *)
(* a user, padded with zeros and reversed, a colon, and a time in          *)
(* microseconds that is neither padded nor reversed.  A byte is a digit or *)
(* the colon, which comes after the digits as it does in ASCII.            *)
(***************************************************************************)
EXTENDS Naturals, FiniteSets, SequencesExt

CONSTANTS Width,   \* of a padded integer: 16
          Sizes    \* a bound on how many digits a number has

ASSUME KeyAssumption == Width \in Nat /\ Sizes \in Nat \ {0}

Colon == 10

-----------------------------------------------------------------------------
(* Powers of ten.                                                           *)
Ten[k \in Nat] == IF k = 0 THEN 1 ELSE 10 * Ten[k - 1]

(* str(value); int(text).                                                   *)
Size(n) == CHOOSE k \in 1..Sizes : n < Ten[k] /\ (k = 1 \/ n >= Ten[k - 1])

Digits(n) == [i \in 1..Size(n) |-> (n \div Ten[Size(n) - i]) % 10]

NumberOf(text) ==
  LET value[i \in 0..Len(text)] == IF i = 0 THEN 0 ELSE 10 * value[i - 1] + text[i]
  IN  value[Len(text)]

(* serialize_field of an IntegerField: a longer number is not cut.          *)
Mutant_NotPadded(n) == Digits(n)

Padded(n) == [i \in 1..(IF Size(n) < Width THEN Width - Size(n) ELSE 0) |-> 0] \o Digits(n)

(* serialize_row_key, of a whole tuple and of one that ends after the id.   *)
IdKey(id) == Reverse(Padded(id))
RowKey(id, time) == IdKey(id) \o <<Colon>> \o Digits(time)

(* deserialize_row_key: everything up to the colon is the id.               *)
ColonAt(key) == CHOOSE i \in DOMAIN key : key[i] = Colon

Decoded(key) ==
  <<NumberOf(Reverse(SubSeq(key, 1, ColonAt(key) - 1))),
    NumberOf(SubSeq(key, ColonAt(key) + 1, Len(key)))>>

-----------------------------------------------------------------------------
(* What table.scan does on the server.                                      *)
Before(key, other) ==
  \/ IsStrictPrefix(key, other)
  \/ \E i \in DOMAIN key \cap DOMAIN other :
       key[i] < other[i] /\ \A j \in 1..(i - 1) : key[j] = other[j]

(* filter(prefix); filter(start, stop, reverse=True), from start down to    *)
(* stop; filter(start, stop).  The start is part of the result, the stop    *)
(* is not.  A limit cuts a reverse scan after the last keys.                *)
ScanPrefix(keys, prefix) == {key \in keys : IsPrefix(prefix, key)}
ScanDown(keys, start, stop) == {key \in keys : ~Before(start, key) /\ Before(stop, key)}
ScanUp(keys, start, stop) == {key \in keys : ~Before(key, start) /\ Before(key, stop)}

LastOf(keys, limit) == {key \in keys : Cardinality({other \in keys : Before(key, other)}) < limit}
=============================================================================
