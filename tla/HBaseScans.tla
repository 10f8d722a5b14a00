----------------------------- MODULE HBaseScans -----------------------------
(***************************************************************************)
(* HBaseFollow and HBasePages take a row key for the pair that it encodes  *)
(* and a scan for a set of rows ordered by time.  This module puts the     *)
(* encoded keys of HBaseKeys under them.                                   *)
(***************************************************************************)
EXTENDS HBasePages, HBaseKeys

CONSTANTS UserId,   \* the id of each fan
          Epoch     \* added to a time of the model

MaxTimestamp == Ten[Size(Epoch)] - 1

(* No id is longer than it is padded to, and all times have one number of   *)
(* digits: 16 from 2001 until 2286.                                         *)
ASSUME ScanAssumption ==
  /\ UserId \in [Fan -> 0..(Ten[Sizes] - 1)]
  /\ \A f, g \in Fan : UserId[f] = UserId[g] => f = g
  /\ \A fan \in Fan : Size(UserId[fan]) <= Width
  /\ FirstTime <= LastTime
  /\ Epoch \in Nat /\ Epoch + LastTime < Ten[Sizes] /\ Epoch + LastTime < MaxTimestamp
  /\ \A time \in 0..LastTime : Size(Epoch + time) = Size(Epoch)

KeyOf == [fan \in Fan |-> [time \in 0..LastTime |-> RowKey(UserId[fan], Epoch + time)]]
IdKeyOf == [fan \in Fan |-> IdKey(UserId[fan])]
LastKeyOf == [fan \in Fan |-> RowKey(UserId[fan], MaxTimestamp)]

KeysOf(rows) == {KeyOf[row.fan][row.at] : row \in rows}

-----------------------------------------------------------------------------
(* The scans of paginate_hbase at the client's cursor, and the prefix scan  *)
(* that finds a user's followings, return on the encoded keys exactly the   *)
(* rows that pages and unfollows rely on, the latest first, and each key    *)
(* decodes to what it was made of: no id is the beginning of another one,   *)
(* and bytes sort as the numbers do (README.md:103).                        *)
ScansAgree ==
  LET keys == KeysOf(following)
      owned(fan) == {row \in following : row.fan = fan}
      cursors == Times(shown) IN
  /\ \A row \in following :
       Decoded(KeyOf[row.fan][row.at]) = <<UserId[row.fan], Epoch + row.at>>
  /\ \A fan \in Fan : ScanPrefix(keys, IdKeyOf[fan]) = KeysOf(owned(fan))
  /\ LastOf(ScanPrefix(keys, IdKeyOf[Scrolled]), PageSize + 1)
       = KeysOf(Newest(Rows, PageSize + 1))
  /\ \A time \in cursors :
       /\ LastOf(ScanDown(keys, KeyOf[Scrolled][time], IdKeyOf[Scrolled]), PageSize + 2)
            = KeysOf(Newest(AtMost(Rows, time), PageSize + 2))
       /\ ScanUp(keys, KeyOf[Scrolled][time], LastKeyOf[Scrolled])
            = KeysOf(AtLeast(Rows, time))
=============================================================================
