------------------------------ MODULE HBasePages ------------------------------
(***************************************************************************)
(* EndlessPagination.paginate_hbase: a client that scrolls the followings  *)
(* of one fan from the newest to the oldest and then pulls what is new,    *)
(* while the requests of HBaseFollow put and delete rows.  A row that was  *)
(* stamped early may be put late, and the row of the cursor may be gone.   *)
(***************************************************************************)
EXTENDS HBaseFollow, FiniteSets

CONSTANTS Scrolled,   \* the fan whose followings are scrolled
          PageSize

ASSUME PageAssumption == Scrolled \in Fan /\ PageSize \in Nat \ {0} /\ IsFiniteSet(OldRows)

VARIABLES phase,     \* of the client: "home", "scroll", "end", "pulled", "left"
          shown,     \* the rows it has got
          there,     \* the rows it should have got, but for those deleted since
          repeated   \* has it got one twice?

pageVars == <<phase, shown, there, repeated>>
vars == <<followVars, pageVars>>

PagesInit == phase = "home" /\ shown = {} /\ there = {} /\ repeated = FALSE

Init == FollowInit /\ PagesInit

-----------------------------------------------------------------------------
(* Keys of one fan differ in their time: a scan is a set of rows, and what  *)
(* a reverse scan finds first are the newest.                               *)
Rows == {row \in following : row.fan = Scrolled}

Newest(rows, n) ==
  {row \in rows : Cardinality({other \in rows : other.at > row.at}) < n}

AtMost(rows, time) == {row \in rows : row.at <= time}
AtLeast(rows, time) == {row \in rows : row.at >= time}
Times(rows) == {row.at : row \in rows}
Earliest(rows) == CHOOSE t \in Times(rows) : \A s \in Times(rows) : t <= s
Latest(rows) == CHOOSE t \in Times(rows) : \A s \in Times(rows) : t >= s

Serve(page, next) ==
  /\ phase' = next
  /\ shown' = shown \cup page
  /\ repeated' = (repeated \/ page \cap shown # {})

(* No parameter: the prefix scan with one row to look ahead.                *)
Home ==
  LET objects == Newest(Rows, PageSize + 1) IN
  /\ phase = "home" /\ TRUE \in Asked
  /\ Serve(Newest(objects, PageSize),
           IF Cardinality(objects) > PageSize THEN "scroll" ELSE "end")
  /\ there' = Rows
  /\ UNCHANGED followVars

(* created_at__lt: the reverse scan begins at the cursor and includes it.   *)
Mutant_KeepsCursorRow ==
  LET objects == Newest(AtMost(Rows, Earliest(shown)), PageSize + 2) IN
  /\ phase = "scroll" /\ TRUE \in Asked
  /\ Serve(Newest(objects, PageSize),
           IF Cardinality(objects) > PageSize THEN "scroll" ELSE "end")
  /\ UNCHANGED <<followVars, there>>

Mutant_LimitWithoutCursorRow ==
  LET cursor == Earliest(shown)
      objects == {row \in Newest(AtMost(Rows, cursor), PageSize + 1) : row.at # cursor} IN
  /\ phase = "scroll" /\ TRUE \in Asked
  /\ Serve(Newest(objects, PageSize),
           IF Cardinality(objects) > PageSize THEN "scroll" ELSE "end")
  /\ UNCHANGED <<followVars, there>>

Scroll ==
  LET cursor == Earliest(shown)
      objects == {row \in Newest(AtMost(Rows, cursor), PageSize + 2) : row.at # cursor} IN
  /\ phase = "scroll" /\ TRUE \in Asked
  /\ Serve(Newest(objects, PageSize),
           IF Cardinality(objects) > PageSize THEN "scroll" ELSE "end")
  /\ UNCHANGED <<followVars, there>>

(* created_at__gt: the scan from the cursor to MAX_TIMESTAMP, all of it.    *)
Pull ==
  LET cursor == Latest(shown)
      objects == {row \in AtLeast(Rows, cursor) : row.at # cursor} IN
  /\ phase = "end" /\ shown # {} /\ TRUE \in Asked
  /\ Serve(objects, "pulled")
  /\ there' = there \cup {row \in Rows : row.at > cursor}
  /\ UNCHANGED followVars

(* The switch reads as off: the page comes from MySQL, which keeps no rows  *)
(* of HBase, and the client's cursor is not one of a created_at column.     *)
Leave ==
  /\ phase \in {"home", "scroll", "end"} /\ FALSE \in Asked
  /\ phase' = "left"
  /\ UNCHANGED <<followVars, shown, there, repeated>>

PageNext == Home \/ Scroll \/ Pull \/ Leave

(* Somebody else's step; a row that is deleted need not be shown.           *)
FollowMeanwhile ==
  /\ FollowNext
  /\ there' = there \cap following'
  /\ UNCHANGED <<phase, shown, repeated>>

Next == FollowMeanwhile \/ PageNext

Spec == Init /\ [][Next]_vars

-----------------------------------------------------------------------------
(* A client that has scrolled to the end, or has pulled, has got every row  *)
(* that was there when it began, or when it pulled, and has not been deleted*)
(* since: no row is lost at a seam of two pages, whatever is put and deleted*)
(* around the cursor.                                                       *)
NothingSkipped == phase \in {"end", "pulled"} => there \subseteq shown

(* And it gets no row twice, also when the row of its cursor is gone        *)
(* (utils/paginations.py:63-64).                                            *)
NoRepeat == ~repeated
=============================================================================
