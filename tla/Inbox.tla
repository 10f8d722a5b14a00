-------------------------------- MODULE Inbox --------------------------------
(***************************************************************************)
(* The notifications of one user (inbox): other users' likes and comments  *)
(* add them, the user marks them, one or all, and a client walks through   *)
(* the numbered pages of the list, of all or with ?unread=true or =false.  *)
(*                                                                         *)
(* A page is two queries, a COUNT and a SELECT, without a transaction, and *)
(* others write between them and between the pages.  A row is its id; ids  *)
(* ascend as rows come, and so do their timestamps, which are taken to     *)
(* differ: the list is ordered by timestamp alone.                         *)
(***************************************************************************)
EXTENDS Integers, Sequences, FiniteSets

CONSTANTS Notice,     \* the notifications that may come
          Own,        \* those that the user's own likes and comments would be
          PageSize    \* PAGE_SIZE

ASSUME InboxAssumption == Own \subseteq Notice /\ PageSize \in Nat \ {0}

VARIABLES inbox,      \* the notification of each row, by its id
          sent,       \* the likes and comments that have been made
          unread,     \* the rows with unread = TRUE
          at,         \* what the client's walk does next, or how it ended
          filter,     \* the rows it asks for: all, the unread or the read ones
          page,       \* the page number
          total,      \* the COUNT of the page being made
          shown,      \* the rows it has got
          due,        \* history: rows that the whole walk ought to show
          entered,    \* history: did a row enter the list since its beginning?
          left,       \* history: did a row leave it?
          torn,       \* history: did one enter between a COUNT and its SELECT?
          repeated    \* history: did a row come twice?

rows == <<inbox, sent, unread>>
walk == <<at, filter, page, total, shown, repeated>>
inboxVars == <<rows, walk, due, entered, left, torn>>

(* DjangoFilterBackend; and a row's place in the list, newest first.        *)
Listed == {n \in DOMAIN inbox : filter # "all" => (n \in unread <=> filter = "unread")}
Place(n) == Cardinality({m \in Listed : m >= n})

Filter == {"all", "unread", "read"}

InboxInit ==
  /\ inbox = <<>> /\ sent = {} /\ unread = {}
  /\ at = "start" /\ filter \in Filter /\ page = 1 /\ total = 0 /\ shown = {}
  /\ due = {} /\ entered = FALSE /\ left = FALSE /\ torn = FALSE /\ repeated = FALSE

-----------------------------------------------------------------------------
(* A write changes the list under the walk, which notes what that does.     *)
Shifts ==
  LET new == ~(Listed' \subseteq Listed)
  IN  /\ due' = due \cap Listed'
      /\ entered' = (entered \/ new)
      /\ left' = (left \/ ~(Listed \subseteq Listed'))
      /\ torn' = (torn \/ (new /\ at = "select"))

(* send_like_notification and send_comment_notification: one's own likes    *)
(* and comments notify nobody.                                              *)
Notify(n) ==
  /\ n \notin sent /\ sent' = sent \cup {n}
  /\ IF n \in Own THEN UNCHANGED <<inbox, unread>>
     ELSE inbox' = Append(inbox, n) /\ unread' = unread \cup {Len(inbox')}
  /\ UNCHANGED walk /\ Shifts

MarkAllAsRead ==
  /\ unread # {} /\ unread' = {}
  /\ UNCHANGED <<inbox, sent, walk>> /\ Shifts

(* PUT with unread: save() writes a row whose other columns never change.   *)
Update(n) ==
  /\ unread' = IF n \in unread THEN unread \ {n} ELSE unread \cup {n}
  /\ UNCHANGED <<inbox, sent, walk>> /\ Shifts

-----------------------------------------------------------------------------
Pages(count) == IF count = 0 THEN 1 ELSE (count + PageSize - 1) \div PageSize

(* A number above the last one is a 404.                                    *)
CountRows ==
  /\ at \in {"start", "next"}
  /\ IF at = "start" \/ page <= Pages(Cardinality(Listed))
     THEN at' = "select" /\ total' = Cardinality(Listed)
     ELSE at' = "not_found" /\ UNCHANGED total
  /\ IF at = "start"
     THEN due' = Listed /\ entered' = FALSE /\ left' = FALSE
     ELSE UNCHANGED <<due, entered, left>>
  /\ UNCHANGED <<rows, filter, page, shown, torn, repeated>>

(* Paginator.page cuts the last page's slice at the COUNT.                  *)
Slice(first, last) == {n \in Listed : Place(n) \in first..last /\ Place(n) <= total}

Mutant_SliceFromNext == Slice((page - 1) * PageSize + 2, page * PageSize + 1)

Results == Slice((page - 1) * PageSize + 1, page * PageSize)

(* The link to the next page goes by the COUNT.                             *)
SelectRows ==
  /\ at = "select"
  /\ shown' = shown \cup Results
  /\ repeated' = (repeated \/ Results \cap shown # {})
  /\ IF page < Pages(total) THEN at' = "next" /\ page' = page + 1
                            ELSE at' = "end" /\ UNCHANGED page
  /\ UNCHANGED <<rows, filter, total, due, entered, left, torn>>

InboxNext ==
  \/ \E n \in Notice : Notify(n)
  \/ \E n \in DOMAIN inbox : Update(n)
  \/ MarkAllAsRead
  \/ CountRows \/ SelectRows

InboxSpec == InboxInit /\ [][InboxNext]_inboxVars

-----------------------------------------------------------------------------
(* Types; the rows are those of others' likes and comments, each once.      *)
InboxTypeOK ==
  /\ inbox \in Seq(Notice \ Own) /\ \A m, n \in DOMAIN inbox : inbox[m] = inbox[n] => m = n
  /\ sent \subseteq Notice /\ \A n \in DOMAIN inbox : inbox[n] \in sent
  /\ unread \cup shown \cup due \subseteq DOMAIN inbox
  /\ at \in {"start", "select", "next", "end", "not_found"}
  /\ filter \in Filter /\ {entered, left, torn, repeated} \subseteq BOOLEAN
  /\ page \in Nat \ {0} /\ total \in Nat

(* Numbered pages shift under a client only as others write.  A row that is *)
(* listed from the first page to the last is missed only if another one has *)
(* left the list meanwhile, which only marking under ?unread= does, or if   *)
(* one has come between the COUNT and the SELECT of a page, which cuts the  *)
(* last page short or leaves its link out; a row comes twice only if another*)
(* has come; and the link that a page gave leads nowhere only if rows have  *)
(* left.                                                                    *)
PagesShiftOnlyByWrites ==
  /\ at = "end" /\ ~(due \subseteq shown) => left \/ torn
  /\ repeated => entered
  /\ at = "not_found" => left
  /\ left => filter # "all"
=============================================================================
