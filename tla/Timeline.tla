------------------------------ MODULE Timeline ------------------------------
(***************************************************************************)
(* A client that scrolls through its newsfeed, or a tweet list, to the end *)
(* and then pulls for news (utils/paginations.py and the list views of     *)
(* newsfeeds and tweets), while the list changes under it.                 *)
(*                                                                         *)
(* Each request takes the cached list, or rebuilds it, and cuts its page   *)
(* out of it; a page that the list cannot fill comes from the database, in *)
(* a step of its own.  The list is ListCache seen from afar: LPUSH and LTRIM*)
(* are one step, and so are a hit's EXISTS and LRANGE; no rebuild outlives *)
(* its lock, or meets an LPUSH before its EXEC; all other readers are one. *)
(* What ListCache says of a push that is skipped or fails, or that makes   *)
(* the key anew, is kept: the list that the client finds may lack any rows.*)
(***************************************************************************)
EXTENDS RowOrder

CONSTANTS Item,      \* the rows of the list, each to be inserted and pushed
          Limit,     \* REDIS_LIST_LENGTH_LIMIT
          PageSize,  \* EndlessPagination.page_size
          Faults     \* may Redis fail?

ASSUME SizeAssumption == Limit \in Nat \ {0} /\ PageSize \in Nat \ {0}
ASSUME TimeAssumption == CreatedAt \in [Item -> Nat \ {0}]
ASSUME FaultsAssumption == Faults \in BOOLEAN

VARIABLES rows,      \* the committed rows
          list,      \* the Redis list; <<>> is "no such key"
          writer,    \* where the writer of each row is; a late one may have
                     \* asked for the key before it expired
          anew,      \* was the list made by a push?
          loading,   \* does another reader hold the lock, its rows read?
          phase,     \* what the client does
          snapshot,  \* the rows that the lock's holder is about to install
          page,      \* the page it got last; the last row is the cursor
          shown,     \* all rows it has got
          top,       \* created_at of the first row it got, 0 before
          due,       \* history: the rows it must get
          unpushed,  \* history: the rows that the list, or the one being loaded,
                     \*          lacked when their push was skipped or failed
          overtaken  \* history: the listed or settled rows that an older one
                     \*          was pushed after, or that a list made anew lacks

client == <<phase, page, shown, top, due>>
cache == <<list, anew, loading, snapshot>>
vars == <<rows, writer, unpushed, overtaken, cache, client>>

Init ==
  /\ rows = {} /\ writer = [x \in Item |-> "insert"]
  /\ list = <<>> /\ anew = FALSE
  /\ loading = FALSE /\ snapshot = <<>>
  /\ phase = "out" /\ page = <<>> /\ shown = {} /\ top = 0 /\ due = {}
  /\ unpushed = {} /\ overtaken = {}

(* A reader is between its SELECT and its EXEC.                             *)
Loading == loading \/ phase \in {"install", "install_pull"}

(* The rows whose writer is done, but those that the list lacks.            *)
Settled == {x \in rows : writer[x] = "done"} \ unpushed

-----------------------------------------------------------------------------
(* paginate_ordered_list and the querysets.  created_at__lt is that of the  *)
(* last row of the page before; the first request has none.                 *)
Mutant_NotAfter(S) ==
  IF page = <<>> THEN S ELSE {x \in S : CreatedAt[x] <= CreatedAt[page[Len(page)]]}

Older(S) ==
  IF page = <<>> THEN S ELSE {x \in S : CreatedAt[x] < CreatedAt[page[Len(page)]]}

Newer(S) == {x \in S : CreatedAt[x] > top}

(* The list from its first row in S on; an unfinished loop gives nothing.   *)
StartingIn(s, S) ==
  IF Elements(s) \cap S = {} THEN <<>>
  ELSE SubSeq(s, CHOOSE i \in DOMAIN s : s[i] \in S /\ \A j \in 1..(i - 1) : s[j] \notin S,
              Len(s))

(* The list up to its first row outside S.                                  *)
WhileIn(s, S) ==
  Keep(s, CHOOSE n \in 0..Len(s) :
            (\A i \in 1..n : s[i] \in S) /\ (n < Len(s) => s[n + 1] \notin S))

Slice(rest) == Keep(rest, PageSize)

HasNextPage(rest) == Len(rest) > PageSize

Mutant_NeverFallsBack(s, rest) == TRUE

(* paginate_cached_list: is this page all there is?                         *)
ListSuffices(s, rest) == HasNextPage(rest) \/ Len(s) < Limit

-----------------------------------------------------------------------------
(* The client gets a page, and asks for the next one if there is one.       *)
Serve(rest) ==
  /\ page' = Slice(rest)
  /\ shown' = shown \cup Elements(page')
  /\ top' = IF top = 0 /\ page' # <<>> THEN CreatedAt[page'[1]] ELSE top
  /\ phase' = IF HasNextPage(rest) THEN "scroll" ELSE "end"
  /\ UNCHANGED due

ServeFrom(s) ==
  LET rest == StartingIn(s, Older(Item)) IN
  IF ListSuffices(s, rest) THEN Serve(rest)
  ELSE phase' = "database" /\ UNCHANGED <<page, shown, top, due>>

(* created_at__gt: whatever the list has, never the database.               *)
ServePull(s) ==
  /\ page' = WhileIn(s, Newer(Item))
  /\ shown' = shown \cup Elements(page')
  /\ phase' = "pulled"
  /\ UNCHANGED <<top, due>>

Answer(s) == IF phase \in {"scroll", "install"} THEN ServeFrom(s) ELSE ServePull(s)

(* A client comes.  What it must get is what is settled by now.             *)
Start ==
  /\ phase = "out"
  /\ phase' = "scroll"
  /\ due' = Settled
  /\ UNCHANGED <<rows, writer, unpushed, overtaken, cache, page, shown, top>>

(* load_objects with the key hot; or with Redis down.                       *)
Hit ==
  /\ phase \in {"scroll", "pull"} /\ list # <<>>
  /\ Answer(list)
  /\ UNCHANGED <<rows, writer, unpushed, overtaken, cache>>

LoadFails ==
  /\ Faults
  /\ phase \in {"scroll", "install", "pull", "install_pull"}
  /\ \E s \in NewestRows(rows, Limit) : Answer(s)
  /\ IF phase \in {"install", "install_pull"}
     THEN snapshot' = <<>> /\ unpushed' = {}
     ELSE UNCHANGED <<snapshot, unpushed>>
  /\ UNCHANGED <<rows, writer, overtaken, list, anew, loading>>

Snapshot ==
  /\ phase \in {"scroll", "pull"} /\ list = <<>> /\ ~ loading
  /\ snapshot' \in NewestRows(rows, Limit)
  /\ phase' = IF phase = "scroll" THEN "install" ELSE "install_pull"
  /\ UNCHANGED <<rows, writer, unpushed, overtaken, list, anew, loading, page, shown, top, due>>

Install ==
  /\ phase \in {"install", "install_pull"}
  /\ list' = snapshot
  /\ Answer(snapshot)
  /\ snapshot' = <<>>
  /\ UNCHANGED <<rows, writer, unpushed, overtaken, anew, loading>>

(* paginate_queryset: PageSize + 1 rows of the database.                    *)
PageFromDatabase ==
  /\ phase = "database"
  /\ \E rest \in NewestRows(Older(rows), PageSize + 1) : Serve(rest)
  /\ UNCHANGED <<rows, writer, unpushed, overtaken, cache>>

(* The client asks for what is newer than its first row.                    *)
Pull ==
  /\ phase = "end" /\ shown # {}
  /\ phase' = "pull"
  /\ due' = Newer(Settled)
  /\ UNCHANGED <<rows, writer, unpushed, overtaken, cache, page, shown, top>>

-----------------------------------------------------------------------------
(* Everybody else.                                                          *)
Insert(x) ==
  /\ writer[x] = "insert"
  /\ writer' = [writer EXCEPT ![x] = "push"]
  /\ rows' = rows \cup {x}
  /\ UNCHANGED <<unpushed, overtaken, cache, client>>

Pushing(x) == writer[x] \in {"push", "late"}

Mutant_RPush(x) ==
  /\ Pushing(x) /\ list # <<>>
  /\ writer' = [writer EXCEPT ![x] = "done"]
  /\ list' = Keep(Append(list, x), Limit)
  /\ UNCHANGED <<rows, unpushed, overtaken, anew, loading, snapshot, client>>

Push(x) ==
  /\ Pushing(x) /\ list # <<>>
  /\ writer' = [writer EXCEPT ![x] = "done"]
  /\ list' = Keep(<<x>> \o list, Limit)
  /\ overtaken' = overtaken \cup
       {y \in Elements(list) \cup Settled : CreatedAt[y] > CreatedAt[x]}
  /\ UNCHANGED <<rows, unpushed, anew, loading, snapshot, client>>

(* The key has expired between EXISTS and LPUSH, which makes one of a row   *)
(* and without an expiry.                                                   *)
PushAnew(x) ==
  /\ writer[x] = "late" /\ list = <<>> /\ ~ Loading
  /\ writer' = [writer EXCEPT ![x] = "done"]
  /\ list' = <<x>> /\ anew' = TRUE
  /\ unpushed' = {y \in rows : writer[y] = "done"}
  /\ overtaken' = overtaken \cup unpushed'
  /\ UNCHANGED <<rows, loading, snapshot, client>>

(* The key is cold, or Redis fails: the row is not pushed.                  *)
PushSkipped(x) ==
  /\ Pushing(x) /\ (list = <<>> \/ Faults)
  /\ writer' = [writer EXCEPT ![x] = "done"]
  /\ unpushed' = IF (list # <<>> \/ Loading) /\ x \notin Elements(list) \cup Elements(snapshot)
                 THEN unpushed \cup {x}
                 ELSE unpushed
  /\ UNCHANGED <<rows, overtaken, cache, client>>

OtherSnapshot ==
  /\ list = <<>> /\ ~ Loading
  /\ snapshot' \in NewestRows(rows, Limit)
  /\ loading' = TRUE
  /\ UNCHANGED <<rows, writer, unpushed, overtaken, list, anew, client>>

OtherInstall ==
  /\ loading
  /\ list' = snapshot
  /\ snapshot' = <<>>
  /\ loading' = FALSE
  /\ UNCHANGED <<rows, writer, unpushed, overtaken, anew, client>>

OtherLoadFails ==
  /\ Faults
  /\ loading
  /\ snapshot' = <<>> /\ unpushed' = {}
  /\ loading' = FALSE
  /\ UNCHANGED <<rows, writer, overtaken, list, anew, client>>

(* With the key goes what it lacked; and its order, if nobody scrolls yet.  *)
Expire ==
  /\ list # <<>> /\ ~ anew
  /\ list' = <<>>
  /\ writer' = [x \in Item |-> IF writer[x] = "push" THEN "late" ELSE writer[x]]
  /\ unpushed' = {}
  /\ overtaken' = IF phase = "out" THEN {} ELSE overtaken
  /\ UNCHANGED <<rows, anew, loading, snapshot, client>>

-----------------------------------------------------------------------------
ClientStep == Hit \/ Snapshot \/ Install \/ PageFromDatabase

Next ==
  \/ Start \/ ClientStep \/ LoadFails \/ Pull
  \/ \E x \in Item : Insert(x) \/ Push(x) \/ PushAnew(x) \/ PushSkipped(x)
  \/ OtherSnapshot \/ OtherInstall \/ OtherLoadFails \/ Expire

Spec == Init /\ [][Next]_vars

(* Web workers run each request, and a client that scrolls goes on.  It may *)
(* wait for the lock while another reader loads, but polls it every 0.1 s,  *)
(* and the list that it waits for lasts for REDIS_KEY_EXPIRE_TIME, a week:  *)
(* it does not miss it again and again.                                     *)
FairSpec == Spec /\ SF_vars(ClientStep) /\ WF_vars(OtherInstall)

-----------------------------------------------------------------------------
(* Types; a page of a scroll has at most PageSize rows.                     *)
TypeOK ==
  /\ rows \in SUBSET Item /\ shown \in SUBSET Item /\ due \in SUBSET Item
  /\ list \in Seq(Item) /\ snapshot \in Seq(Item) /\ page \in Seq(Item)
  /\ writer \in [Item -> {"insert", "push", "late", "done"}]
  /\ anew \in BOOLEAN /\ loading \in BOOLEAN
  /\ phase \in {"out", "scroll", "install", "database", "end",
                "pull", "install_pull", "pulled"}
  /\ phase # "pulled" => Len(page) <= PageSize
  /\ top \in Nat
  /\ unpushed \in SUBSET Item /\ overtaken \in SUBSET Item

(* Rows whose created_at no other row has.                                  *)
Untied(S) == {x \in S : \A y \in Item : CreatedAt[x] = CreatedAt[y] => x = y}

(* A client that has scrolled to the end has got every row that was settled *)
(* when it began, wherever the rows came from, and although the list grew,  *)
(* was trimmed, expired or was rebuilt between its requests.  It can miss   *)
(* - a row that is not settled: its push is still to come, or was skipped   *)
(*   or lost while a list without the row was there or being loaded; such a *)
(*   list, if short, passes for everything there is (paginations.py:94);    *)
(* - a row that an older one was pushed after: that one stands before it in *)
(*   the list, or in the list without it, and as the cursor hides it;       *)
(* - a row older than a list that a push has made anew, after an expiry     *)
(*   between EXISTS and LPUSH: that list, too, passes for everything;       *)
(* - a row that shares its created_at with another, at the end of a page.   *)
NothingSkipped == phase = "end" => Untied(due) \subseteq shown \cup overtaken

(* As long as rows are pushed in order, a pull gets every newer row that was*)
(* settled before it, unless the list is full of rows newer than the        *)
(* client's first one, some of them perhaps cached twice.                   *)
NothingMissedByPull ==
  phase = "pulled" /\ overtaken = {} => due \subseteq shown \/ Len(page) = Limit

(* As long as rows are pushed in order, no scrolled page shows a row of an  *)
(* earlier page: not over a trim, a rebuild, the switch from the list to the*)
(* database or back.                                                        *)
NoRepeat ==
  [][page' # page /\ phase' \in {"scroll", "end"} /\ overtaken = {}
       => Elements(page') \cap shown = {}]_vars

(* As long as rows are pushed in order, scrolling comes to an end although  *)
(* new rows keep arriving.                                                  *)
ScrollEnds == [](overtaken = {}) => (phase = "scroll" ~> phase = "end")
=============================================================================
