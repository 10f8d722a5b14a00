---------------------------- MODULE CommentCount ----------------------------
(***************************************************************************)
(* The comments of one tweet: Comment rows, tweets.comments_count, and its *)
(* Redis counter (comments/api, comments/listeners.py).                    *)
(*                                                                         *)
(* Unlike a like, a comment is created in autocommit mode: INSERT, UPDATE  *)
(* of the count and the Redis change are three separate steps.  delete()   *)
(* updates the count, changes Redis and deletes the row in one transaction.*)
(* save() of an edited comment inserts it again if its row has gone.       *)
(***************************************************************************)
EXTENDS RedisCounter, FiniteSets

CONSTANTS Comment,
          Creator, Editor, Destroyer,  \* POST, PUT and DELETE requests
          CommentOf,                   \* the comment of each of them
          Viewer,                      \* requests that read the count
          Faults                       \* may Redis fail and processes crash?

Writer == Creator \cup Editor \cup Destroyer

ASSUME RequestAssumption ==
  /\ CommentOf \in [Writer -> Comment]
  /\ Creator \cap Editor = {} /\ Creator \cap Destroyer = {} /\ Editor \cap Destroyer = {}
  /\ Viewer \cap Writer = {}
  /\ \A p, q \in Creator : CommentOf[p] = CommentOf[q] => p = q
  /\ IsFiniteSet(Comment) /\ IsFiniteSet(Writer) /\ IsFiniteSet(Viewer)
  /\ Faults \in BOOLEAN

VARIABLES comments,  \* the committed Comment rows
          count,     \* the committed tweets.comments_count
          row,       \* the request whose transaction holds the tweet's row
          pc,        \* what each request does next, or how it ended
          read,      \* the count each request read for a SET
          disturbed, \* history: has the key expired, Redis failed or a process crashed?
          raced      \* history: the requests that were open while another was

vars == <<hot, value, ttl, comments, count, row, pc, read, disturbed, raced>>

Ended == {"done", "vain", "notFound", "uncounted", "failed", "shown"}

Delta(p) == IF p \in Destroyer THEN -1 ELSE 1

Init ==
  /\ comments \in SUBSET (Comment \ {CommentOf[p] : p \in Creator})
  /\ count = Cardinality(comments)
  /\ RedisInit(count)
  /\ row = {}
  /\ pc = [p \in Writer \cup Viewer |->
             IF p \in Creator THEN "insert" ELSE IF p \in Viewer THEN "view" ELSE "select"]
  /\ read = [p \in Writer \cup Viewer |-> 0]
  /\ disturbed = FALSE
  /\ raced = {}

Step(p, here, next) == pc[p] = here /\ pc' = [pc EXCEPT ![p] = next]

-----------------------------------------------------------------------------
(* The row of the comment.                                                  *)
Insert(p) ==
  /\ Step(p, "insert", "update")
  /\ comments' = comments \cup {CommentOf[p]}
  /\ UNCHANGED <<redis, count, row, read, disturbed>>

(* get_object of an edit or a delete; the object stays in memory.           *)
Select(p) ==
  /\ Step(p, "select", IF CommentOf[p] \notin comments THEN "notFound"
                       ELSE IF p \in Editor THEN "save" ELSE "update")
  /\ UNCHANGED <<redis, comments, count, row, read, disturbed>>

(* save() tries an UPDATE; when no row matches it INSERTs, with created set *)
(* to True.                                                                 *)
Mutant_SaveAlwaysCounts(p) ==
  /\ Step(p, "save", "update")
  /\ comments' = comments \cup {CommentOf[p]}
  /\ UNCHANGED <<redis, count, row, read, disturbed>>

Save(p) ==
  /\ Step(p, "save", IF CommentOf[p] \in comments THEN "done" ELSE "update")
  /\ comments' = comments \cup {CommentOf[p]}
  /\ UNCHANGED <<redis, count, row, read, disturbed>>

-----------------------------------------------------------------------------
(* The listeners.  A delete keeps the tweet's row, and its UPDATE to itself,*)
(* until it commits; the UPDATE of a create commits at once.                *)
Update(p) ==
  /\ row = {}
  /\ Step(p, "update", "exists")
  /\ IF p \in Destroyer THEN row' = {p} /\ UNCHANGED count
                        ELSE count' = count + 1 /\ UNCHANGED row
  /\ UNCHANGED <<redis, comments, read, disturbed>>

Exists(p) ==
  /\ Step(p, "exists", IF hot THEN "add" ELSE "refresh")
  /\ UNCHANGED <<redis, comments, count, row, read, disturbed>>

After(p) == IF p \in Destroyer THEN "delete" ELSE "done"

AddKey(p) ==
  /\ Step(p, "add", After(p))
  /\ Add(Delta(p))
  /\ UNCHANGED <<comments, count, row, read, disturbed>>

(* refresh_from_db: a delete sees its own UPDATE, the others what has been  *)
(* committed.                                                               *)
Refresh(p) ==
  /\ Step(p, "refresh", "set")
  /\ read' = [read EXCEPT ![p] = IF p \in Destroyer THEN count - 1 ELSE count]
  /\ UNCHANGED <<redis, comments, count, row, disturbed>>

Mutant_SetTwice(p) ==
  /\ Step(p, "set", IF p \in Viewer THEN "shown" ELSE After(p))
  /\ Set(read[p] + 1)
  /\ UNCHANGED <<comments, count, row, read, disturbed>>

SetKey(p) ==
  /\ Step(p, "set", IF p \in Viewer THEN "shown" ELSE After(p))
  /\ Set(read[p])
  /\ UNCHANGED <<comments, count, row, read, disturbed>>

(* A RedisError is swallowed and the request goes on.                       *)
RedisFails(p) ==
  /\ Faults
  /\ \E here \in {"exists", "add", "refresh", "set"} :
       Step(p, here, IF p \in Viewer THEN "shown" ELSE After(p))
  /\ disturbed' = TRUE
  /\ UNCHANGED <<redis, comments, count, row, read>>

(* DELETE and COMMIT; the DELETE may find no row, since another request has *)
(* deleted the comment after this one loaded it.                            *)
Delete(p) ==
  /\ Step(p, "delete", IF CommentOf[p] \in comments THEN "done" ELSE "vain")
  /\ comments' = comments \ {CommentOf[p]}
  /\ count' = count - 1
  /\ row' = {}
  /\ UNCHANGED <<redis, read, disturbed>>

(* A crash rolls a delete back; a comment whose count was still to come     *)
(* stays uncounted.                                                         *)
Crash(p) ==
  /\ Faults
  /\ p \in Writer /\ pc[p] \notin Ended
  /\ pc' = [pc EXCEPT ![p] =
              IF pc[p] = "update" /\ p \notin Destroyer THEN "uncounted" ELSE "failed"]
  /\ row' = row \ {p}
  /\ disturbed' = TRUE
  /\ UNCHANGED <<redis, comments, count, read>>

-----------------------------------------------------------------------------
(* get_count                                                                *)
View(v) ==
  /\ Step(v, "view", IF hot THEN "shown" ELSE "refresh")
  /\ UNCHANGED <<redis, comments, count, row, read, disturbed>>

Expire == Lapse /\ disturbed' = TRUE /\ UNCHANGED <<comments, count, row, pc, read>>

-----------------------------------------------------------------------------
WriterStep(p) ==
  \/ Insert(p) \/ Select(p) \/ Save(p) \/ Update(p) \/ Exists(p)
  \/ AddKey(p) \/ Refresh(p) \/ SetKey(p) \/ Delete(p)

(* Open requests: a writer after its UPDATE and a viewer after a cold GET,  *)
(* until they are done with Redis and have committed.                       *)
Open == {p \in Writer \cup Viewer : pc[p] \in {"exists", "add", "refresh", "set", "delete"}}

OpenTogether == {p \in Open : Open # {p}}

Next ==
  /\ \/ \E p \in Writer : WriterStep(p) \/ RedisFails(p) \/ Crash(p)
     \/ \E v \in Viewer : View(v) \/ Refresh(v) \/ SetKey(v) \/ RedisFails(v)
     \/ Expire
  /\ raced' = raced \cup OpenTogether'

Spec == Init /\ [][Next]_vars

-----------------------------------------------------------------------------
PlacesOf(p) ==
  IF p \in Viewer THEN {"view", "refresh", "set"}
  ELSE {"update", "exists", "add", "refresh", "set"}
         \cup (IF p \in Creator THEN {"insert"}
               ELSE IF p \in Editor THEN {"select", "save"} ELSE {"select", "delete"})

(* Types; each request is at a place of its own kind.                       *)
TypeOK ==
  /\ RedisTypeOK
  /\ comments \in SUBSET Comment
  /\ count \in Int
  /\ row \in SUBSET Destroyer
  /\ DOMAIN pc = Writer \cup Viewer
  /\ \A p \in Writer \cup Viewer : pc[p] \in PlacesOf(p) \cup Ended
  /\ read \in [Writer \cup Viewer -> Int]
  /\ disturbed \in BOOLEAN
  /\ raced \in SUBSET (Writer \cup Viewer)

(* tweets.comments_count lags behind the Comment rows by exactly the        *)
(* comments whose UPDATE is still to come or was lost in a crash and the    *)
(* deletes that found no row, whatever creates, edits and deletes           *)
(* interleave: F() updates lose nothing.                                    *)
Uncounted == {p \in Creator \cup Editor : pc[p] \in {"update", "uncounted"}}
DeletedTwice == {p \in Destroyer : pc[p] = "vain"}

CountLagsByUncounted ==
  count + Cardinality(Uncounted \cup DeletedTwice) = Cardinality(comments)

(* Until the key expires or something fails, the cached count is exact for  *)
(* as long as no two requests were open at once, and after that it errs by  *)
(* less than the number of requests that were: requests one after another   *)
(* leave no error behind (utils/redis_helper.py:93-101, EXISTS, refresh and *)
(* SET are three steps).                                                    *)
Idle == \A p \in Writer \cup Viewer : pc[p] \in Ended \cup {"insert", "select", "view"}

DriftBounded ==
  ~disturbed /\ Idle /\ hot /\ value # count =>
    value - count \in (1 - Cardinality(raced))..(Cardinality(raced) - 1)

(* comments/listeners.py:8 "updating a comment must not increase            *)
(* comments_count" (and comments/api/tests.py:200): an edit never reaches   *)
(* the increment.                                                           *)
EditsNeverCount == \A p \in Editor : pc[p] \notin {"update", "exists"}
=============================================================================
