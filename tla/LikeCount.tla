----------------------------- MODULE LikeCount -----------------------------
(***************************************************************************)
(* The likes of one tweet: Like rows, tweets.likes_count, and its Redis    *)
(* counter (likes/api, likes/listeners.py, utils/redis_helper.py).         *)
(*                                                                         *)
(* get_or_create inserts the row, updates the count and changes Redis in   *)
(* one transaction; QuerySet.delete collects the row first and then, in    *)
(* one transaction, updates the count, changes Redis and deletes the row   *)
(* it collected by its primary key.  A row is locked by the transaction    *)
(* that wrote it until that ends: a like takes its Like row and then the   *)
(* tweet's row, a cancel the tweet's row and then a Like row.              *)
(***************************************************************************)
EXTENDS RedisCounter, FiniteSets

CONSTANTS User,
          Liker, Canceller,  \* POST requests to like and to cancel
          Viewer,            \* requests that read the count
          UserOf,            \* who sent each POST request
          Faults             \* may Redis fail and processes crash?

ASSUME RequestAssumption ==
  /\ UserOf \in [Liker \cup Canceller -> User]
  /\ Liker \cap Canceller = {} /\ Viewer \cap (Liker \cup Canceller) = {}
  /\ User \cap Liker = {}
  /\ IsFiniteSet(User) /\ IsFiniteSet(Liker) /\ IsFiniteSet(Canceller)
  /\ Faults \in BOOLEAN

VARIABLES likes,  \* the committed Like rows
          count,  \* the committed tweets.likes_count
          row,    \* the request whose transaction holds the tweet's row: {} or {p}
          pc,     \* what each request does next, or how it ended
          collected, \* the Like rows that each cancel selected
          read,   \* the count each viewer read from the database
          suspect \* history: may a request have left Redis behind?

vars == <<hot, value, ttl, likes, count, row, pc, collected, read, suspect>>

Writer == Liker \cup Canceller
Ended == {"existing", "created", "nothing", "deleted", "vain", "failed",
          "shown", "filled"}
InTransaction == {"exists", "add", "set", "delete", "commit"}

(* A Like row is named by the request that inserted it, one that was there  *)
(* at the start by its user.                                                *)
LikeRow == User \cup Liker

OwnerOf(id) == IF id \in Liker THEN UserOf[id] ELSE id

RowsOf(user) == {id \in likes : OwnerOf(id) = user}

Delta(p) == IF p \in Liker THEN 1 ELSE -1

Init ==
  /\ likes \in SUBSET User
  /\ count = Cardinality(likes)
  /\ RedisInit(count)
  /\ row = {}
  /\ pc = [p \in Writer \cup Viewer |->
             IF p \in Liker THEN "get" ELSE IF p \in Canceller THEN "select" ELSE "view"]
  /\ collected = [p \in Canceller |-> {}]
  /\ read = [v \in Viewer |-> 0]
  /\ suspect = FALSE

Step(p, here, next) == pc[p] = here /\ pc' = [pc EXCEPT ![p] = next]

-----------------------------------------------------------------------------
(* get_or_create: the first get, outside the transaction.                   *)
Get(p) ==
  /\ p \in Liker
  /\ Step(p, "get", IF RowsOf(UserOf[p]) = {} THEN "insert" ELSE "existing")
  /\ UNCHANGED <<redis, likes, count, row, collected, read, suspect>>

(* The Like rows that a transaction has inserted or deleted and so locked.  *)
LockedBy(q) ==
  IF q \in Liker
  THEN {id \in {q} : pc[q] \in InTransaction \cup {"update"}}
  ELSE {id \in collected[q] \cap likes : pc[q] = "commit"}

LockedByOthers(p) == UNION {LockedBy(q) : q \in Writer \ {p}}

Mutant_InsertTwice(p) ==
  /\ p \in Liker
  /\ Step(p, "insert", "update")
  /\ UNCHANGED <<redis, likes, count, row, collected, read, suspect>>

(* The unique index makes the INSERT wait for another transaction on a row  *)
(* of the same user; if there is one then, IntegrityError turns into a get. *)
Insert(p) ==
  /\ p \in Liker
  /\ \A id \in LockedByOthers(p) : OwnerOf(id) # UserOf[p]
  /\ Step(p, "insert", IF RowsOf(UserOf[p]) = {} THEN "update" ELSE "existing")
  /\ UNCHANGED <<redis, likes, count, row, collected, read, suspect>>

(* QuerySet.delete collects the rows before it opens its transaction.       *)
Select(p) ==
  /\ p \in Canceller
  /\ Step(p, "select", IF RowsOf(UserOf[p]) = {} THEN "nothing" ELSE "update")
  /\ collected' = [collected EXCEPT ![p] = RowsOf(UserOf[p])]
  /\ UNCHANGED <<redis, likes, count, row, read, suspect>>

-----------------------------------------------------------------------------
(* The listeners, inside the transaction: UPDATE with F(), then Redis.      *)
Listened(p) == IF p \in Liker THEN "commit" ELSE "delete"

Update(p) ==
  /\ row = {}
  /\ row' = {p}
  /\ Step(p, "update", "exists")
  /\ UNCHANGED <<redis, likes, count, collected, read, suspect>>

Exists(p) ==
  /\ p \in Writer
  /\ Step(p, "exists", IF hot THEN "add" ELSE "set")
  /\ UNCHANGED <<redis, likes, count, row, collected, read, suspect>>

AddKey(p) ==
  /\ Step(p, "add", Listened(p))
  /\ Add(Delta(p))
  /\ UNCHANGED <<likes, count, row, collected, read, suspect>>

(* refresh_from_db sees the transaction's own UPDATE.                       *)
Mutant_SetStale(p) ==
  /\ p \in Writer
  /\ Step(p, "set", Listened(p))
  /\ Set(count)
  /\ UNCHANGED <<likes, count, row, collected, read, suspect>>

SetKey(p) ==
  /\ p \in Writer
  /\ Step(p, "set", Listened(p))
  /\ Set(count + Delta(p))
  /\ UNCHANGED <<likes, count, row, collected, read, suspect>>

(* A RedisError leaves the counter key alone and the transaction goes on.   *)
RedisFails(p) ==
  /\ Faults
  /\ p \in Writer
  /\ \E here \in {"exists", "add", "set"} : Step(p, here, Listened(p))
  /\ suspect' = TRUE
  /\ UNCHANGED <<redis, likes, count, row, collected, read>>

(* DELETE by primary key: it waits for a transaction on a collected row     *)
(* and finds what is left of them.                                          *)
Mutant_DeleteByUser(p) ==
  /\ p \in Canceller
  /\ \A id \in LockedByOthers(p) : OwnerOf(id) # UserOf[p]
  /\ Step(p, "delete", "commit")
  /\ UNCHANGED <<redis, likes, count, row, collected, read, suspect>>

Delete(p) ==
  /\ p \in Canceller
  /\ collected[p] \cap LockedByOthers(p) = {}
  /\ Step(p, "delete", "commit")
  /\ UNCHANGED <<redis, likes, count, row, collected, read, suspect>>

(* COMMIT; a cancel was in vain if the rows it collected were gone already. *)
CommitLike(p) ==
  /\ p \in Liker
  /\ Step(p, "commit", "notify")
  /\ likes' = likes \cup {p}

CommitCancel(p) ==
  /\ p \in Canceller
  /\ Step(p, "commit", IF collected[p] \cap likes = {} THEN "vain" ELSE "deleted")
  /\ likes' = likes \ collected[p]

Commit(p) ==
  /\ CommitLike(p) \/ CommitCancel(p)
  /\ count' = count + Delta(p)
  /\ row' = {}
  /\ UNCHANGED <<redis, collected, read, suspect>>

(* A crash rolls the transaction back, but not what it did to Redis.        *)
Crash(p) ==
  /\ Faults
  /\ p \in Writer /\ pc[p] \notin Ended
  /\ pc' = [pc EXCEPT ![p] = "failed"]
  /\ row' = row \ {p}
  /\ suspect' = TRUE
  /\ UNCHANGED <<redis, likes, count, collected, read>>

(* Only the request that created the like notifies the tweet's author.      *)
Notify(p) ==
  /\ Step(p, "notify", "created")
  /\ UNCHANGED <<redis, likes, count, row, collected, read, suspect>>

-----------------------------------------------------------------------------
(* get_count                                                                *)
View(v) ==
  /\ Step(v, "view", IF hot THEN "shown" ELSE "refresh")
  /\ UNCHANGED <<redis, likes, count, row, collected, read, suspect>>

Refresh(v) ==
  /\ Step(v, "refresh", "fill")
  /\ read' = [read EXCEPT ![v] = count]
  /\ UNCHANGED <<redis, likes, count, row, collected, suspect>>

Fill(v) ==
  /\ Step(v, "fill", "filled")
  /\ Set(read[v])
  /\ suspect' = TRUE
  /\ UNCHANGED <<likes, count, row, collected, read>>

ViewFails(v) ==
  /\ Faults
  /\ \E here \in {"view", "refresh", "fill"} : Step(v, here, "shown")
  /\ UNCHANGED <<redis, likes, count, row, collected, read, suspect>>

Expire == Lapse /\ UNCHANGED <<likes, count, row, pc, collected, read, suspect>>

-----------------------------------------------------------------------------
WriterStep(p) ==
  \/ Get(p) \/ Insert(p) \/ Select(p) \/ Update(p) \/ Exists(p)
  \/ AddKey(p) \/ SetKey(p) \/ Delete(p) \/ Commit(p) \/ Notify(p)

ViewerStep(v) == View(v) \/ Refresh(v) \/ Fill(v)

Next ==
  \/ \E p \in Writer : WriterStep(p) \/ RedisFails(p) \/ Crash(p)
  \/ \E v \in Viewer : ViewerStep(v) \/ ViewFails(v)
  \/ Expire

Spec == Init /\ [][Next]_vars

(* Web workers run the requests they have taken; MySQL grants a row lock    *)
(* that is free to one of the transactions that wait for it.                *)
FairSpec == Spec /\ \A p \in Writer : WF_vars(WriterStep(p))

-----------------------------------------------------------------------------
(* Types.                                                                   *)
TypeOK ==
  /\ RedisTypeOK
  /\ likes \in SUBSET LikeRow
  /\ count \in Int
  /\ row \in SUBSET Writer
  /\ pc \in [Writer \cup Viewer ->
                {"get", "insert", "select", "update", "notify", "view", "refresh", "fill"}
                  \cup InTransaction \cup Ended]
  /\ collected \in [Canceller -> SUBSET LikeRow]
  /\ read \in [Viewer -> Int]
  /\ suspect \in BOOLEAN

(* The denormalised tweets.likes_count differs from the number of Like rows *)
(* by the cancels that ended in vain, never by more or less, whatever likes, *)
(* cancels, crashes and Redis failures interleave (likes/models.py:51-54):  *)
(* a cancel decrements for the row it collected even if another cancel has  *)
(* deleted it since.                                                        *)
Vain == {c \in Canceller : pc[c] = "vain"}

CountLagsByVain == count + Cardinality(Vain) = Cardinality(likes)

(* When no transaction is open, a cached count that differs from the        *)
(* database and will expire was written by a viewer from a cold read, or a  *)
(* writer failed: likes and cancels alone never make the two drift apart.   *)
DriftIsExplained == hot /\ ttl /\ row = {} /\ value # count => suspect

(* likes/api/views.py:37 "duplicate likes are silent, do not notify twice": *)
(* of several requests of one user at most one creates the like and         *)
(* notifies, unless a cancel deleted the row that one of them had made.     *)
NotifiedOnce ==
  \A p, q \in Liker :
    /\ p # q /\ UserOf[p] = UserOf[q]
    /\ pc[p] \in {"notify", "created"} /\ pc[q] \in {"notify", "created"}
    => \E c \in Canceller : pc[c] = "deleted" /\ collected[c] \cap {p, q} # {}

(* Every like and cancel request gets its answer.  Likes lock their Like    *)
(* row and then the tweet's, cancels the tweet's row and then a Like row;   *)
(* that closes no cycle because a cancel deletes only rows that it saw      *)
(* committed, never the one of a like that waits for the tweet's row.       *)
WritersReturn == <>(\A p \in Writer : pc[p] \in Ended)
=============================================================================
