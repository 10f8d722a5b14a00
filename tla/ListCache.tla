----------------------------- MODULE ListCache -----------------------------
(***************************************************************************)
(* The Redis list cache of one user's tweets or newsfeeds                  *)
(* (utils/redis_helper.py, RedisHelper.load_objects and push_objects).     *)
(*                                                                         *)
(* Every object of the list has one writer: the process that inserts its   *)
(* row and then pushes it to the cache.  Readers call load_objects once.   *)
(* Each Redis command and each database access is a step of its own, so    *)
(* that the steps of writers, readers and key expiry interleave as they do *)
(* in production.  A Redis list key exists exactly when the list is not    *)
(* empty.                                                                  *)
(***************************************************************************)
EXTENDS RowOrder

CONSTANTS Item,         \* the objects of this list; each has its own writer
          Reader,       \* the processes that call load_objects
          Limit,        \* REDIS_LIST_LENGTH_LIMIT
          Faults        \* may Redis commands fail and processes crash?

ASSUME LimitAssumption == Limit \in Nat \ {0}
ASSUME ItemAssumption == IsFiniteSet(Item)
ASSUME CreatedAtAssumption == CreatedAt \in [Item -> Nat]
ASSUME FaultsAssumption == Faults \in BOOLEAN

VARIABLES rows,  \* the objects whose row is committed in the database
          list,  \* the Redis list, newest push first; <<>> is "no such key"
          ttl,   \* does the key carry an expiry?
          lock,  \* the holder of the key's lock: {} or {r}
          wpc,   \* what each object's writer does next, or how it ended
          rpc,   \* what each reader does next, or how it ended
          got,   \* the objects each reader holds: its snapshot or its answer
          expired,  \* history: has the list key ever expired?
          overrun   \* history: has a reader's lock timed out while it held it?

vars == <<rows, list, ttl, lock, wpc, rpc, got, expired, overrun>>

WriterState ==
  {"insert", "exists", "lpush", "ltrim",     \* next step
   "done", "cold", "lost", "untrimmed"}      \* pushed, skipped, failed
ReaderState ==
  {"exists", "lrange", "lock", "recheck", "relrange",
   "snapshot", "install", "unlock",          \* next step
   "hit", "built", "fallback", "crashed"}    \* how load_objects ended
Critical == {"recheck", "relrange", "snapshot", "install", "unlock"}
Returned == {"hit", "built", "fallback", "crashed"}

-----------------------------------------------------------------------------
(* What lazy_load_objects(limit) may return when S is committed.            *)
LazyLoad(S) == NewestRows(S, Limit)

(* The key is cold, or hot with a rebuilt list; the other writers are still *)
(* to come.                                                                 *)
Init ==
  /\ rows \in SUBSET Item
  /\ list \in {<<>>} \cup LazyLoad(rows)
  /\ ttl = (list # <<>>)
  /\ lock = {}
  /\ wpc = [x \in Item |-> IF x \in rows THEN "done" ELSE "insert"]
  /\ rpc = [r \in Reader |-> "exists"]
  /\ got = [r \in Reader |-> <<>>]
  /\ expired = FALSE
  /\ overrun = FALSE

-----------------------------------------------------------------------------
(* Writers: the autocommitted INSERT, then push_objects from post_save or   *)
(* from batch_create.                                                       *)

Goto(x, here, next) == wpc[x] = here /\ wpc' = [wpc EXCEPT ![x] = next]
Insert(x) ==
  /\ Goto(x, "insert", "exists")
  /\ rows' = rows \cup {x}
  /\ UNCHANGED <<list, ttl, lock, rpc, got, expired, overrun>>

PushExists(x) ==
  /\ Goto(x, "exists", IF list # <<>> THEN "lpush" ELSE "cold")
  /\ UNCHANGED <<rows, list, ttl, lock, rpc, got, expired, overrun>>

(* LPUSH on a key that has expired since EXISTS makes a new key, without    *)
(* an expiry.                                                               *)
LPush(x) ==
  /\ Goto(x, "lpush", "ltrim")
  /\ list' = <<x>> \o list
  /\ UNCHANGED <<rows, ttl, lock, rpc, got, expired, overrun>>

Mutant_LTrimOffByOne(x) ==
  /\ Goto(x, "ltrim", "done")
  /\ list' = Keep(list, Limit + 1)
  /\ UNCHANGED <<rows, ttl, lock, rpc, got, expired, overrun>>

LTrim(x) ==
  /\ Goto(x, "ltrim", "done")
  /\ list' = Keep(list, Limit)
  /\ UNCHANGED <<rows, ttl, lock, rpc, got, expired, overrun>>

(* A RedisError is swallowed, and a crash ends the writer at the same       *)
(* points: what was not done yet is never done.                             *)
PushFails(x) ==
  /\ Faults
  /\ \/ Goto(x, "exists", "lost")
     \/ Goto(x, "lpush", "lost")
     \/ Goto(x, "ltrim", "untrimmed")
  /\ UNCHANGED <<rows, list, ttl, lock, rpc, got, expired, overrun>>

-----------------------------------------------------------------------------
(* Readers: load_objects.                                                   *)

Step(r, here, next) == rpc[r] = here /\ rpc' = [rpc EXCEPT ![r] = next]

Answer(r, s) == got' = [got EXCEPT ![r] = s]

Exists(r) ==
  /\ Step(r, "exists", IF list # <<>> THEN "lrange" ELSE "lock")
  /\ UNCHANGED <<rows, list, ttl, lock, wpc, got, expired, overrun>>

LRange(r) ==
  /\ Step(r, "lrange", "hit")
  /\ Answer(r, list)
  /\ UNCHANGED <<rows, list, ttl, lock, wpc, expired, overrun>>

Mutant_AcquireAnyway(r) ==
  /\ Step(r, "lock", "recheck")
  /\ lock' = {r}
  /\ UNCHANGED <<rows, list, ttl, wpc, got, expired, overrun>>

Acquire(r) ==
  /\ lock = {}
  /\ Step(r, "lock", "recheck")
  /\ lock' = {r}
  /\ UNCHANGED <<rows, list, ttl, wpc, got, expired, overrun>>

Mutant_NoDoubleCheck(r) ==
  /\ Step(r, "recheck", "snapshot")
  /\ UNCHANGED <<rows, list, ttl, lock, wpc, got, expired, overrun>>

Mutant_AlwaysHot(r) ==
  /\ Step(r, "recheck", "relrange")
  /\ UNCHANGED <<rows, list, ttl, lock, wpc, got, expired, overrun>>

Recheck(r) ==
  /\ Step(r, "recheck", IF list # <<>> THEN "relrange" ELSE "snapshot")
  /\ UNCHANGED <<rows, list, ttl, lock, wpc, got, expired, overrun>>

(* A reader that still owns the lock releases it; one whose lock has timed  *)
(* out gets LockNotOwnedError, a RedisError, and answers from the database. *)
Release(r, next, s) ==
  /\ lock' = lock \ {r}
  /\ IF r \in lock
     THEN rpc' = [rpc EXCEPT ![r] = next] /\ Answer(r, s)
     ELSE /\ rpc' = [rpc EXCEPT ![r] = "fallback"]
          /\ \E t \in LazyLoad(rows) : Answer(r, t)

ReLRange(r) ==
  /\ rpc[r] = "relrange"
  /\ Release(r, "hit", list)
  /\ UNCHANGED <<rows, list, ttl, wpc, expired, overrun>>

Snapshot(r) ==
  /\ Step(r, "snapshot", "install")
  /\ \E s \in LazyLoad(rows) : Answer(r, s)
  /\ UNCHANGED <<rows, list, ttl, lock, wpc, expired, overrun>>

(* One MULTI/EXEC pipeline: DEL, RPUSH unless empty, EXPIRE.                *)
Mutant_InstallAppends(r) ==
  /\ Step(r, "install", "unlock")
  /\ list' = list \o got[r]
  /\ ttl' = (list' # <<>>)
  /\ UNCHANGED <<rows, lock, wpc, got, expired, overrun>>

Install(r) ==
  /\ Step(r, "install", "unlock")
  /\ list' = got[r]
  /\ ttl' = (got[r] # <<>>)
  /\ UNCHANGED <<rows, lock, wpc, got, expired, overrun>>

Unlock(r) ==
  /\ rpc[r] = "unlock"
  /\ Release(r, "built", got[r])
  /\ UNCHANGED <<rows, list, ttl, wpc, expired, overrun>>

(* A Redis command of load_objects fails: the answer comes from the         *)
(* database, and the lock is released only if that command gets through.    *)
LoadFails(r) ==
  /\ Faults
  /\ rpc[r] \notin Returned
  /\ rpc' = [rpc EXCEPT ![r] = "fallback"]
  /\ \E s \in LazyLoad(rows) : Answer(r, s)
  /\ lock' \in {lock, lock \ {r}}
  /\ UNCHANGED <<rows, list, ttl, wpc, expired, overrun>>

Crash(r) ==
  /\ Faults
  /\ rpc[r] \notin Returned
  /\ rpc' = [rpc EXCEPT ![r] = "crashed"]
  /\ UNCHANGED <<rows, list, ttl, lock, wpc, got, expired, overrun>>

-----------------------------------------------------------------------------
(* Redis: the expiry of the list key and of the lock key.                   *)
Expire ==
  /\ ttl
  /\ list' = <<>>
  /\ ttl' = FALSE
  /\ expired' = TRUE
  /\ UNCHANGED <<rows, lock, wpc, rpc, got, overrun>>

Mutant_LockWithoutTimeout == FALSE /\ UNCHANGED vars

(* The lock of a reader that ended without releasing it times out, and so  *)
(* does that of a reader whose rebuild takes longer than ONE_MINUTE.        *)
LockTimeout ==
  /\ lock # {}
  /\ lock' = {}
  /\ overrun' = (overrun \/ \E r \in lock : rpc[r] \in Critical)
  /\ UNCHANGED <<rows, list, ttl, wpc, rpc, got, expired>>

-----------------------------------------------------------------------------
WriterStep(x) == Insert(x) \/ PushExists(x) \/ LPush(x) \/ LTrim(x)

ReaderStep(r) ==
  \/ Exists(r) \/ LRange(r) \/ Acquire(r) \/ Recheck(r) \/ ReLRange(r)
  \/ Snapshot(r) \/ Install(r) \/ Unlock(r)

Next ==
  \/ \E x \in Item : WriterStep(x) \/ PushFails(x)
  \/ \E r \in Reader : ReaderStep(r) \/ LoadFails(r) \/ Crash(r)
  \/ Expire
  \/ LockTimeout

Spec == Init /\ [][Next]_vars

(* Each process runs on: a waiting reader polls the lock every 0.1 s, and   *)
(* Redis drops a lock key once its time is over.  Nothing makes a writer    *)
(* run, a key expire, or a command fail.                                    *)
FairSpec ==
  Spec /\ WF_vars(LockTimeout) /\ \A r \in Reader : WF_vars(ReaderStep(r))

-----------------------------------------------------------------------------
(* Types; a key that does not exist carries no expiry, and the lock has at  *)
(* most one holder.                                                         *)
TypeOK ==
  /\ rows \in SUBSET Item
  /\ list \in Seq(Item)
  /\ ttl \in BOOLEAN
  /\ ttl => list # <<>>
  /\ lock \in SUBSET Reader
  /\ wpc \in [Item -> WriterState]
  /\ rpc \in [Reader -> ReaderState]
  /\ got \in [Reader -> Seq(Item)]
  /\ expired \in BOOLEAN /\ overrun \in BOOLEAN

(* A list that single pushes put in front of (part of) one snapshot.        *)
SplitAt(s, k) ==
  /\ \A i, j \in 1..k : s[i] = s[j] => i = j
  /\ \A i, j \in (k+1)..Len(s) :
       /\ s[i] = s[j] => i = j
       /\ i < j => CreatedAt[s[i]] >= CreatedAt[s[j]]

PushesOnSnapshot(s) == \E k \in 0..Len(s) : SplitAt(s, k)

(* Two snapshots are never spliced together: the cached list, and whatever  *)
(* a reader is given, is pushes of distinct objects in front of at most one *)
(* ordered snapshot, whatever expires, fails or times out (the bug of       *)
(* docs/database/design/consistency.txt section 5, #1).                     *)
NeverSpliced ==
  /\ PushesOnSnapshot(list)
  /\ \A r \in Reader : PushesOnSnapshot(got[r])

(* Nothing is cached or served before its row is committed: neither the     *)
(* list nor an answer ever names an object the database does not have.      *)
OnlyCommitted ==
  /\ Elements(list) \subseteq rows
  /\ \A r \in Reader : Elements(got[r]) \subseteq rows

(* The list is over its limit by at most one entry per writer that pushed   *)
(* and did not, or not yet, trim: the overshoot never accumulates otherwise.*)
LengthBounded ==
  Len(list) <= Limit + Cardinality({x \in Item : wpc[x] \in {"ltrim", "untrimmed"}})

(* Until a rebuild outlives its lock, at most one reader at a time is       *)
(* between taking the lock and releasing it: rebuilds do not stampede.      *)
RebuildSerialized ==
  ~overrun => \A r, q \in Reader : rpc[r] \in Critical /\ rpc[q] \in Critical => r = q

Steady == ~expired /\ ~overrun

(* Until the key expires or a rebuild outlives its lock, a committed object *)
(* that a hot list lacks has a pending, skipped or failed push, or was      *)
(* pushed out by LTRIM.                                                     *)
MissingIsExplained ==
  Steady /\ list # <<>> =>
    \A x \in rows \ Elements(list) :
      wpc[x] \in {"exists", "lpush", "cold", "lost"} \/ Len(list) >= Limit

(* Until the key expires or a rebuild outlives its lock, a cache hit answers*)
(* with at least one object: the list that EXISTS saw is there for LRANGE.  *)
HitIsNotEmpty == Steady => \A r \in Reader : rpc[r] = "hit" => got[r] # <<>>

(* Until the key expires or a rebuild outlives its lock, a rebuild only     *)
(* ever fills an empty key: it never replaces a list that pushes extended.  *)
InstallsOnCold == [][Steady /\ (\E r \in Reader : Install(r)) => list = <<>>]_vars

(* A reader that waits for the lock gets an answer, even if the holder dies *)
(* without releasing it.                                                    *)
WaitersReturn == \A r \in Reader : rpc[r] = "lock" ~> rpc[r] \in Returned

=============================================================================
