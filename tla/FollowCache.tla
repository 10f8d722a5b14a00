---------------------------- MODULE FollowCache ----------------------------
(***************************************************************************)
(* Whom one user follows: the rows of Friendship, or of HBaseFollowing, and*)
(* the set of followed users that memcached keeps for has_followed, for the*)
(* following count and for rendering (friendships/services.py,             *)
(* friendships/api).                                                       *)
(*                                                                         *)
(* A follow reads the set, writes its row, and drops the set: on MySQL from*)
(* post_save, after the INSERT, and on HBase in save(), before the put.    *)
(* Rendering its response reads the set again.  An unfollow finds its row, *)
(* drops the set, from pre_delete or from delete(), and deletes the row.   *)
(* The switch does not turn meanwhile, and the table of followers plays no *)
(* part: both are HBaseFollow's subject.                                   *)
(***************************************************************************)
EXTENDS FiniteSets

CONSTANTS Target,                \* the users that can be followed
          Follower, Unfollower,  \* the user's POST requests
          Viewer,                \* processes that read the set again and again
          TargetOf,              \* whom each POST request names
          Earlier,               \* who wrote the rows there are at the start
          Faults                 \* may memcached fail and processes crash?

ASSUME RequestAssumption ==
  /\ TargetOf \in [Follower \cup Unfollower -> Target]
  /\ Follower \cap Unfollower = {} /\ Viewer \cap (Follower \cup Unfollower) = {}
  /\ Faults \in BOOLEAN

VARIABLES hbase,   \* is the switch to HBase at 100 percent?
          rows,    \* the committed rows
          warm,    \* does memcached have the set?
          cached,  \* the set; {} while it is not there
          pc,      \* what each process does next, or how it ended
          seen,    \* the set each process got last
          found    \* the rows each unfollow is about to delete

vars == <<hbase, rows, warm, cached, pc, seen, found>>

Process == Follower \cup Unfollower \cup Viewer
Reader == Follower \cup Viewer
Rendering == {"get again", "load again", "fill again"}
Ended == {"duplicate", "created", "error", "deleted", "nothing", "crashed"}

(* Only on HBase may one user be followed by two rows, whose keys have their*)
(* times: a row is named by the request that wrote it.                      *)
Row == [target : Target, by : Follower \cup {Earlier}]
RowOf(p) == [target |-> TargetOf[p], by |-> p]
RowsFor(user) == {row \in rows : row.target = user}
Followed == {row.target : row \in rows}

Init ==
  /\ hbase \in BOOLEAN
  /\ rows \in SUBSET [target : Target, by : {Earlier}]
  /\ warm \in BOOLEAN
  /\ cached = IF warm THEN Followed ELSE {}
  /\ pc = [p \in Process |-> IF p \in Unfollower THEN "select" ELSE "get"]
  /\ seen = [p \in Process |-> {}]
  /\ found = [p \in Unfollower |-> {}]

Goto(p, next) == pc' = [pc EXCEPT ![p] = next]

Step(p, here, next) == pc[p] = here /\ Goto(p, next)

Forget == warm' = FALSE /\ cached' = {}

-----------------------------------------------------------------------------
(* get_following_user_id_set, in a viewer, in has_followed, and in          *)
(* FollowingSerializer.                                                     *)
After(p, set) ==
  IF p \in Viewer THEN "get"
  ELSE IF pc[p] \in Rendering THEN "created"
  ELSE IF TargetOf[p] \in set THEN "duplicate" ELSE "insert"

Missed(p) == Goto(p, IF pc[p] \in Rendering THEN "load again" ELSE "load")

Get(p) ==
  /\ pc[p] \in {"get", "get again"}
  /\ IF warm THEN Goto(p, After(p, cached)) /\ seen' = [seen EXCEPT ![p] = cached]
             ELSE Missed(p) /\ UNCHANGED seen
  /\ UNCHANGED <<hbase, rows, warm, cached, found>>

Load(p) ==
  /\ \/ Step(p, "load", "fill")
     \/ Step(p, "load again", "fill again")
  /\ seen' = [seen EXCEPT ![p] = Followed]
  /\ UNCHANGED <<hbase, rows, warm, cached, found>>

Mutant_FillWithTarget(p) ==
  /\ pc[p] \in {"fill", "fill again"}
  /\ warm' = TRUE
  /\ cached' = IF p \in Follower THEN seen[p] \cup {TargetOf[p]} ELSE seen[p]
  /\ Goto(p, After(p, seen[p]))
  /\ UNCHANGED <<hbase, rows, seen, found>>

Fill(p) ==
  /\ pc[p] \in {"fill", "fill again"}
  /\ warm' = TRUE
  /\ cached' = seen[p]
  /\ Goto(p, After(p, seen[p]))
  /\ UNCHANGED <<hbase, rows, seen, found>>

-----------------------------------------------------------------------------
(* follow on MySQL: the unique (from_user, to_user) index refuses a second  *)
(* row, and nobody catches the IntegrityError.                              *)
Mutant_InsertAnyway(p) ==
  /\ ~hbase
  /\ Step(p, "insert", "invalidate")
  /\ rows' = rows \cup {RowOf(p)}
  /\ UNCHANGED <<hbase, warm, cached, seen, found>>

Insert(p) ==
  /\ ~hbase
  /\ \/ Step(p, "insert", "error") /\ TargetOf[p] \in Followed /\ UNCHANGED rows
     \/ Step(p, "insert", "invalidate") /\ TargetOf[p] \notin Followed /\ rows' = rows \cup {RowOf(p)}
  /\ UNCHANGED <<hbase, warm, cached, seen, found>>

Invalidate(p) ==
  /\ Step(p, "invalidate", "get again")
  /\ Forget
  /\ UNCHANGED <<hbase, rows, seen, found>>

(* follow on HBase: HBaseFollowing.save drops the set and then puts the row.*)
InvalidateBeforePut(p) ==
  /\ hbase
  /\ Step(p, "insert", "put")
  /\ Forget
  /\ UNCHANGED <<hbase, rows, seen, found>>

Put(p) ==
  /\ Step(p, "put", "get again")
  /\ rows' = rows \cup {RowOf(p)}
  /\ UNCHANGED <<hbase, warm, cached, seen, found>>

-----------------------------------------------------------------------------
(* unfollow: QuerySet.delete selects, sends pre_delete, deletes, commits;   *)
(* on HBase get_follow_instance finds one row, whose key is then deleted.   *)
Select(p) ==
  /\ \/ Step(p, "select", "nothing") /\ TargetOf[p] \notin Followed /\ UNCHANGED found
     \/ /\ Step(p, "select", "invalidate first") /\ TargetOf[p] \in Followed
        /\ \E chosen \in IF hbase THEN {{row} : row \in RowsFor(TargetOf[p])}
                                  ELSE {RowsFor(TargetOf[p])} :
             found' = [found EXCEPT ![p] = chosen]
  /\ UNCHANGED <<hbase, rows, warm, cached, seen>>

InvalidateFirst(p) ==
  /\ Step(p, "invalidate first", "delete")
  /\ Forget
  /\ UNCHANGED <<hbase, rows, seen, found>>

Delete(p) ==
  /\ Step(p, "delete", "deleted")
  /\ rows' = rows \ found[p]
  /\ UNCHANGED <<hbase, warm, cached, seen, found>>

-----------------------------------------------------------------------------
(* memcached drops the set when its TIMEOUT is over, or earlier.            *)
Mutant_NeverTimesOut == FALSE /\ UNCHANGED vars

Timeout ==
  /\ warm
  /\ Forget
  /\ UNCHANGED <<hbase, rows, pc, seen, found>>

(* ignore_exc: a get that fails is a miss, a set or a delete that fails is  *)
(* skipped.                                                                 *)
MemcachedFails(p) ==
  /\ Faults
  /\ \/ pc[p] \in {"get", "get again"} /\ Missed(p)
     \/ pc[p] \in {"fill", "fill again"} /\ Goto(p, After(p, seen[p]))
     \/ Step(p, "invalidate", "get again")
     \/ hbase /\ Step(p, "insert", "put")
     \/ Step(p, "invalidate first", "delete")
  /\ UNCHANGED <<hbase, rows, warm, cached, seen, found>>

Crash(p) ==
  /\ Faults
  /\ p \notin Viewer /\ pc[p] \notin Ended
  /\ Goto(p, "crashed")
  /\ UNCHANGED <<hbase, rows, warm, cached, seen, found>>

-----------------------------------------------------------------------------
ReadStep(p) == Get(p) \/ Load(p) \/ Fill(p)
FollowStep(p) == Insert(p) \/ Invalidate(p) \/ InvalidateBeforePut(p) \/ Put(p)
UnfollowStep(p) == Select(p) \/ InvalidateFirst(p) \/ Delete(p)

Next ==
  \/ \E p \in Reader : ReadStep(p)
  \/ \E p \in Follower : FollowStep(p)
  \/ \E p \in Unfollower : UnfollowStep(p)
  \/ \E p \in Process : MemcachedFails(p) \/ Crash(p)
  \/ Timeout

Spec == Init /\ [][Next]_vars

(* Web workers run the requests they have taken, and memcached drops what   *)
(* has timed out.  Nothing makes a request crash or memcached fail.         *)
FairSpec ==
  /\ Spec
  /\ WF_vars(Timeout)
  /\ \A p \in Reader : WF_vars(ReadStep(p))
  /\ \A p \in Follower : WF_vars(FollowStep(p))
  /\ \A p \in Unfollower : WF_vars(UnfollowStep(p))

-----------------------------------------------------------------------------
(* Types; a set that memcached does not have is {}.                         *)
TypeOK ==
  /\ hbase \in BOOLEAN
  /\ rows \in SUBSET Row
  /\ warm \in BOOLEAN
  /\ cached \in SUBSET Target
  /\ ~warm => cached = {}
  /\ pc \in [Process -> {"get", "load", "fill", "insert", "invalidate", "put", "select",
                         "invalidate first", "delete"} \cup Rendering \cup Ended]
  /\ seen \in [Process -> SUBSET Target]
  /\ found \in [Unfollower -> SUBSET Row]
  /\ \A p \in Unfollower : \A row \in found[p] : row.target = TargetOf[p]
  /\ \A p \in Process : pc[p] = "put" => hbase

(* Whatever races, times out or fails, nobody ever gets a set with a user   *)
(* who is not followed, unless an unfollow of that user has come through:   *)
(* stale sets only lack users, and a follow is not answered "duplicate"     *)
(* without a row until the first unfollow.                                  *)
Unfollowed == {TargetOf[u] : u \in {q \in Unfollower : pc[q] = "deleted"}}

NothingInvented ==
  /\ cached \subseteq Followed \cup Unfollowed
  /\ \A p \in Process : seen[p] \subseteq Followed \cup Unfollowed

(* On MySQL at most one of several follow requests for one user inserts a   *)
(* row, unless an unfollow of that user came between.                       *)
Inserted == {"invalidate", "created"} \cup Rendering

CreatedOnce ==
  ~hbase => \A p, q \in Follower :
    p # q /\ TargetOf[p] = TargetOf[q] /\ pc[p] \in Inserted /\ pc[q] \in Inserted
      => TargetOf[p] \in Unfollowed

(* consistency.txt:98 "inconsistent until the TTL expires": a stale set,    *)
(* also one that a slow reader stored after the invalidation, that an early *)
(* invalidation let in (an unfollow's, and on HBase a follow's), or that a  *)
(* failed invalidation left, does not outlive its TIMEOUT for good: once the*)
(* last request has ended, memcached will have the rows, or nothing, forever.*)
StaleEnds == <>[](warm => cached = Followed)
=============================================================================
