----------------------------- MODULE HBaseFollow -----------------------------
(***************************************************************************)
(* Follows and unfollows while the GateKeeper switch sends them to HBase   *)
(* (friendships/services.py, friendships/models/hbase_friendship.py).  A   *)
(* friendship is a row of twitter_followings, whose key is (fan, at), and  *)
(* one of twitter_followers, whose key is (idol, at).  No transaction      *)
(* holds the two together, a put under an existing key replaces its row,   *)
(* and nothing but the cached set keeps a fan from following twice.  That  *)
(* set, which may be stale, is FollowCache's subject: here has_followed    *)
(* answers whatever it likes.                                              *)
(*                                                                         *)
(* Every operation asks the switch again, and whenever Redis fails, or the *)
(* switch has not been turned yet, it goes to the Friendship rows of MySQL.*)
(***************************************************************************)
EXTENDS Naturals

CONSTANTS Fan, Idol,              \* who follows, and who is followed
          Follower, Unfollower,   \* the POST requests
          PairChoices,            \* whom they may name, as functions
          OldRows,                \* rows that both tables may have at the start
          FirstTime, LastTime,    \* the bounds of the clock
          Faults                  \* may processes crash?

Request == Follower \cup Unfollower
Pair == [fan : Fan, idol : Idol]
Row == [fan : Fan, idol : Idol, at : Nat \ {0}]

ASSUME InstanceAssumption ==
  /\ Follower \cap Unfollower = {}
  /\ PairChoices \subseteq [Request -> Pair]
  /\ FirstTime \in Nat \ {0} /\ LastTime \in Nat
  /\ OldRows \subseteq {row \in Row : row.at < FirstTime}
  /\ \A row, other \in OldRows :
       row.at = other.at /\ (row.fan = other.fan \/ row.idol = other.idol) => row = other
  /\ Faults \in BOOLEAN

VARIABLES mysql,      \* the pairs with a Friendship row
          following,  \* the rows of HBaseFollowing
          follower,   \* the rows of HBaseFollower
          on,         \* is the switch at 100 percent?
          clock,      \* microseconds
          pair,       \* whom each request names
          pc,         \* what each request does next, or how it ended
          at          \* created_at of the row it puts or deletes; 0 before

stores == <<mysql, following, follower>>
followVars == <<stores, on, clock, pair, pc, at>>

Timed == {"put_follower", "put_following", "delete_following", "delete_follower"}
Ended == {"duplicate", "created", "error", "deleted", "nothing", "crashed"}

FollowInit ==
  /\ mysql = {}
  /\ \E rows \in SUBSET OldRows : following = rows /\ follower = rows
  /\ on \in BOOLEAN
  /\ clock = FirstTime
  /\ pair \in PairChoices
  /\ pc = [r \in Request |-> IF r \in Follower THEN "check" ELSE "find"]
  /\ at = [r \in Request |-> 0]

Goto(r, next) == pc' = [pc EXCEPT ![r] = next]
Step(r, here, next) == pc[r] = here /\ Goto(r, next)

PairOf(row) == [fan |-> row.fan, idol |-> row.idol]
RowOf(r) == [fan |-> pair[r].fan, idol |-> pair[r].idol, at |-> at[r]]

SameFollowingKey(row, other) == row.fan = other.fan /\ row.at = other.at
SameFollowerKey(row, other) == row.idol = other.idol /\ row.at = other.at

(* What is_switch_on may have answered: Redis failures read as off, and the *)
(* switch may have been turned since.                                       *)
Asked == {on, FALSE}

-----------------------------------------------------------------------------
(* has_followed: the answer may come from a stale set.                      *)
HasFollowed(r) ==
  /\ \E answer \in BOOLEAN : Step(r, "check", IF answer THEN "duplicate" ELSE "write")
  /\ UNCHANGED <<stores, on, clock, pair, at>>

-----------------------------------------------------------------------------
(* follow with the switch off: INSERT into the table with a unique index.   *)
Insert(r) ==
  /\ Step(r, "write", IF pair[r] \in mysql THEN "error" ELSE "created")
  /\ FALSE \in Asked
  /\ mysql' = mysql \cup {pair[r]}
  /\ UNCHANGED <<following, follower, on, clock, pair, at>>

(* follow with the switch on: one time for both rows, the follower's first. *)
Stamp(r) ==
  /\ Step(r, "write", "put_follower")
  /\ TRUE \in Asked
  /\ at' = [at EXCEPT ![r] = clock]
  /\ UNCHANGED <<stores, on, clock, pair>>

Mutant_KeyWithoutTime(r) ==
  /\ Step(r, "put_follower", "put_following")
  /\ follower' = {row \in follower : row.idol # pair[r].idol} \cup {RowOf(r)}
  /\ UNCHANGED <<mysql, following, on, clock, pair, at>>

PutFollower(r) ==
  /\ Step(r, "put_follower", "put_following")
  /\ follower' = {row \in follower : ~SameFollowerKey(row, RowOf(r))} \cup {RowOf(r)}
  /\ UNCHANGED <<mysql, following, on, clock, pair, at>>

PutFollowing(r) ==
  /\ Step(r, "put_following", "created")
  /\ following' = {row \in following : ~SameFollowingKey(row, RowOf(r))} \cup {RowOf(r)}
  /\ UNCHANGED <<mysql, follower, on, clock, pair, at>>

-----------------------------------------------------------------------------
(* unfollow with the switch off: SELECT, DELETE.                            *)
Select(r) ==
  /\ Step(r, "find", IF pair[r] \in mysql THEN "delete_row" ELSE "nothing")
  /\ FALSE \in Asked
  /\ UNCHANGED <<stores, on, clock, pair, at>>

DeleteRow(r) ==
  /\ Step(r, "delete_row", "deleted")
  /\ mysql' = mysql \ {pair[r]}
  /\ UNCHANGED <<following, follower, on, clock, pair, at>>

(* unfollow with the switch on: get_follow_instance takes the oldest row of *)
(* the pair; the fan's row is deleted first, and both by their keys.        *)
Instances(r) == {row \in following : PairOf(row) = pair[r]}

FirstOf(rows) == {row \in rows : \A other \in rows : row.at <= other.at}

Mutant_AnyRowOfFan(r) ==
  LET rows == {row \in following : row.fan = pair[r].fan} IN
  /\ pc[r] = "find" /\ TRUE \in Asked
  /\ \/ rows = {} /\ Goto(r, "nothing") /\ UNCHANGED at
     \/ \E row \in FirstOf(rows) :
          Goto(r, "delete_following") /\ at' = [at EXCEPT ![r] = row.at]
  /\ UNCHANGED <<stores, on, clock, pair>>

Find(r) ==
  /\ pc[r] = "find" /\ TRUE \in Asked
  /\ \/ Instances(r) = {} /\ Goto(r, "nothing") /\ UNCHANGED at
     \/ \E row \in FirstOf(Instances(r)) :
          Goto(r, "delete_following") /\ at' = [at EXCEPT ![r] = row.at]
  /\ UNCHANGED <<stores, on, clock, pair>>

DeleteFollowing(r) ==
  /\ Step(r, "delete_following", "delete_follower")
  /\ following' = {row \in following : ~SameFollowingKey(row, RowOf(r))}
  /\ UNCHANGED <<mysql, follower, on, clock, pair, at>>

DeleteFollower(r) ==
  /\ Step(r, "delete_follower", "deleted")
  /\ follower' = {row \in follower : ~SameFollowerKey(row, RowOf(r))}
  /\ UNCHANGED <<mysql, following, on, clock, pair, at>>

-----------------------------------------------------------------------------
(* GateKeeper.turn_on; the clock; a process that dies, or whose put, delete *)
(* or scan raises.                                                          *)
TurnOn == ~on /\ on' = TRUE /\ UNCHANGED <<stores, clock, pair, pc, at>>

Tick ==
  /\ clock < LastTime
  /\ clock' = clock + 1
  /\ UNCHANGED <<stores, on, pair, pc, at>>

Crash(r) ==
  /\ Faults
  /\ pc[r] \notin Ended
  /\ Goto(r, "crashed")
  /\ UNCHANGED <<stores, on, clock, pair, at>>

-----------------------------------------------------------------------------
FollowStep(r) ==
  HasFollowed(r) \/ Insert(r) \/ Stamp(r) \/ PutFollower(r) \/ PutFollowing(r)

UnfollowStep(r) ==
  Select(r) \/ DeleteRow(r) \/ Find(r) \/ DeleteFollowing(r) \/ DeleteFollower(r)

FollowNext ==
  \/ \E r \in Follower : FollowStep(r)
  \/ \E r \in Unfollower : UnfollowStep(r)
  \/ \E r \in Request : Crash(r)
  \/ TurnOn \/ Tick

FollowSpec == FollowInit /\ [][FollowNext]_followVars

-----------------------------------------------------------------------------
(* Types; who puts or deletes a row knows its time.                         *)
TypeOK ==
  /\ mysql \subseteq Pair /\ following \subseteq Row /\ follower \subseteq Row
  /\ on \in BOOLEAN /\ clock \in Nat \ {0}
  /\ pair \in [Request -> Pair]
  /\ pc \in [Request -> {"check", "write", "put_follower", "put_following", "find",
                         "delete_row", "delete_following", "delete_follower"} \cup Ended]
  /\ at \in [Request -> Nat]
  /\ \A r \in Request : pc[r] \in Timed => at[r] > 0

(* Two requests have stamped rows of one key: of two fans who follow one    *)
(* idol in the same microsecond, of two idols, or of one pair twice.        *)
FollowerClash(row) ==
  \E r, q \in Follower :
    r # q /\ at[r] > 0 /\ SameFollowerKey(RowOf(r), row) /\ SameFollowerKey(RowOf(q), row)

FollowingClash(row) ==
  \E r, q \in Follower :
    r # q /\ at[r] > 0 /\ SameFollowingKey(RowOf(r), row) /\ SameFollowingKey(RowOf(q), row)

(* Whoever has a row in the followings has one in the followers too, so     *)
(* that the tweets of whom he follows reach him: follow writes the follower *)
(* first and unfollow deletes it last, and neither interleavings, crashes   *)
(* nor the switch break that; only rows of one key may.                     *)
FollowingsAreFollowers == \A row \in following : row \in follower \/ FollowerClash(row)

(* A follower without the following, who gets tweets of somebody he does not*)
(* follow, is one whose request is between its two puts or its two deletes, *)
(* has crashed there, or lost the row to one of the same key.               *)
Halfway == {"put_following", "delete_follower", "crashed"}

LoneFollowersExplained ==
  \A row \in follower \ following :
    \/ \E r \in Request : RowOf(r) = row /\ pc[r] \in Halfway
    \/ FollowingClash(row)

(* A follow that was answered 201 with its row is stored somewhere, in MySQL*)
(* or in HBase, unless the pair is unfollowed or the row's key is taken.    *)
AcknowledgedIsStored ==
  \A r \in Follower : pc[r] = "created" =>
    \/ pair[r] \in mysql \/ RowOf(r) \in following
    \/ \E u \in Unfollower : pair[u] = pair[r] /\ pc[u] \notin {"find", "nothing"}
    \/ FollowingClash(RowOf(r))
=============================================================================
