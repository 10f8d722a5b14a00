-------------------------- MODULE HBaseFollowProofs --------------------------
(***************************************************************************)
(* Proofs about what is kept in HBase: HBaseFollow and HBasePages, for any *)
(* fans, idols, requests, and pages of any size; from Ten on, HBaseKeys    *)
(* and HBaseScans, for any ids and times; and, from FeedTypeOK on,         *)
(* FeedStores, for any tweets, deliveries, clients, limit and turns.       *)
(*                                                                         *)
(* The two tables are compared row by row, and everything rests on where   *)
(* rows come from: a row is an old one, or one follow request has stamped  *)
(* it, and put it into the followers before it put it into the followings. *)
(* Two rows of one key, then, are of two requests, which have the same     *)
(* time: that is a clash.                                                  *)
(*                                                                         *)
(* The keys rest on this: of two texts of one length the one that says the *)
(* smaller number has the smaller digit where they first differ.  All ids  *)
(* have one length, so no id begins another one and the keys of a user lie *)
(* together; all times have one length, so the keys of a user lie by time. *)
(***************************************************************************)
EXTENDS HBaseScans, FeedStores, TLAPS, FiniteSetTheorems, WellFoundedInduction

Stamped(row) == \E r \in Follower : at[r] >= FirstTime /\ RowOf(r) = row
PutByFollow(row) ==
  \E r \in Follower : at[r] >= FirstTime /\ RowOf(r) = row /\ pc[r] = "created"

PcsInv ==
  /\ clock >= FirstTime
  /\ \A r \in Follower :
       /\ pc[r] \in {"check", "write", "put_follower", "put_following",
                     "created", "duplicate", "error", "crashed"}
       /\ at[r] = 0 \/ at[r] >= FirstTime
       /\ pc[r] \in {"check", "write"} => at[r] = 0
  /\ \A u \in Unfollower :
       pc[u] \in {"find", "delete_row", "delete_following", "delete_follower",
                  "deleted", "nothing", "crashed"}

OriginInv ==
  /\ \A row \in following : row \in OldRows \/ PutByFollow(row)
  /\ \A row \in follower : row \in OldRows \/ Stamped(row)
  /\ \A u \in Unfollower : pc[u] \in {"delete_following", "delete_follower"} =>
       RowOf(u) \in OldRows \/ PutByFollow(RowOf(u))

BetweenInv ==
  /\ \A r \in Follower :
       pc[r] = "put_following" => RowOf(r) \in follower \/ FollowerClash(RowOf(r))
  /\ \A u \in Unfollower :
       pc[u] = "delete_follower" => RowOf(u) \notin following \/ FollowerClash(RowOf(u))

BaseInv == TypeOK /\ PcsInv /\ OriginInv
IInv == BaseInv /\ BetweenInv /\ FollowingsAreFollowers /\ LoneFollowersExplained
        /\ AcknowledgedIsStored

-----------------------------------------------------------------------------
(* Every step keeps the types.                                              *)
LEMMA TypeStep == TypeOK /\ [FollowNext]_followVars => TypeOK'
<1> SUFFICES ASSUME TypeOK, [FollowNext]_followVars PROVE TypeOK'
  OBVIOUS
<1> USE DEF TypeOK, Step, Goto, Ended, Timed, stores
<1>a. Follower \subseteq Request /\ Unfollower \subseteq Request
  BY DEF Request
<1>b. ASSUME NEW r \in Request, at[r] > 0 PROVE RowOf(r) \in Row
  <2>1. pair[r] \in Pair /\ at[r] \in Nat \ {0}
    BY <1>b
  <2> QED
    BY <2>1 DEF RowOf, Row, Pair
<1>1. ASSUME NEW r \in Follower, HasFollowed(r) PROVE TypeOK'
  BY <1>1, <1>a DEF HasFollowed
<1>2. ASSUME NEW r \in Follower, Insert(r) PROVE TypeOK'
  BY <1>2, <1>a DEF Insert
<1>3. ASSUME NEW r \in Follower, Stamp(r) PROVE TypeOK'
  BY <1>3, <1>a DEF Stamp
<1>4. ASSUME NEW r \in Follower, PutFollower(r) PROVE TypeOK'
  BY <1>4, <1>a, <1>b DEF PutFollower
<1>5. ASSUME NEW r \in Follower, PutFollowing(r) PROVE TypeOK'
  BY <1>5, <1>a, <1>b DEF PutFollowing
<1>6. ASSUME NEW r \in Unfollower, Select(r) PROVE TypeOK'
  BY <1>6, <1>a DEF Select
<1>7. ASSUME NEW r \in Unfollower, DeleteRow(r) PROVE TypeOK'
  BY <1>7, <1>a DEF DeleteRow
<1>8. ASSUME NEW r \in Unfollower, Find(r) PROVE TypeOK'
  BY <1>8, <1>a DEF Find, FirstOf, Instances, Row
<1>9. ASSUME NEW r \in Unfollower, DeleteFollowing(r) PROVE TypeOK'
  BY <1>9, <1>a DEF DeleteFollowing
<1>10. ASSUME NEW r \in Unfollower, DeleteFollower(r) PROVE TypeOK'
  BY <1>10, <1>a DEF DeleteFollower
<1>11. ASSUME NEW r \in Request, Crash(r) PROVE TypeOK'
  BY <1>11 DEF Crash
<1>12. CASE TurnOn
  BY <1>12 DEF TurnOn
<1>13. CASE Tick
  BY <1>13 DEF Tick
<1>14. CASE UNCHANGED followVars
  BY <1>14 DEF followVars
<1> QED
  BY <1>1, <1>2, <1>3, <1>4, <1>5, <1>6, <1>7, <1>8, <1>9, <1>10, <1>11, <1>12, <1>13, <1>14
  DEF FollowNext, FollowStep, UnfollowStep

-----------------------------------------------------------------------------
(* Every step keeps where requests can be, and that only Stamp gives a      *)
(* follow request its time.                                                 *)
LEMMA PcsStep == TypeOK /\ PcsInv /\ [FollowNext]_followVars => PcsInv'
<1> SUFFICES ASSUME TypeOK, PcsInv, [FollowNext]_followVars PROVE PcsInv'
  OBVIOUS
<1> USE InstanceAssumption DEF TypeOK, PcsInv, Step, Goto, Ended, Timed, Request
<1>1. ASSUME NEW r \in Follower, FollowStep(r) PROVE PcsInv'
  BY <1>1 DEF FollowStep, HasFollowed, Insert, Stamp, PutFollower, PutFollowing
<1>2. ASSUME NEW r \in Unfollower, UnfollowStep(r) PROVE PcsInv'
  BY <1>2 DEF UnfollowStep, Select, DeleteRow, Find, DeleteFollowing, DeleteFollower
<1>3. ASSUME NEW r \in Request, Crash(r) PROVE PcsInv'
  BY <1>3 DEF Crash
<1>4. CASE TurnOn \/ Tick \/ UNCHANGED followVars
  BY <1>4 DEF TurnOn, Tick, followVars
<1> QED
  BY <1>1, <1>2, <1>3, <1>4 DEF FollowNext

(* A request keeps its pair, and a follow request its time once it has one; *)
(* who was answered 201 stays so.                                           *)
LEMMA Kept ==
  ASSUME TypeOK, PcsInv, [FollowNext]_followVars
  PROVE  /\ pair' = pair
         /\ \A r \in Follower : at[r] > 0 => at'[r] = at[r] /\ RowOf(r)' = RowOf(r)
         /\ \A r \in Follower : pc[r] = "created" => pc'[r] = "created"
<1> USE InstanceAssumption DEF TypeOK, PcsInv, Step, Goto, Ended, Timed, Request
<1>1. pair' = pair
  BY DEF FollowNext, followVars, FollowStep, HasFollowed, Insert, Stamp, PutFollower,
         PutFollowing, UnfollowStep, Select, DeleteRow, Find, DeleteFollowing,
         DeleteFollower, Crash, TurnOn, Tick
<1>2. ASSUME NEW r \in Follower, at[r] > 0 PROVE at'[r] = at[r]
  <2>1. ASSUME NEW q \in Follower, Stamp(q) PROVE at'[r] = at[r]
    BY <1>2, <2>1 DEF Stamp
  <2>2. ASSUME NEW u \in Unfollower, Find(u) PROVE at'[r] = at[r]
    BY <1>2, <2>2 DEF Find
  <2> QED
    BY <2>1, <2>2 DEF FollowNext, followVars, FollowStep, HasFollowed, Insert, PutFollower,
       PutFollowing, UnfollowStep, Select, DeleteRow, DeleteFollowing, DeleteFollower, Crash,
       TurnOn, Tick
<1>3. ASSUME NEW r \in Follower, pc[r] = "created" PROVE pc'[r] = "created"
  <2>1. ASSUME NEW q \in Follower, FollowStep(q) PROVE pc'[r] = "created"
    BY <1>3, <2>1 DEF FollowStep, HasFollowed, Insert, Stamp, PutFollower, PutFollowing
  <2>2. ASSUME NEW u \in Unfollower, UnfollowStep(u) PROVE pc'[r] = "created"
    BY <1>3, <2>2 DEF UnfollowStep, Select, DeleteRow, Find, DeleteFollowing, DeleteFollower
  <2>3. ASSUME NEW q \in Request, Crash(q) PROVE pc'[r] = "created"
    BY <1>3, <2>3 DEF Crash
  <2>4. CASE TurnOn \/ Tick \/ UNCHANGED followVars
    BY <1>3, <2>4 DEF TurnOn, Tick, followVars
  <2> QED
    BY <2>1, <2>2, <2>3, <2>4 DEF FollowNext
<1> QED
  BY <1>1, <1>2, <1>3 DEF RowOf

(* What is known of a row stays known: who stamped it, who put it, and that *)
(* another row has its key.                                                 *)
LEMMA KnownStays ==
  ASSUME TypeOK, PcsInv, [FollowNext]_followVars, NEW row
  PROVE  /\ Stamped(row) => Stamped(row)'
         /\ PutByFollow(row) => PutByFollow(row)'
         /\ FollowerClash(row) => FollowerClash(row)'
         /\ FollowingClash(row) => FollowingClash(row)'
<1>1. FirstTime > 0 /\ FirstTime \in Nat /\ Follower \subseteq Request
  BY InstanceAssumption DEF Request
<1>2. \A r \in Follower : at[r] \in Nat
  BY <1>1 DEF TypeOK
<1>3. ASSUME Stamped(row) PROVE Stamped(row)'
  BY <1>1, <1>2, <1>3, Kept DEF Stamped
<1>4. ASSUME PutByFollow(row) PROVE PutByFollow(row)'
  BY <1>1, <1>2, <1>4, Kept DEF PutByFollow
<1>5. ASSUME FollowerClash(row) PROVE FollowerClash(row)'
  <2>1. PICK r, q \in Follower :
          /\ r # q /\ at[r] > 0
          /\ SameFollowerKey(RowOf(r), row) /\ SameFollowerKey(RowOf(q), row)
    BY <1>5 DEF FollowerClash
  <2>2. at[q] > 0
    BY <2>1 DEF SameFollowerKey, RowOf
  <2> QED
    BY <2>1, <2>2, Kept DEF FollowerClash, SameFollowerKey
<1>6. ASSUME FollowingClash(row) PROVE FollowingClash(row)'
  <2>1. PICK r, q \in Follower :
          /\ r # q /\ at[r] > 0
          /\ SameFollowingKey(RowOf(r), row) /\ SameFollowingKey(RowOf(q), row)
    BY <1>6 DEF FollowingClash
  <2>2. at[q] > 0
    BY <2>1 DEF SameFollowingKey, RowOf
  <2> QED
    BY <2>1, <2>2, Kept DEF FollowingClash, SameFollowingKey
<1> QED
  BY <1>3, <1>4, <1>5, <1>6

-----------------------------------------------------------------------------
(* The lemma on which the comparison of the tables rests: two rows of one   *)
(* key are two requests', at one time.                                      *)
Known(row) == row \in OldRows \/ Stamped(row)

LEMMA PutIsStamped == ASSUME NEW row, PutByFollow(row) PROVE Stamped(row)
  BY DEF PutByFollow, Stamped

LEMMA SameKeyIsClash ==
  ASSUME TypeOK, NEW row, NEW other, Known(row), Known(other), row # other
  PROVE  /\ SameFollowerKey(row, other) => FollowerClash(row)
         /\ SameFollowingKey(row, other) => FollowingClash(row)
<1> SUFFICES ASSUME SameFollowerKey(row, other) \/ SameFollowingKey(row, other)
             PROVE  /\ SameFollowerKey(row, other) => FollowerClash(row)
                    /\ SameFollowingKey(row, other) => FollowingClash(row)
  OBVIOUS
<1> USE DEF SameFollowerKey, SameFollowingKey
<1>1. FirstTime \in Nat \ {0} /\ \A r \in Follower : at[r] \in Nat
  BY InstanceAssumption DEF TypeOK, Request
<1>2. ~(row \in OldRows /\ other \in OldRows)
  BY InstanceAssumption
<1>3. \A old \in OldRows : old.at \in Nat /\ old.at < FirstTime
  BY InstanceAssumption DEF Row
<1>4. \A r \in Follower : RowOf(r).at = at[r]
  BY DEF RowOf
<1>5. ~(row \in OldRows /\ Stamped(other)) /\ ~(other \in OldRows /\ Stamped(row))
  BY <1>1, <1>3, <1>4 DEF Stamped
<1>6. Stamped(row) /\ Stamped(other)
  BY <1>2, <1>5 DEF Known
<1>7. PICK r \in Follower : at[r] >= FirstTime /\ RowOf(r) = row
  BY <1>6 DEF Stamped
<1>8. PICK q \in Follower : at[q] >= FirstTime /\ RowOf(q) = other
  BY <1>6 DEF Stamped
<1>9. r # q /\ at[r] > 0
  BY <1>1, <1>7, <1>8
<1> QED
  BY <1>7, <1>8, <1>9 DEF FollowerClash, FollowingClash

-----------------------------------------------------------------------------
(* Every step keeps where rows come from.                                   *)
LEMMA OriginStep == BaseInv /\ [FollowNext]_followVars => OriginInv'
<1> SUFFICES ASSUME BaseInv, [FollowNext]_followVars PROVE OriginInv'
  OBVIOUS
<1> DEFINE Finding(u) == pc[u] \in {"delete_following", "delete_follower"}
           FoundKnown(u) == RowOf(u) \in OldRows \/ PutByFollow(RowOf(u))
<1>1. /\ TypeOK /\ PcsInv
      /\ \A row \in following : row \in OldRows \/ PutByFollow(row)
      /\ \A row \in follower : row \in OldRows \/ Stamped(row)
      /\ \A u \in Unfollower : Finding(u) => FoundKnown(u)
  BY DEF BaseInv, OriginInv
<1>2. /\ \A row : Stamped(row) => Stamped(row)'
      /\ \A row : PutByFollow(row) => PutByFollow(row)'
  BY <1>1, KnownStays
<1>3. Follower \cap Unfollower = {} /\ Follower \subseteq Request /\ Unfollower \subseteq Request
  BY InstanceAssumption DEF Request
<1>4. ASSUME following' \subseteq following, follower' \subseteq follower,
             \A u \in Unfollower : Finding(u)' =>
               (Finding(u) /\ RowOf(u)' = RowOf(u)) \/ RowOf(u)' \in following
      PROVE  OriginInv'
  BY <1>1, <1>2, <1>4 DEF OriginInv
<1>5. ASSUME NEW r \in Follower, PutFollower(r) PROVE OriginInv'
  <2>1. at[r] >= FirstTime /\ Stamped(RowOf(r))
    BY <1>1, <1>3, <1>5 DEF PutFollower, Step, TypeOK, Timed, PcsInv, Stamped
  <2>2. /\ following' = following /\ follower' \subseteq follower \cup {RowOf(r)}
        /\ at' = at /\ pair' = pair
        /\ \A u \in Unfollower : pc'[u] = pc[u]
    BY <1>1, <1>3, <1>5 DEF PutFollower, Step, Goto, stores, TypeOK
  <2>3. \A u : RowOf(u)' = RowOf(u)
    BY <2>2 DEF RowOf
  <2> QED
    BY <1>1, <1>2, <2>1, <2>2, <2>3 DEF OriginInv
<1>6. ASSUME NEW r \in Follower, PutFollowing(r) PROVE OriginInv'
  <2>1. /\ follower' = follower /\ following' \subseteq following \cup {RowOf(r)}
        /\ at' = at /\ pair' = pair /\ pc'[r] = "created"
        /\ \A u \in Unfollower : pc'[u] = pc[u]
    BY <1>1, <1>3, <1>6 DEF PutFollowing, Step, Goto, stores, TypeOK
  <2>2. \A u : RowOf(u)' = RowOf(u)
    BY <2>1 DEF RowOf
  <2>3. at[r] >= FirstTime
    BY <1>1, <1>3, <1>6 DEF PutFollowing, Step, TypeOK, Timed, PcsInv
  <2>4. PutByFollow(RowOf(r))'
    BY <2>1, <2>2, <2>3 DEF PutByFollow
  <2> QED
    BY <1>1, <1>2, <2>1, <2>2, <2>4 DEF OriginInv
<1>7. ASSUME NEW u \in Unfollower, Find(u) PROVE OriginInv'
  <2>1. /\ following' = following /\ follower' = follower /\ pair' = pair
        /\ \A v \in Unfollower \ {u} : pc'[v] = pc[v] /\ at'[v] = at[v]
    BY <1>1, <1>3, <1>7 DEF Find, Goto, stores, TypeOK
  <2>2. Finding(u)' => RowOf(u)' \in following
    <3>1. SUFFICES ASSUME Finding(u)' PROVE RowOf(u)' \in following
      OBVIOUS
    <3>2. PICK row \in following : PairOf(row) = pair[u] /\ at' = [at EXCEPT ![u] = row.at]
      BY <1>1, <1>3, <1>7, <3>1 DEF Find, FirstOf, Instances, Goto, TypeOK
    <3>3. at'[u] = row.at /\ row \in Row
      BY <1>1, <1>3, <3>2 DEF TypeOK
    <3>4. RowOf(u)' = [fan |-> row.fan, idol |-> row.idol, at |-> row.at]
      BY <2>1, <3>2, <3>3 DEF RowOf, PairOf
    <3> QED
      BY <3>2, <3>3, <3>4 DEF Row
  <2>3. \A v \in Unfollower \ {u} : RowOf(v)' = RowOf(v)
    BY <2>1 DEF RowOf
  <2> QED
    BY <1>4, <2>1, <2>2, <2>3
<1>8. ASSUME NEW u \in Unfollower,
             Select(u) \/ DeleteRow(u) \/ DeleteFollowing(u) \/ DeleteFollower(u)
      PROVE  OriginInv'
  <2>1. /\ following' \subseteq following /\ follower' \subseteq follower
        /\ at' = at /\ pair' = pair
        /\ \A v \in Unfollower : Finding(v)' => Finding(v)
    BY <1>1, <1>3, <1>8
    DEF Select, DeleteRow, DeleteFollowing, DeleteFollower, Step, Goto, stores, TypeOK
  <2> QED
    BY <1>4, <2>1 DEF RowOf
<1>9. ASSUME NEW r \in Follower, HasFollowed(r) \/ Insert(r) \/ Stamp(r) PROVE OriginInv'
  <2>1. /\ following' = following /\ follower' = follower /\ pair' = pair
        /\ \A u \in Unfollower : at'[u] = at[u] /\ pc'[u] = pc[u]
    BY <1>1, <1>3, <1>9 DEF HasFollowed, Insert, Stamp, Step, Goto, stores, TypeOK
  <2> QED
    BY <1>4, <2>1 DEF RowOf
<1>10. ASSUME NEW r \in Request, Crash(r) PROVE OriginInv'
  <2>1. /\ following' = following /\ follower' = follower /\ at' = at /\ pair' = pair
        /\ \A u \in Unfollower : Finding(u)' => Finding(u)
    BY <1>1, <1>3, <1>10 DEF Crash, Goto, stores, TypeOK
  <2> QED
    BY <1>4, <2>1 DEF RowOf
<1>11. CASE TurnOn \/ Tick \/ UNCHANGED followVars
  <2>1. /\ following' = following /\ follower' = follower /\ at' = at /\ pair' = pair
        /\ pc' = pc
    BY <1>11 DEF TurnOn, Tick, followVars, stores
  <2> QED
    BY <1>4, <2>1 DEF RowOf
<1> QED
  BY <1>5, <1>6, <1>7, <1>8, <1>9, <1>10, <1>11 DEF FollowNext, FollowStep, UnfollowStep

-----------------------------------------------------------------------------
(* What the lemmas above say of one step: what it may take out of the two   *)
(* tables and put into them, and at whose hands.                            *)
LEMMA TablesStep ==
  ASSUME BaseInv, [FollowNext]_followVars
  PROVE  /\ \A row \in following' \ following :
              \E r \in Follower : /\ pc[r] = "put_following" /\ pc'[r] = "created"
                                 /\ RowOf(r) = row /\ follower' = follower
         /\ \A row \in follower' \ follower :
              \E r \in Follower : /\ pc[r] = "put_follower" /\ pc'[r] = "put_following"
                                 /\ RowOf(r) = row /\ RowOf(r)' = row /\ following' = following
         /\ \A row \in following \ following' :
              \/ FollowingClash(row)
              \/ \E u \in Unfollower : /\ RowOf(u) = row /\ RowOf(u)' = row
                                     /\ pc'[u] = "delete_follower"
         /\ \A row \in follower \ follower' :
              \/ FollowerClash(row)
              \/ \E u \in Unfollower : /\ RowOf(u) = row /\ following' = following
                                     /\ pc[u] = "delete_follower"
<1> DEFINE Goal ==
  /\ \A row \in following' \ following :
       \E r \in Follower : /\ pc[r] = "put_following" /\ pc'[r] = "created"
                          /\ RowOf(r) = row /\ follower' = follower
  /\ \A row \in follower' \ follower :
       \E r \in Follower : /\ pc[r] = "put_follower" /\ pc'[r] = "put_following"
                          /\ RowOf(r) = row /\ RowOf(r)' = row /\ following' = following
  /\ \A row \in following \ following' :
       \/ FollowingClash(row)
       \/ \E u \in Unfollower : /\ RowOf(u) = row /\ RowOf(u)' = row
                              /\ pc'[u] = "delete_follower"
  /\ \A row \in follower \ follower' :
       \/ FollowerClash(row)
       \/ \E u \in Unfollower : /\ RowOf(u) = row /\ following' = following
                              /\ pc[u] = "delete_follower"
<1> SUFFICES Goal
  OBVIOUS
<1>1. TypeOK /\ PcsInv /\ OriginInv
  BY DEF BaseInv
<1>2. Follower \subseteq Request /\ Unfollower \subseteq Request
  BY DEF Request
<1>3. /\ \A row \in following \cup follower : Known(row)
      /\ \A u \in Unfollower :
           pc[u] \in {"delete_following", "delete_follower"} => Known(RowOf(u))
  BY <1>1, PutIsStamped DEF OriginInv, Known
<1>4. \A r \in Follower : pc[r] \in {"put_follower", "put_following"} => Known(RowOf(r))
  BY <1>1, <1>2 DEF Known, Stamped, PcsInv, TypeOK, Timed
<1>5. ASSUME following' = following, follower' = follower PROVE Goal
  BY <1>5
<1>6. ASSUME NEW r \in Follower, PutFollower(r) PROVE Goal
  <2>1. /\ following' = following /\ at' = at /\ pair' = pair
        /\ pc[r] = "put_follower" /\ pc'[r] = "put_following"
        /\ follower' = {row \in follower : ~SameFollowerKey(row, RowOf(r))} \cup {RowOf(r)}
    BY <1>1, <1>2, <1>6 DEF PutFollower, Step, Goto, stores, TypeOK
  <2>2. RowOf(r)' = RowOf(r)
    BY <2>1 DEF RowOf
  <2>3. ASSUME NEW row \in follower \ follower' PROVE FollowerClash(row)
    BY <1>1, <1>3, <1>4, <2>1, <2>3, SameKeyIsClash
  <2> QED
    BY <2>1, <2>2, <2>3
<1>7. ASSUME NEW r \in Follower, PutFollowing(r) PROVE Goal
  <2>1. /\ follower' = follower
        /\ pc[r] = "put_following" /\ pc'[r] = "created"
        /\ following' = {row \in following : ~SameFollowingKey(row, RowOf(r))} \cup {RowOf(r)}
    BY <1>1, <1>2, <1>7 DEF PutFollowing, Step, Goto, stores, TypeOK
  <2>2. ASSUME NEW row \in following \ following' PROVE FollowingClash(row)
    BY <1>1, <1>3, <1>4, <2>1, <2>2, SameKeyIsClash
  <2> QED
    BY <2>1, <2>2
<1>8. ASSUME NEW u \in Unfollower, DeleteFollowing(u) PROVE Goal
  <2>1. /\ follower' = follower /\ at' = at /\ pair' = pair
        /\ pc[u] = "delete_following" /\ pc'[u] = "delete_follower"
        /\ following' = {row \in following : ~SameFollowingKey(row, RowOf(u))}
    BY <1>1, <1>2, <1>8 DEF DeleteFollowing, Step, Goto, stores, TypeOK
  <2>2. RowOf(u)' = RowOf(u)
    BY <2>1 DEF RowOf
  <2>3. ASSUME NEW row \in following \ following', row # RowOf(u) PROVE FollowingClash(row)
    BY <1>1, <1>3, <2>1, <2>3, SameKeyIsClash
  <2> QED
    BY <2>1, <2>2, <2>3
<1>9. ASSUME NEW u \in Unfollower, DeleteFollower(u) PROVE Goal
  <2>1. /\ following' = following /\ pc[u] = "delete_follower"
        /\ follower' = {row \in follower : ~SameFollowerKey(row, RowOf(u))}
    BY <1>1, <1>2, <1>9 DEF DeleteFollower, Step, stores
  <2>2. ASSUME NEW row \in follower \ follower', row # RowOf(u) PROVE FollowerClash(row)
    BY <1>1, <1>3, <2>1, <2>2, SameKeyIsClash
  <2> QED
    BY <2>1, <2>2
<1>10. ASSUME NEW r \in Follower, HasFollowed(r) \/ Insert(r) \/ Stamp(r) PROVE Goal
  BY <1>5, <1>10 DEF HasFollowed, Insert, Stamp, stores
<1>11. ASSUME NEW u \in Unfollower, Select(u) \/ DeleteRow(u) \/ Find(u) PROVE Goal
  BY <1>5, <1>11 DEF Select, DeleteRow, Find, stores
<1>12. ASSUME NEW r \in Request, Crash(r) PROVE Goal
  BY <1>5, <1>12 DEF Crash, stores
<1>13. CASE TurnOn \/ Tick \/ UNCHANGED followVars
  BY <1>5, <1>13 DEF TurnOn, Tick, followVars, stores
<1> HIDE DEF Goal
<1> QED
  BY <1>6, <1>7, <1>8, <1>9, <1>10, <1>11, <1>12, <1>13
  DEF FollowNext, FollowStep, UnfollowStep

(* And what it says of the requests: how they come to the place between     *)
(* their two puts or deletes, how they leave it, and how they are answered. *)
LEMMA RequestsStep ==
  ASSUME BaseInv, [FollowNext]_followVars
  PROVE  /\ \A r \in Follower : pc'[r] = "put_following" =>
              RowOf(r)' = RowOf(r) /\ (pc[r] = "put_following" \/ RowOf(r) \in follower')
         /\ \A u \in Unfollower : pc'[u] = "delete_follower" =>
              RowOf(u)' = RowOf(u) /\ (pc[u] = "delete_follower" \/ RowOf(u) \notin following')
         /\ \A r \in Request : pc[r] \in Halfway =>
              /\ RowOf(r)' = RowOf(r)
              /\ pc'[r] \in Halfway \/ RowOf(r) \in following' \/ RowOf(r) \notin follower'
         /\ \A r \in Follower : pc'[r] = "created" =>
              /\ RowOf(r)' = RowOf(r)
              /\ pc[r] = "created" \/ RowOf(r) \in following' \/ pair[r] \in mysql'
         /\ \A p \in mysql \ mysql' : \E u \in Unfollower : pair[u] = p /\ pc'[u] = "deleted"
         /\ \A u \in Unfollower :
              pc[u] \notin {"find", "nothing"} => pc'[u] \notin {"find", "nothing"}
<1> DEFINE Goal ==
  /\ \A r \in Follower : pc'[r] = "put_following" =>
       RowOf(r)' = RowOf(r) /\ (pc[r] = "put_following" \/ RowOf(r) \in follower')
  /\ \A u \in Unfollower : pc'[u] = "delete_follower" =>
       RowOf(u)' = RowOf(u) /\ (pc[u] = "delete_follower" \/ RowOf(u) \notin following')
  /\ \A r \in Request : pc[r] \in Halfway =>
       /\ RowOf(r)' = RowOf(r)
       /\ pc'[r] \in Halfway \/ RowOf(r) \in following' \/ RowOf(r) \notin follower'
  /\ \A r \in Follower : pc'[r] = "created" =>
       /\ RowOf(r)' = RowOf(r)
       /\ pc[r] = "created" \/ RowOf(r) \in following' \/ pair[r] \in mysql'
  /\ \A p \in mysql \ mysql' : \E u \in Unfollower : pair[u] = p /\ pc'[u] = "deleted"
  /\ \A u \in Unfollower :
       pc[u] \notin {"find", "nothing"} => pc'[u] \notin {"find", "nothing"}
<1> SUFFICES Goal
  OBVIOUS
<1>1. TypeOK /\ PcsInv
  BY DEF BaseInv
<1>2. Follower \cap Unfollower = {} /\ Request = Follower \cup Unfollower
  BY InstanceAssumption DEF Request
<1>3. DOMAIN pc = Request /\ DOMAIN at = Request
  BY <1>1 DEF TypeOK
<1> USE DEF Halfway
<1>4. ASSUME pair' = pair, NEW r \in Request, NEW next, pc' = [pc EXCEPT ![r] = next],
             \A q \in Request \ {r} : at'[q] = at[q], mysql' = mysql,
             r \in Follower => next \notin {"put_following", "created"},
             r \in Unfollower => next # "delete_follower" /\ (pc[r] = "find" \/ next \notin {"find", "nothing"}),
             pc[r] \in Halfway => FALSE
      PROVE  Goal
  <2>1. \A q \in Request \ {r} : pc'[q] = pc[q] /\ RowOf(q)' = RowOf(q)
    BY <1>3, <1>4 DEF RowOf
  <2>2. pc'[r] = next
    BY <1>3, <1>4
  <2> QED
    BY <1>2, <1>4, <2>1, <2>2
<1>5. ASSUME NEW r \in Follower, PutFollower(r) PROVE Goal
  <2>1. /\ at' = at /\ pair' = pair /\ mysql' = mysql /\ RowOf(r) \in follower'
        /\ pc[r] = "put_follower" /\ pc' = [pc EXCEPT ![r] = "put_following"]
    BY <1>5 DEF PutFollower, Step, Goto, stores
  <2>2. \A q : RowOf(q)' = RowOf(q)
    BY <2>1 DEF RowOf
  <2> QED
    BY <1>2, <1>3, <2>1, <2>2
<1>6. ASSUME NEW r \in Follower, PutFollowing(r) PROVE Goal
  <2>1. /\ at' = at /\ pair' = pair /\ mysql' = mysql /\ RowOf(r) \in following'
        /\ pc[r] = "put_following" /\ pc' = [pc EXCEPT ![r] = "created"]
    BY <1>6 DEF PutFollowing, Step, Goto, stores
  <2>2. \A q : RowOf(q)' = RowOf(q)
    BY <2>1 DEF RowOf
  <2> QED
    BY <1>2, <1>3, <2>1, <2>2
<1>7. ASSUME NEW u \in Unfollower, DeleteFollowing(u) PROVE Goal
  <2>1. /\ at' = at /\ pair' = pair /\ mysql' = mysql /\ RowOf(u) \notin following'
        /\ pc[u] = "delete_following" /\ pc' = [pc EXCEPT ![u] = "delete_follower"]
    BY <1>7 DEF DeleteFollowing, Step, Goto, stores, SameFollowingKey
  <2>2. \A q : RowOf(q)' = RowOf(q)
    BY <2>1 DEF RowOf
  <2> QED
    BY <1>2, <1>3, <2>1, <2>2
<1>8. ASSUME NEW u \in Unfollower, DeleteFollower(u) PROVE Goal
  <2>1. /\ at' = at /\ pair' = pair /\ mysql' = mysql /\ RowOf(u) \notin follower'
        /\ pc[u] = "delete_follower" /\ pc' = [pc EXCEPT ![u] = "deleted"]
    BY <1>8 DEF DeleteFollower, Step, Goto, stores, SameFollowerKey
  <2>2. \A q : RowOf(q)' = RowOf(q)
    BY <2>1 DEF RowOf
  <2> QED
    BY <1>2, <1>3, <2>1, <2>2
<1>9. ASSUME NEW r \in Follower, Insert(r) PROVE Goal
  <2>1. /\ at' = at /\ pair' = pair /\ mysql' = mysql \cup {pair[r]}
        /\ pc[r] = "write" /\ \E next \in {"error", "created"} : pc' = [pc EXCEPT ![r] = next]
    BY <1>9 DEF Insert, Step, Goto
  <2>2. \A q : RowOf(q)' = RowOf(q)
    BY <2>1 DEF RowOf
  <2> QED
    BY <1>2, <1>3, <2>1, <2>2
<1>10. ASSUME NEW u \in Unfollower, DeleteRow(u) PROVE Goal
  <2>1. /\ at' = at /\ pair' = pair /\ mysql' = mysql \ {pair[u]}
        /\ pc[u] = "delete_row" /\ pc' = [pc EXCEPT ![u] = "deleted"]
    BY <1>10 DEF DeleteRow, Step, Goto
  <2>2. \A q : RowOf(q)' = RowOf(q)
    BY <2>1 DEF RowOf
  <2> QED
    BY <1>2, <1>3, <2>1, <2>2
<1>11. ASSUME NEW r \in Follower, HasFollowed(r) \/ Stamp(r) PROVE Goal
  <2>1. \E next \in {"duplicate", "write", "put_follower"} : pc' = [pc EXCEPT ![r] = next]
    BY <1>11 DEF HasFollowed, Stamp, Step, Goto
  <2>2. /\ pair' = pair /\ mysql' = mysql /\ pc[r] \in {"check", "write"}
        /\ \A q \in Request \ {r} : at'[q] = at[q]
    BY <1>3, <1>11 DEF HasFollowed, Stamp, Step, stores
  <2> QED
    BY <1>2, <1>4, <2>1, <2>2
<1>12. ASSUME NEW u \in Unfollower, Select(u) \/ Find(u) PROVE Goal
  <2>1. \E next \in {"nothing", "delete_row", "delete_following"} : pc' = [pc EXCEPT ![u] = next]
    BY <1>12 DEF Select, Find, Step, Goto
  <2>2. /\ pair' = pair /\ mysql' = mysql /\ pc[u] = "find"
        /\ \A q \in Request \ {u} : at'[q] = at[q]
    BY <1>3, <1>12 DEF Select, Find, Step, stores
  <2> QED
    BY <1>2, <1>4, <2>1, <2>2
<1>13. ASSUME NEW r \in Request, Crash(r) PROVE Goal
  <2>1. /\ at' = at /\ pair' = pair /\ mysql' = mysql
        /\ pc' = [pc EXCEPT ![r] = "crashed"]
    BY <1>13 DEF Crash, Goto, stores
  <2>2. \A q : RowOf(q)' = RowOf(q)
    BY <2>1 DEF RowOf
  <2> QED
    BY <1>2, <1>3, <2>1, <2>2
<1>14. CASE TurnOn \/ Tick \/ UNCHANGED followVars
  <2>1. at' = at /\ pair' = pair /\ mysql' = mysql /\ pc' = pc
    BY <1>14 DEF TurnOn, Tick, followVars, stores
  <2>2. \A q : RowOf(q)' = RowOf(q)
    BY <2>1 DEF RowOf
  <2> QED
    BY <2>1, <2>2
<1> HIDE DEF Goal
<1> QED
  BY <1>5, <1>6, <1>7, <1>8, <1>9, <1>10, <1>11, <1>12, <1>13, <1>14
  DEF FollowNext, FollowStep, UnfollowStep

-----------------------------------------------------------------------------
(* A row that an unfollow has found was put by a request that has been      *)
(* answered, hence not by one that is between its puts.                     *)
LEMMA FoundIsAnswered ==
  ASSUME BaseInv, NEW r \in Follower, pc[r] = "put_following",
         NEW u \in Unfollower, pc[u] = "delete_follower", RowOf(u) = RowOf(r)
  PROVE  FollowerClash(RowOf(r))
<1>1. TypeOK /\ PcsInv /\ (RowOf(r) \in OldRows \/ PutByFollow(RowOf(r)))
  BY DEF BaseInv, OriginInv
<1>2. at[r] > 0 /\ at[r] >= FirstTime /\ RowOf(r).at = at[r]
  BY <1>1 DEF TypeOK, PcsInv, Timed, Request, RowOf
<1>3. RowOf(r) \notin OldRows
  BY <1>1, <1>2, InstanceAssumption DEF Row, TypeOK, Request
<1>4. PICK q \in Follower : RowOf(q) = RowOf(r) /\ pc[q] = "created"
  BY <1>1, <1>3 DEF PutByFollow
<1> QED
  BY <1>2, <1>4 DEF FollowerClash, SameFollowerKey

(* Every step keeps what requests that are halfway know.                    *)
LEMMA BetweenStep == BaseInv /\ BetweenInv /\ [FollowNext]_followVars => BetweenInv'
<1> SUFFICES ASSUME BaseInv, BetweenInv, [FollowNext]_followVars PROVE BetweenInv'
  OBVIOUS
<1>1. \A row : FollowerClash(row) => FollowerClash(row)'
  BY KnownStays DEF BaseInv
<1>2. ASSUME NEW r \in Follower, pc'[r] = "put_following"
      PROVE  RowOf(r)' \in follower' \/ FollowerClash(RowOf(r))'
  <2>1. RowOf(r)' = RowOf(r) /\ (pc[r] = "put_following" \/ RowOf(r) \in follower')
    BY <1>2, RequestsStep
  <2>2. SUFFICES ASSUME pc[r] = "put_following", RowOf(r) \notin follower',
                        RowOf(r) \in follower
                 PROVE  FollowerClash(RowOf(r))
    BY <1>1, <2>1 DEF BetweenInv, FollowerClash
  <2> QED
    BY <2>2, TablesStep, FoundIsAnswered
<1>3. ASSUME NEW u \in Unfollower, pc'[u] = "delete_follower"
      PROVE  RowOf(u)' \notin following' \/ FollowerClash(RowOf(u))'
  <2>1. RowOf(u)' = RowOf(u) /\ (pc[u] = "delete_follower" \/ RowOf(u) \notin following')
    BY <1>3, RequestsStep
  <2>2. SUFFICES ASSUME pc[u] = "delete_follower", RowOf(u) \in following',
                        RowOf(u) \notin following
                 PROVE  FollowerClash(RowOf(u))
    BY <1>1, <2>1 DEF BetweenInv, FollowerClash
  <2> QED
    BY <2>2, TablesStep, FoundIsAnswered
<1> QED
  BY <1>2, <1>3 DEF BetweenInv

(* Every step keeps the followings among the followers.                     *)
LEMMA FollowersStep == IInv /\ [FollowNext]_followVars => FollowingsAreFollowers'
<1> SUFFICES ASSUME IInv, [FollowNext]_followVars, NEW row \in following'
             PROVE  row \in follower' \/ FollowerClash(row)'
  BY DEF FollowingsAreFollowers
<1>1. BaseInv /\ BetweenInv /\ FollowingsAreFollowers
  BY DEF IInv
<1>2. FollowerClash(row) => FollowerClash(row)'
  BY <1>1, KnownStays DEF BaseInv
<1>3. CASE row \notin following
  BY <1>1, <1>2, <1>3, TablesStep DEF BetweenInv
<1>4. CASE row \in following /\ row \in follower \ follower'
  BY <1>1, <1>2, <1>4, TablesStep DEF BetweenInv
<1>5. CASE row \in following /\ row \notin follower \ follower'
  BY <1>1, <1>2, <1>5 DEF FollowingsAreFollowers
<1> QED
  BY <1>3, <1>4, <1>5

(* Every step keeps the reasons for a follower without the following.       *)
LEMMA LoneStep == IInv /\ [FollowNext]_followVars => LoneFollowersExplained'
<1> SUFFICES ASSUME IInv, [FollowNext]_followVars, NEW row \in follower' \ following'
             PROVE  \/ \E r \in Request : RowOf(r)' = row /\ pc'[r] \in Halfway
                    \/ FollowingClash(row)'
  BY DEF LoneFollowersExplained
<1>1. BaseInv /\ LoneFollowersExplained
  BY DEF IInv
<1>2. FollowingClash(row) => FollowingClash(row)'
  BY <1>1, KnownStays DEF BaseInv
<1>3. Follower \subseteq Request /\ Unfollower \subseteq Request
  BY DEF Request
<1>4. CASE row \notin follower
  <2>1. PICK r \in Follower : RowOf(r)' = row /\ pc'[r] = "put_following"
    BY <1>1, <1>4, TablesStep
  <2> QED
    BY <1>3, <2>1 DEF Halfway
<1>5. CASE row \in following
  <2>1. \/ FollowingClash(row)
        \/ \E u \in Unfollower : RowOf(u)' = row /\ pc'[u] = "delete_follower"
    BY <1>1, <1>5, TablesStep
  <2> QED
    BY <1>2, <1>3, <2>1 DEF Halfway
<1>6. CASE row \in follower \ following
  <2>1. \/ \E r \in Request : RowOf(r) = row /\ pc[r] \in Halfway
        \/ FollowingClash(row)
    BY <1>1, <1>6 DEF LoneFollowersExplained
  <2>2. ASSUME NEW r \in Request, RowOf(r) = row, pc[r] \in Halfway
        PROVE  RowOf(r)' = row /\ pc'[r] \in Halfway
    BY <1>1, <2>2, RequestsStep
  <2> QED
    BY <1>2, <2>1, <2>2
<1> QED
  BY <1>4, <1>5, <1>6

(* Every step keeps what was acknowledged.                                  *)
LEMMA StoredStep == IInv /\ [FollowNext]_followVars => AcknowledgedIsStored'
<1> DEFINE Unfollowed(r) ==
             \E u \in Unfollower : pair[u] = pair[r] /\ pc[u] \notin {"find", "nothing"}
<1> SUFFICES ASSUME IInv, [FollowNext]_followVars, NEW r \in Follower, pc'[r] = "created"
             PROVE  \/ pair'[r] \in mysql' \/ RowOf(r)' \in following'
                    \/ Unfollowed(r)' \/ FollowingClash(RowOf(r))'
  BY DEF AcknowledgedIsStored
<1>1. BaseInv /\ AcknowledgedIsStored /\ TypeOK /\ PcsInv
  BY DEF IInv, BaseInv
<1>2. pair' = pair
  BY <1>1, Kept
<1>3. /\ RowOf(r)' = RowOf(r)
      /\ pc[r] = "created" \/ RowOf(r) \in following' \/ pair[r] \in mysql'
  BY <1>1, RequestsStep
<1>4. FollowingClash(RowOf(r)) => FollowingClash(RowOf(r))'
  <2>1. ASSUME NEW row, FollowingClash(row) PROVE FollowingClash(row)'
    BY <1>1, <2>1, KnownStays
  <2> QED
    BY <1>3, <2>1 DEF FollowingClash
<1>5. Unfollowed(r) => Unfollowed(r)'
  BY <1>1, <1>2, RequestsStep
<1>6. CASE pc[r] # "created"
  BY <1>2, <1>3, <1>6
<1>7. CASE pair[r] \in mysql
  <2>1. ASSUME pair[r] \notin mysql' PROVE Unfollowed(r)'
    BY <1>1, <1>2, <1>7, <2>1, RequestsStep
  <2> QED
    BY <1>2, <2>1
<1>8. CASE RowOf(r) \in following
  <2>1. ASSUME RowOf(r) \notin following' PROVE FollowingClash(RowOf(r)) \/ Unfollowed(r)'
    <3>1. \/ FollowingClash(RowOf(r))
          \/ \E u \in Unfollower : RowOf(u) = RowOf(r) /\ pc'[u] = "delete_follower"
      BY <1>1, <1>8, <2>1, TablesStep
    <3>2. \A u \in Unfollower : RowOf(u) = RowOf(r) => pair[u] = pair[r]
      <4>1. \A q \in Request : pair[q] \in Pair
        BY <1>1 DEF TypeOK
      <4> QED
        BY <4>1 DEF Request, Pair, RowOf
    <3> QED
      BY <1>2, <3>1, <3>2
  <2> QED
    BY <1>3, <1>4, <2>1
<1>9. CASE pc[r] = "created"
  BY <1>1, <1>2, <1>3, <1>4, <1>5, <1>7, <1>8, <1>9 DEF AcknowledgedIsStored
<1> QED
  BY <1>6, <1>9

-----------------------------------------------------------------------------
LEMMA InitIInv == FollowInit => IInv
<1> SUFFICES ASSUME FollowInit PROVE IInv
  OBVIOUS
<1>1. TypeOK
  BY InstanceAssumption DEF FollowInit, TypeOK, Request, Ended, Timed, Row
<1>2. PcsInv
  BY InstanceAssumption DEF FollowInit, PcsInv, Request
<1>3. OriginInv /\ BetweenInv
  BY InstanceAssumption DEF FollowInit, OriginInv, BetweenInv, Request
<1>4. FollowingsAreFollowers /\ LoneFollowersExplained
  BY DEF FollowInit, FollowingsAreFollowers, LoneFollowersExplained
<1>5. AcknowledgedIsStored
  BY InstanceAssumption DEF FollowInit, AcknowledgedIsStored, Request
<1> QED
  BY <1>1, <1>2, <1>3, <1>4, <1>5 DEF IInv, BaseInv

LEMMA NextIInv == IInv /\ [FollowNext]_followVars => IInv'
<1> SUFFICES ASSUME IInv, [FollowNext]_followVars PROVE IInv'
  OBVIOUS
<1>1. BaseInv /\ BetweenInv /\ TypeOK /\ PcsInv
  BY DEF IInv, BaseInv
<1>2. TypeOK' /\ PcsInv' /\ OriginInv'
  BY <1>1, TypeStep, PcsStep, OriginStep
<1>3. BetweenInv' /\ FollowingsAreFollowers' /\ LoneFollowersExplained' /\ AcknowledgedIsStored'
  BY <1>1, BetweenStep, FollowersStep, LoneStep, StoredStep
<1> QED
  BY <1>2, <1>3 DEF IInv, BaseInv

-----------------------------------------------------------------------------
(* The inductive invariant: where rows come from, what requests halfway     *)
(* know, and the properties themselves.                                     *)
THEOREM FollowInvariant == FollowSpec => []IInv
  BY InitIInv, NextIInv, PTL DEF FollowSpec

(* Types; who puts or deletes a row has its created_at.                     *)
THEOREM FollowTypes == FollowSpec => []TypeOK
<1>1. IInv => TypeOK
  BY DEF IInv, BaseInv
<1> QED
  BY <1>1, FollowInvariant, PTL

(* For any fans, idols, requests and old rows, with crashes and a switch    *)
(* turned meanwhile: follow and unfollow keep every row of the followings   *)
(* among the followers, up to rows of one key.                              *)
THEOREM FollowingsStayFollowers == FollowSpec => []FollowingsAreFollowers
<1>1. IInv => FollowingsAreFollowers
  BY DEF IInv
<1> QED
  BY <1>1, FollowInvariant, PTL

(* A follower without the following is of a request between its two puts or *)
(* its two deletes, or of one that crashed there, up to rows of one key.    *)
THEOREM LoneFollowersAreHalfway == FollowSpec => []LoneFollowersExplained
<1>1. IInv => LoneFollowersExplained
  BY DEF IInv
<1> QED
  BY <1>1, FollowInvariant, PTL

(* A follow that was answered 201 with its row is stored until its pair is  *)
(* unfollowed or its key is taken, through whichever store it went.         *)
THEOREM AcknowledgedFollowsStored == FollowSpec => []AcknowledgedIsStored
<1>1. IInv => AcknowledgedIsStored
  BY DEF IInv
<1> QED
  BY <1>1, FollowInvariant, PTL

(* Who scrolls through the followings changes none of this: the module of   *)
(* the pages implements that of the tables.                                 *)
THEOREM PagesImplementFollow == Spec => FollowSpec
<1>1. Init => FollowInit
  BY DEF Init
<1>2. [Next]_vars => [FollowNext]_followVars
  BY DEF Next, FollowMeanwhile, vars, PageNext, Home, Scroll, Pull, Leave
<1> QED
  BY <1>1, <1>2, PTL DEF Spec, FollowSpec

-----------------------------------------------------------------------------
(* The pages.  Of any rows with a bound on their times there is an earliest *)
(* and a latest one.                                                        *)
LEMMA LeastTime ==
  ASSUME NEW T, T \subseteq Nat, T # {} PROVE \E t \in T : \A u \in T : t <= u
<1> DEFINE R == OpToRel(<, Nat)
<1>1. IsWellFoundedOn(R, Nat)
  BY NatLessThanWellFounded
<1> HIDE DEF R
<1>2. PICK t \in T : \A u \in T : ~ (<<u, t>> \in R)
  BY <1>1, WFMin
<1>3. \A a, b \in Nat : a < b => <<a, b>> \in R
  BY DEF R, OpToRel
<1>4. \A u \in T : ~ (u < t)
  BY <1>2, <1>3
<1> QED
  BY <1>4

LEMMA EarliestRow ==
  ASSUME NEW S, S \subseteq Row, S # {}
  PROVE  Earliest(S) \in Times(S) /\ \A row \in S : Earliest(S) <= row.at
<1>1. Times(S) \subseteq Nat /\ Times(S) # {}
  BY DEF Times, Row
<1>2. \E t \in Times(S) : \A u \in Times(S) : t <= u
  BY <1>1, LeastTime
<1>3. Earliest(S) \in Times(S) /\ \A u \in Times(S) : Earliest(S) <= u
  BY <1>2 DEF Earliest
<1> QED
  BY <1>3 DEF Times

LEMMA LatestRow ==
  ASSUME NEW S, S \subseteq Row, S # {}, NEW bound \in Nat, \A row \in S : row.at <= bound
  PROVE  /\ Latest(S) \in Times(S) /\ \A row \in S : row.at <= Latest(S)
         /\ \E row \in S : \A other \in S : other.at <= row.at
<1> DEFINE T == Times(S)
           U == {n \in Nat : \A u \in T : u <= n}
<1>1. T \subseteq Nat /\ T # {} /\ bound \in U
  BY DEF Times, Row
<1> HIDE DEF T
<1>2. PICK top \in U : \A n \in U : top <= n
  BY <1>1, LeastTime
<1>3. top \in T
  <2> SUFFICES ASSUME top \notin T PROVE FALSE
    OBVIOUS
  <2>1. top \in Nat /\ \A u \in T : u <= top
    OBVIOUS
  <2>2. (\A u \in T : u < top) /\ top > 0
    <3>1. PICK u \in T : TRUE
      BY <1>1
    <3> HIDE DEF U
    <3> QED
      BY <1>1, <2>1, <3>1
  <2>3. top - 1 \in Nat /\ \A u \in T : u <= top - 1
    <3> HIDE DEF U
    <3> QED
      BY <1>1, <2>1, <2>2
  <2>4. top - 1 \in U
    BY <2>3
  <2> QED
    BY <1>2, <2>1, <2>4
<1>4. Latest(S) \in T /\ \A u \in T : u <= Latest(S)
  BY <1>2, <1>3 DEF Latest, T
<1> QED
  BY <1>4 DEF T, Times

-----------------------------------------------------------------------------
(* Newest(S, n) has with a row all later ones; it is not empty unless S is; *)
(* and unless it has n rows or more, it is all of S.                        *)
LEMMA NewestUpward ==
  ASSUME NEW S, S \subseteq Row, IsFiniteSet(S), NEW n \in Nat,
         NEW row \in S, NEW other \in Newest(S, n), row.at >= other.at
  PROVE  row \in Newest(S, n)
<1> DEFINE Above(r) == {o \in S : o.at > r.at}
<1>1. other \in S /\ Cardinality(Above(other)) < n
  BY DEF Newest
<1>2. Above(row) \subseteq Above(other) /\ Above(row) \subseteq S /\ Above(other) \subseteq S
  BY <1>1 DEF Row
<1>3. /\ Cardinality(Above(row)) <= Cardinality(Above(other))
      /\ Cardinality(Above(row)) \in Nat /\ Cardinality(Above(other)) \in Nat
  BY <1>2, FS_Subset, FS_CardinalityType
<1>4. Cardinality(Above(row)) < n
  BY <1>1, <1>3
<1> QED
  BY <1>4 DEF Newest

LEMMA NewestSome ==
  ASSUME NEW S, S \subseteq Row, S # {}, NEW n \in Nat \ {0},
         NEW bound \in Nat, \A row \in S : row.at <= bound
  PROVE  Newest(S, n) # {}
<1>1. PICK row \in S : \A other \in S : other.at <= row.at
  BY LatestRow
<1>2. {other \in S : other.at > row.at} = {}
  BY <1>1 DEF Row
<1>3. Cardinality({other \in S : other.at > row.at}) < n
  BY <1>2, FS_EmptySet
<1> QED
  BY <1>3 DEF Newest

LEMMA NewestAll ==
  ASSUME NEW S, S \subseteq Row, IsFiniteSet(S), NEW n \in Nat,
         NEW bound \in Nat, \A row \in S : row.at <= bound,
         Cardinality(Newest(S, n)) < n
  PROVE  Newest(S, n) = S
<1> DEFINE N == Newest(S, n)
<1>1. N \subseteq S
  BY DEF Newest
<1> SUFFICES ASSUME S \ N # {} PROVE FALSE
  BY <1>1
<1> HIDE DEF N
<1>2. PICK row \in S \ N : \A other \in S \ N : other.at <= row.at
  <2>1. S \ N \subseteq Row /\ \A other \in S \ N : other.at <= bound
    OBVIOUS
  <2> QED
    BY <2>1, LatestRow
<1> DEFINE Above == {other \in S : other.at > row.at}
<1>3. Above \subseteq N
  BY <1>2 DEF Row
<1>4. IsFiniteSet(N) /\ Cardinality(Above) <= Cardinality(N)
      /\ Cardinality(Above) \in Nat /\ Cardinality(N) \in Nat
  BY <1>1, <1>3, FS_Subset, FS_CardinalityType
<1>5. Cardinality(Above) < n
  BY <1>4 DEF N
<1> QED
  BY <1>2, <1>5 DEF N, Newest

LEMMA NewestFew ==
  ASSUME NEW S, S \subseteq Row, IsFiniteSet(S), NEW n \in Nat, Cardinality(S) <= n
  PROVE  Newest(S, n) = S
<1> SUFFICES ASSUME NEW row \in S PROVE row \in Newest(S, n)
  BY DEF Newest
<1> DEFINE Above == {other \in S : other.at > row.at}
<1>1. Above \subseteq S \ {row}
  BY DEF Row
<1>2. IsFiniteSet(S \ {row}) /\ Cardinality(S \ {row}) = Cardinality(S) - 1
  BY FS_RemoveElement
<1>3. /\ Cardinality(Above) <= Cardinality(S \ {row})
      /\ Cardinality(Above) \in Nat /\ Cardinality(S) \in Nat
  BY <1>1, <1>2, FS_Subset, FS_CardinalityType
<1>4. Cardinality(Above) < n
  BY <1>2, <1>3
<1> QED
  BY <1>4 DEF Newest

(* A page cut out of what a scan found below the cursor: S is what there is *)
(* below it, objects what was found.  Either there is a next page, and all  *)
(* that this one leaves out is older than it; or it leaves out nothing.     *)
LEMMA PageCut ==
  ASSUME NEW S, S \subseteq Row, IsFiniteSet(S), NEW bound \in Nat, \A row \in S : row.at <= bound,
         NEW objects, objects \subseteq S,
         \A row \in S, other \in objects : row.at >= other.at => row \in objects,
         Cardinality(objects) <= PageSize => objects = S
  PROVE  LET page == Newest(objects, PageSize) IN
         /\ page \subseteq S
         /\ Cardinality(objects) > PageSize =>
              page # {} /\ \A row \in S \ page, other \in page : row.at < other.at
         /\ ~(Cardinality(objects) > PageSize) => page = S
<1> DEFINE page == Newest(objects, PageSize)
<1>1. PageSize \in Nat \ {0}
  BY PageAssumption
<1>2. IsFiniteSet(objects) /\ Cardinality(objects) \in Nat /\ objects \subseteq Row
  BY FS_Subset, FS_CardinalityType
<1>3. page \subseteq objects
  BY DEF Newest
<1>4. CASE Cardinality(objects) > PageSize
  <2>1. objects # {}
    BY <1>1, <1>4, FS_EmptySet
  <2>2. page # {}
    BY <1>1, <1>2, <2>1, NewestSome
  <2>3. ASSUME NEW row \in S \ page, NEW other \in page, row.at >= other.at PROVE FALSE
    <3>1. row \in objects
      BY <1>3, <2>3
    <3> QED
      BY <1>1, <1>2, <2>3, <3>1, NewestUpward
  <2>4. \A row \in S : row.at \in Nat
    BY DEF Row
  <2> HIDE DEF page
  <2>5. \A row \in S \ page, other \in page : row.at < other.at
    BY <1>3, <2>3, <2>4
  <2> QED
    BY <1>3, <1>4, <2>2, <2>5 DEF page
<1>5. CASE ~(Cardinality(objects) > PageSize)
  <2>1. objects = S /\ Cardinality(objects) <= PageSize
    BY <1>1, <1>2, <1>5
  <2>2. page = S
    BY <1>1, <1>2, <2>1, NewestFew
  <2> QED
    BY <1>5, <2>2
<1> QED
  BY <1>4, <1>5

-----------------------------------------------------------------------------
(* What the pages need of the table: it is finite, a key has one row, and   *)
(* no row is of the future.                                                 *)
RowsInv ==
  /\ IsFiniteSet(following)
  /\ \A row, other \in following : SameFollowingKey(row, other) => row = other
  /\ \A row \in following : row.at <= clock
  /\ \A r \in Follower : at[r] <= clock

LEMMA RowsStep == TypeOK /\ RowsInv /\ [FollowNext]_followVars => RowsInv'
<1> SUFFICES ASSUME TypeOK, RowsInv, [FollowNext]_followVars PROVE RowsInv'
  OBVIOUS
<1>1. Follower \cap Unfollower = {} /\ Follower \subseteq Request /\ Unfollower \subseteq Request
  BY InstanceAssumption DEF Request
<1>2. ASSUME following' \subseteq following, clock' = clock \/ clock' = clock + 1,
             \A r \in Follower : at'[r] = at[r] \/ at'[r] = clock
      PROVE  RowsInv'
  <2>1. IsFiniteSet(following')
    BY <1>2, FS_Subset DEF RowsInv
  <2>2. clock \in Nat /\ (\A row \in following : row.at \in Nat) /\ \A r \in Follower : at[r] \in Nat
    BY <1>1 DEF TypeOK, Row
  <2>3. \A row \in following' : row.at <= clock'
    BY <1>2, <2>2 DEF RowsInv
  <2>4. \A r \in Follower : at'[r] <= clock'
    BY <1>2, <2>2 DEF RowsInv
  <2> QED
    BY <1>2, <2>1, <2>3, <2>4 DEF RowsInv, SameFollowingKey
<1>3. ASSUME NEW r \in Follower, PutFollowing(r) PROVE RowsInv'
  <2> DEFINE others == {row \in following : ~SameFollowingKey(row, RowOf(r))}
  <2>1. following' = others \cup {RowOf(r)} /\ UNCHANGED <<clock, at>>
    BY <1>3 DEF PutFollowing
  <2>2. IsFiniteSet(others)
    BY FS_Subset DEF RowsInv
  <2>3. IsFiniteSet(following')
    BY <2>1, <2>2, FS_AddElement
  <2>4. RowOf(r).at <= clock
    BY DEF RowsInv, RowOf
  <2> QED
    BY <2>1, <2>3, <2>4 DEF RowsInv, SameFollowingKey
<1>4. ASSUME NEW r \in Follower, HasFollowed(r) \/ Insert(r) \/ Stamp(r) \/ PutFollower(r)
      PROVE  RowsInv'
  BY <1>1, <1>2, <1>4 DEF HasFollowed, Insert, Stamp, PutFollower, stores, TypeOK
<1>5. ASSUME NEW u \in Unfollower, UnfollowStep(u) PROVE RowsInv'
  BY <1>1, <1>2, <1>5
  DEF UnfollowStep, Select, DeleteRow, Find, DeleteFollowing, DeleteFollower, stores, TypeOK
<1>6. CASE (\E r \in Request : Crash(r)) \/ TurnOn \/ Tick \/ UNCHANGED followVars
  BY <1>2, <1>6 DEF Crash, TurnOn, Tick, followVars, stores
<1> QED
  BY <1>3, <1>4, <1>5, <1>6 DEF FollowNext, FollowStep

(* What the client has got, what it still lacks, and that those are older.  *)
PagesInv ==
  /\ phase \in {"home", "scroll", "end", "pulled", "left"}
  /\ shown \subseteq Row /\ \A row \in shown : row.at <= clock
  /\ there \subseteq Rows
  /\ phase = "home" => shown = {}
  /\ phase = "scroll" => shown # {} /\ \A row \in there \ shown, other \in shown : row.at < other.at
  /\ NothingSkipped /\ NoRepeat

ClientInv == TypeOK /\ RowsInv /\ PagesInv

LEMMA RowsFacts ==
  ASSUME TypeOK, RowsInv
  PROVE  /\ Rows \subseteq Row /\ IsFiniteSet(Rows) /\ clock \in Nat
         /\ \A row \in Rows : row.at <= clock
<1>1. Rows \subseteq following
  BY DEF Rows
<1> QED
  BY <1>1, FS_Subset DEF TypeOK, RowsInv

LEMMA HomeStep == ASSUME ClientInv, Home PROVE PagesInv'
<1> DEFINE objects == Newest(Rows, PageSize + 1)
           page    == Newest(objects, PageSize)
           more    == Cardinality(objects) > PageSize
<1>1. /\ Rows \subseteq Row /\ IsFiniteSet(Rows) /\ clock \in Nat
      /\ \A row \in Rows : row.at <= clock
  BY RowsFacts DEF ClientInv
<1>2. PageSize \in Nat \ {0} /\ PageSize + 1 \in Nat \ {0}
  BY PageAssumption
<1>3. objects \subseteq Rows
  BY DEF Newest
<1>4. Cardinality(objects) <= PageSize => objects = Rows
  <2>1. IsFiniteSet(objects) /\ Cardinality(objects) \in Nat
    BY <1>1, <1>3, FS_Subset, FS_CardinalityType
  <2>2. Cardinality(objects) <= PageSize => Cardinality(objects) < PageSize + 1
    BY <1>2, <2>1
  <2> QED
    BY <1>1, <1>2, <2>2, NewestAll
<1>5. \A row \in Rows, other \in objects : row.at >= other.at => row \in objects
  BY <1>1, <1>2, NewestUpward
<1>6. /\ phase' = IF more THEN "scroll" ELSE "end"
      /\ shown' = shown \cup page /\ repeated' = (repeated \/ page \cap shown # {})
      /\ there' = Rows /\ Rows' = Rows /\ clock' = clock
  BY DEF Home, Serve, followVars, stores, Rows
<1> HIDE DEF objects
<1>7. /\ page \subseteq Rows
      /\ more => page # {} /\ \A row \in Rows \ page, other \in page : row.at < other.at
      /\ ~more => page = Rows
  BY <1>1, <1>3, <1>4, <1>5, PageCut
<1> HIDE DEF page, more
<1>8. shown = {}
  BY DEF Home, ClientInv, PagesInv
<1> QED
  BY <1>1, <1>6, <1>7, <1>8 DEF ClientInv, PagesInv, NothingSkipped, NoRepeat

LEMMA ScrollStep == ASSUME ClientInv, Scroll PROVE PagesInv'
<1> DEFINE cursor  == Earliest(shown)
           found   == Newest(AtMost(Rows, cursor), PageSize + 2)
           objects == {row \in found : row.at # cursor}
           page    == Newest(objects, PageSize)
           more    == Cardinality(objects) > PageSize
           S       == {row \in Rows : row.at < cursor}
<1>1. /\ Rows \subseteq Row /\ IsFiniteSet(Rows) /\ clock \in Nat
      /\ \A row \in Rows : row.at <= clock
  BY RowsFacts DEF ClientInv
<1>2. PageSize \in Nat \ {0} /\ PageSize + 2 \in Nat \ {0}
  BY PageAssumption
<1>3. phase = "scroll" /\ shown # {} /\ shown \subseteq Row /\ there \subseteq Rows
  BY DEF Scroll, ClientInv, PagesInv
<1>4. cursor \in Times(shown) /\ cursor \in Nat /\ \A row \in shown : cursor <= row.at
  BY <1>3, EarliestRow DEF Times, Row
<1>5. /\ phase' = IF more THEN "scroll" ELSE "end"
      /\ shown' = shown \cup page /\ repeated' = (repeated \/ page \cap shown # {})
      /\ there' = there /\ Rows' = Rows /\ clock' = clock
  BY DEF Scroll, Serve, followVars, stores, Rows
<1> HIDE DEF cursor
<1>6. /\ AtMost(Rows, cursor) \subseteq Rows /\ IsFiniteSet(AtMost(Rows, cursor))
      /\ found \subseteq AtMost(Rows, cursor)
      /\ S \subseteq Rows /\ IsFiniteSet(S)
  BY <1>1, FS_Subset DEF AtMost, Newest
<1>7. objects \subseteq S
  BY <1>1, <1>4, <1>6 DEF AtMost, Row
<1>8. ASSUME NEW row \in S, NEW other \in objects, row.at >= other.at PROVE row \in objects
  <2>1. row \in AtMost(Rows, cursor) /\ row.at # cursor
    BY <1>1, <1>4 DEF AtMost, Row
  <2>2. row \in found
    BY <1>1, <1>2, <1>6, <1>8, <2>1, NewestUpward
  <2> QED
    BY <2>1, <2>2
<1>9. ASSUME Cardinality(objects) <= PageSize PROVE objects = S
  <2>1. IsFiniteSet(objects) /\ Cardinality(objects) \in Nat /\ IsFiniteSet(found)
        /\ Cardinality(found) \in Nat
    BY <1>6, <1>7, FS_Subset, FS_CardinalityType
  <2>2. Cardinality(found) <= Cardinality(objects) + 1
    <3>1. CASE \A row \in found : row.at # cursor
      BY <2>1, <3>1
    <3>2. CASE \E row \in found : row.at = cursor
      <4>1. PICK row \in found : row.at = cursor
        BY <3>2
      <4>2. \A other \in found : other.at = cursor => other = row
        BY <1>6, <4>1 DEF ClientInv, RowsInv, Rows, SameFollowingKey
      <4>3. found \subseteq objects \cup {row}
        BY <4>2
      <4> HIDE DEF objects, found
      <4>4. IsFiniteSet(objects \cup {row}) /\ Cardinality(objects \cup {row}) <= Cardinality(objects) + 1
        BY <2>1, FS_AddElement
      <4>5. Cardinality(found) <= Cardinality(objects \cup {row})
            /\ Cardinality(objects \cup {row}) \in Nat
        BY <4>3, <4>4, FS_Subset, FS_CardinalityType
      <4> QED
        BY <2>1, <4>4, <4>5
    <3> QED
      BY <3>1, <3>2
  <2>3. Cardinality(found) < PageSize + 2
    BY <1>2, <1>9, <2>1, <2>2
  <2>4. found = AtMost(Rows, cursor)
    BY <1>1, <1>2, <1>6, <2>3, NewestAll
  <2> QED
    BY <1>1, <1>4, <1>7, <2>4 DEF AtMost, Row
<1> HIDE DEF objects
<1>10. S \subseteq Row /\ \A row \in S : row.at <= clock
  BY <1>1
<1>11. /\ page \subseteq S
       /\ more => page # {} /\ \A row \in S \ page, other \in page : row.at < other.at
       /\ ~more => page = S
  BY <1>1, <1>6, <1>7, <1>8, <1>9, <1>10, PageCut
<1>12. there \ shown \subseteq S
  BY <1>1, <1>3, <1>4 DEF ClientInv, PagesInv, Times
<1>13. page \cap shown = {} /\ \A row \in S, other \in shown : row.at < other.at
  BY <1>1, <1>3, <1>4, <1>11 DEF Row
<1>14. NoRepeat'
  BY <1>5, <1>13 DEF ClientInv, PagesInv, NoRepeat
<1>15. NothingSkipped'
  BY <1>5, <1>11, <1>12 DEF NothingSkipped
<1>16. phase' = "scroll" =>
         shown' # {} /\ \A row \in there' \ shown', other \in shown' : row.at < other.at
  BY <1>3, <1>5, <1>11, <1>12, <1>13
<1>17. shown' \subseteq Row /\ (\A row \in shown' : row.at <= clock') /\ there' \subseteq Rows'
  BY <1>3, <1>5, <1>10, <1>11 DEF ClientInv, PagesInv
<1> QED
  BY <1>5, <1>14, <1>15, <1>16, <1>17 DEF PagesInv

LEMMA PullStep == ASSUME ClientInv, Pull PROVE PagesInv'
<1> DEFINE cursor  == Latest(shown)
           objects == {row \in AtLeast(Rows, cursor) : row.at # cursor}
<1>1. /\ Rows \subseteq Row /\ clock \in Nat
      /\ \A row \in Rows : row.at <= clock
  BY RowsFacts DEF ClientInv
<1>2. /\ phase = "end" /\ shown # {} /\ shown \subseteq Row /\ there \subseteq Rows
      /\ \A row \in shown : row.at <= clock
  BY DEF Pull, ClientInv, PagesInv
<1>3. cursor \in Times(shown) /\ cursor \in Nat /\ \A row \in shown : row.at <= cursor
  BY <1>1, <1>2, LatestRow DEF Times, Row
<1>4. /\ phase' = "pulled" /\ shown' = shown \cup objects
      /\ repeated' = (repeated \/ objects \cap shown # {})
      /\ there' = there \cup {row \in Rows : row.at > cursor}
      /\ Rows' = Rows /\ clock' = clock
  BY DEF Pull, Serve, followVars, stores, Rows
<1> HIDE DEF cursor
<1>5. objects = {row \in Rows : row.at > cursor}
  BY <1>1, <1>3 DEF AtLeast, Row
<1> HIDE DEF objects
<1>6. objects \cap shown = {} /\ objects \subseteq Rows
  BY <1>1, <1>2, <1>3, <1>5 DEF Row
<1>7. there \subseteq shown
  BY <1>2 DEF ClientInv, PagesInv, NothingSkipped
<1>8. there' \subseteq shown' /\ there' \subseteq Rows /\ ~repeated'
  BY <1>2, <1>4, <1>5, <1>6, <1>7 DEF ClientInv, PagesInv, NoRepeat
<1>9. shown' \subseteq Row /\ \A row \in shown' : row.at <= clock
  BY <1>1, <1>2, <1>4, <1>6
<1> QED
  BY <1>4, <1>8, <1>9 DEF PagesInv, NothingSkipped, NoRepeat

LEMMA PagesStep == ClientInv /\ [Next]_vars => ClientInv'
<1> SUFFICES ASSUME ClientInv, [Next]_vars PROVE ClientInv'
  OBVIOUS
<1>1. [FollowNext]_followVars
  BY DEF Next, FollowMeanwhile, vars, PageNext, Home, Scroll, Pull, Leave
<1>2. TypeOK' /\ RowsInv'
  BY <1>1, TypeStep, RowsStep DEF ClientInv
<1>3. ASSUME UNCHANGED <<shown, repeated>>, there' \subseteq there \cap following',
             phase' = phase \/ (phase' = "left" /\ phase # "pulled"), clock' >= clock
      PROVE  PagesInv'
  <2>1. clock \in Nat /\ clock' \in Nat /\ \A row \in shown : row.at \in Nat /\ row.at <= clock
    BY <1>2 DEF ClientInv, TypeOK, PagesInv, Row
  <2>2. \A row \in shown' : row.at <= clock'
    BY <1>3, <2>1
  <2>3. there' \subseteq Rows'
    BY <1>3 DEF ClientInv, PagesInv, Rows
  <2> QED
    BY <1>3, <2>2, <2>3 DEF ClientInv, PagesInv, NothingSkipped, NoRepeat
<1>4. CASE FollowMeanwhile
  <2>1. clock \in Nat
    BY DEF ClientInv, TypeOK
  <2>2. clock' = clock \/ clock' = clock + 1
    BY <1>4 DEF FollowMeanwhile, FollowNext, FollowStep, HasFollowed, Insert, Stamp, PutFollower,
         PutFollowing, UnfollowStep, Select, DeleteRow, Find, DeleteFollowing, DeleteFollower,
         Crash, TurnOn, Tick
  <2>3. PagesInv'
    BY <1>3, <1>4, <2>1, <2>2 DEF FollowMeanwhile
  <2> QED
    BY <1>2, <2>3 DEF ClientInv
<1>5. CASE Leave \/ UNCHANGED vars
  <2>1. /\ UNCHANGED <<shown, repeated, there, clock, following>>
        /\ phase' = phase \/ (phase' = "left" /\ phase # "pulled")
    BY <1>5 DEF Leave, vars, pageVars, followVars, stores
  <2>2. clock \in Nat /\ there \subseteq following
    BY DEF ClientInv, TypeOK, PagesInv, Rows
  <2>3. PagesInv'
    BY <1>3, <2>1, <2>2
  <2> QED
    BY <1>2, <2>3 DEF ClientInv
<1>6. CASE Home \/ Scroll \/ Pull
  BY <1>2, <1>6, HomeStep, ScrollStep, PullStep DEF ClientInv
<1> QED
  BY <1>4, <1>5, <1>6 DEF Next, PageNext

LEMMA PagesStart == Init => ClientInv
<1> SUFFICES ASSUME Init PROVE ClientInv
  OBVIOUS
<1>1. TypeOK
  BY InitIInv DEF Init, IInv, BaseInv
<1>2. following \subseteq OldRows /\ clock = FirstTime /\ at = [r \in Request |-> 0]
  BY DEF Init, FollowInit
<1>3. IsFiniteSet(following)
  BY <1>2, PageAssumption, FS_Subset
<1>4. RowsInv
  BY <1>2, <1>3, InstanceAssumption DEF RowsInv, SameFollowingKey, Request, Row
<1>5. PagesInv
  BY DEF Init, PagesInit, PagesInv, NothingSkipped, NoRepeat
<1> QED
  BY <1>1, <1>4, <1>5 DEF ClientInv

LEMMA PagesInvariant == Spec => []ClientInv
  BY PagesStart, PagesStep, PTL DEF Spec

(* For any fans, requests and page size, whatever is put and deleted around *)
(* the cursor: a client that has come to the end, or has pulled, has every  *)
(* row that it found there and nobody has deleted.                          *)
THEOREM PagesSkipNothing == Spec => []NothingSkipped
<1>1. ClientInv => NothingSkipped
  BY DEF ClientInv, PagesInv
<1> QED
  BY <1>1, PagesInvariant, PTL

(* And no page repeats a row of an earlier one.                             *)
THEOREM PagesNeverRepeat == Spec => []NoRepeat
<1>1. ClientInv => NoRepeat
  BY DEF ClientInv, PagesInv
<1> QED
  BY <1>1, PagesInvariant, PTL

-----------------------------------------------------------------------------
(* The keys.  Powers of ten, and the digits of a number.                    *)

(* A function that is defined from one argument to the next one exists: the *)
(* powers up to m do, for the least m without them would have the powers up *)
(* to m - 1, and one more.                                                  *)
PowersTo(v, m) ==
  /\ v \in [0..m -> Nat \ {0}]
  /\ v[0] = 1
  /\ \A i \in 1..m : v[i] = 10 * v[i - 1]

LEMMA PowersUpTo == \A m \in Nat : \E v : PowersTo(v, m)
<1> DEFINE T == {m \in Nat : ~ \E v : PowersTo(v, m)}
<1> SUFFICES ASSUME T # {} PROVE FALSE
  OBVIOUS
<1>1. PICK t \in T : \A u \in T : t <= u
  BY LeastTime
<1>2. CASE t = 0
  <2>1. PowersTo([i \in 0..0 |-> 1], 0)
    BY DEF PowersTo
  <2> QED
    BY <1>2, <2>1
<1>3. CASE t # 0
  <2>1. t \in Nat /\ t - 1 \in Nat /\ t - 1 \notin T
    BY <1>1, <1>3
  <2>2. PICK v : PowersTo(v, t - 1)
    BY <2>1
  <2> DEFINE w == [i \in 0..t |-> IF i = t THEN 10 * v[t - 1] ELSE v[i]]
  <2>3. \A i \in 0..(t - 1) : i \in 0..t /\ i # t /\ v[i] \in Nat \ {0}
    BY <2>1, <2>2 DEF PowersTo
  <2>4. t - 1 \in 0..(t - 1) /\ 0 \in 0..(t - 1) /\ \A i \in 0..t : i = t \/ i \in 0..(t - 1)
    BY <2>1
  <2>5. w[t] = 10 * v[t - 1] /\ \A i \in 0..(t - 1) : w[i] = v[i]
    BY <2>1, <2>3
  <2>6. w \in [0..t -> Nat \ {0}]
    BY <2>3, <2>4
  <2> HIDE DEF w
  <2>7. ASSUME NEW i \in 1..t PROVE w[i] = 10 * w[i - 1]
    <3>1. CASE i = t
      BY <3>1, <2>4, <2>5
    <3>2. CASE i # t
      <4>1. i \in 1..(t - 1) /\ i \in 0..(t - 1) /\ i - 1 \in 0..(t - 1)
        BY <2>1, <3>2
      <4>2. v[i] = 10 * v[i - 1]
        BY <4>1, <2>2 DEF PowersTo
      <4> QED
        BY <4>1, <4>2, <2>5
    <3> QED
      BY <3>1, <3>2
  <2>8. w[0] = 1
    BY <2>2, <2>4, <2>5 DEF PowersTo
  <2>9. PowersTo(w, t)
    BY <2>6, <2>7, <2>8 DEF PowersTo
  <2> QED
    BY <2>9
<1> QED
  BY <1>2, <1>3

(* Two such functions have the same powers.                                 *)
LEMMA PowersAgree ==
  ASSUME NEW v, NEW w, NEW m \in Nat, NEW n \in Nat, m <= n,
         PowersTo(v, m), PowersTo(w, n)
  PROVE  \A i \in 0..m : v[i] = w[i]
<1> DEFINE T == {i \in 0..m : v[i] # w[i]}
<1> SUFFICES ASSUME T # {} PROVE FALSE
  OBVIOUS
<1>1. PICK t \in T : \A u \in T : t <= u
  <2>1. T \subseteq Nat
    OBVIOUS
  <2> QED
    BY <2>1, LeastTime
<1>2. t # 0
  BY DEF PowersTo
<1>3. t \in 1..m /\ t \in 1..n /\ t - 1 \in 0..m /\ t - 1 \notin T
  BY <1>1, <1>2
<1>4. v[t] = 10 * v[t - 1] /\ w[t] = 10 * w[t - 1] /\ v[t - 1] = w[t - 1]
  BY <1>3 DEF PowersTo
<1> QED
  BY <1>4

LEMMA TenFacts ==
  /\ Ten[0] = 1
  /\ \A k \in Nat : Ten[k] \in Nat \ {0} /\ Ten[k + 1] = 10 * Ten[k]
<1> DEFINE Is(f) == f = [k \in Nat |-> IF k = 0 THEN 1 ELSE 10 * f[k - 1]]
           up == [k \in Nat |-> CHOOSE v : PowersTo(v, k)]
           f == [k \in Nat |-> up[k][k]]
<1>1. \A k \in Nat : PowersTo(up[k], k)
  BY PowersUpTo, Zenon
<1> HIDE DEF up
<1>2. f[0] = 1
  BY <1>1 DEF PowersTo
<1>3. ASSUME NEW k \in Nat, k # 0 PROVE f[k] = 10 * f[k - 1]
  <2>1. k - 1 \in Nat /\ k - 1 <= k /\ k - 1 \in 0..(k - 1) /\ k \in 1..k
    BY <1>3
  <2>2. PowersTo(up[k], k) /\ PowersTo(up[k - 1], k - 1)
    BY <1>1, <2>1
  <2>3. \A i \in 0..(k - 1) : up[k - 1][i] = up[k][i]
    BY <2>1, <2>2, PowersAgree
  <2>4. up[k][k] = 10 * up[k][k - 1]
    BY <2>1, <2>2 DEF PowersTo
  <2> QED
    BY <2>1, <2>3, <2>4
<1>4. Is(f)
  <2> DEFINE g == [k \in Nat |-> IF k = 0 THEN 1 ELSE 10 * f[k - 1]]
  <2>1. \A k \in Nat : f[k] = g[k]
    <3> HIDE DEF f
    <3>1. \A k \in Nat : g[k] = IF k = 0 THEN 1 ELSE 10 * f[k - 1]
      OBVIOUS
    <3> QED
      BY <1>2, <1>3, <3>1
  <2>2. f = [k \in Nat |-> f[k]] /\ g = [k \in Nat |-> g[k]]
    OBVIOUS
  <2> QED
    BY <2>1, <2>2
<1>5. Ten = CHOOSE h : Is(h)
  BY Zenon DEF Ten
<1> HIDE DEF f
<1>6. Is(Ten)
  <2> HIDE DEF Is
  <2> QED
    BY <1>4, <1>5
<1>7. \A k \in Nat : Ten[k] = IF k = 0 THEN 1 ELSE 10 * Ten[k - 1]
  BY <1>6
<1> HIDE DEF Is
<1>8. Ten[0] = 1
  BY <1>7
<1>9. ASSUME NEW k \in Nat PROVE Ten[k + 1] = 10 * Ten[k]
  <2>1. k + 1 \in Nat /\ k + 1 # 0 /\ k + 1 - 1 = k
    OBVIOUS
  <2> QED
    BY <1>7, <2>1
<1>10. ASSUME NEW k \in Nat PROVE Ten[k] \in Nat \ {0}
  <2> DEFINE T == {j \in Nat : Ten[j] \notin Nat \ {0}}
  <2> SUFFICES ASSUME T # {} PROVE FALSE
    OBVIOUS
  <2>1. PICK t \in T : \A u \in T : t <= u
    BY LeastTime
  <2>2. t # 0
    BY <1>8
  <2>3. t \in Nat /\ t - 1 \in Nat /\ t - 1 \notin T
    BY <2>1, <2>2
  <2>4. Ten[t - 1] \in Nat \ {0} /\ Ten[t] = 10 * Ten[t - 1]
    BY <2>2, <2>3, <1>7
  <2> QED
    BY <2>4
<1> QED
  BY <1>8, <1>9, <1>10

Rest(n, k) == n \div Ten[k]

LEMMA TenGrows ==
  ASSUME NEW j \in Nat, NEW k \in Nat, j <= k
  PROVE  Ten[j] <= Ten[k]
<1> DEFINE T == {l \in Nat : j <= l /\ ~(Ten[j] <= Ten[l])}
<1>0. Width + Sizes \in Nat
  BY KeyAssumption
<1> SUFFICES ASSUME T # {} PROVE FALSE
  OBVIOUS
<1>1. PICK t \in T : \A u \in T : t <= u
  <2>1. T \subseteq Nat
    OBVIOUS
  <2> QED
    BY <2>1, LeastTime
<1>2. t # j
  BY <1>0, TenFacts
<1>3. t - 1 \in Nat /\ j <= t - 1 /\ t - 1 + 1 = t
  BY <1>0, <1>1, <1>2
<1>4. Ten[j] <= Ten[t - 1]
  <2>1. t - 1 \notin T
    BY <1>1, <1>3, <1>0
  <2> QED
    BY <2>1, <1>3
<1>5. Ten[t] = 10 * Ten[t - 1] /\ Ten[t - 1] \in Nat
  BY <1>3, TenFacts
<1>6. Ten[j] <= Ten[t]
  BY <1>4, <1>5, TenFacts
<1> QED
  BY <1>6

LEMMA DivisionByTen ==
  ASSUME NEW n \in Nat, NEW b \in Nat \ {0}
  PROVE  /\ n \div b \in Nat
         /\ b * (n \div b) <= n
         /\ n < b * (n \div b) + b
BY SMTT(30)

(* n without its last k digits ends with its (k + 1)st digit from the right.*)
LEMMA RestFacts ==
  ASSUME NEW n \in Nat, NEW k \in Nat
  PROVE  /\ Rest(n, k) \in Nat
         /\ n < Ten[k] => Rest(n, k) = 0
         /\ Ten[k] <= n => Rest(n, k) > 0
         /\ n < 10 * Ten[k] => Rest(n, k) < 10
<1> DEFINE b == Ten[k]
           a == n \div b
<1>1. b \in Nat \ {0}
  BY TenFacts
<1> HIDE DEF b
<1>2. a \in Nat /\ b * a <= n /\ n < b * a + b
  BY <1>1, DivisionByTen
<1> HIDE DEF a
<1>3. n < b => a = 0
  <2>1. a > 0 => b * a >= b
    BY <1>1, <1>2
  <2> QED
    BY <2>1, <1>1, <1>2
<1>4. b <= n => a > 0
  <2>1. a = 0 => b * a = 0
    BY <1>1
  <2> QED
    BY <2>1, <1>1, <1>2
<1>5. n < 10 * b => a < 10
  <2>1. a >= 10 => b * a >= b * 10
    BY <1>1, <1>2
  <2> QED
    BY <2>1, <1>1, <1>2
<1> QED
  BY <1>2, <1>3, <1>4, <1>5 DEF a, b, Rest

LEMMA RestDigit ==
  ASSUME NEW n \in Nat, NEW k \in Nat, k + 1 \in Nat
  PROVE  /\ Rest(n, k) = 10 * Rest(n, k + 1) + (Rest(n, k) % 10)
         /\ Rest(n, k) % 10 \in 0..9
<1> DEFINE b == Ten[k]
           a == n \div b
           c == n \div (10 * b)
<1>1. b \in Nat \ {0} /\ Ten[k + 1] = 10 * b
  BY TenFacts
<1> HIDE DEF b
<1>2. a \in Nat /\ b * a <= n /\ n < b * a + b
  BY <1>1, DivisionByTen
<1>3. c \in Nat /\ (10 * b) * c <= n /\ n < (10 * b) * c + 10 * b
  <2>1. 10 * b \in Nat \ {0}
    BY <1>1
  <2> QED
    BY <2>1, DivisionByTen
<1> HIDE DEF a, c
<1>4. 10 * c <= a
  <2>1. (10 * b) * c = b * (10 * c)
    BY <1>1, <1>3
  <2>2. a + 1 <= 10 * c => b * (a + 1) <= b * (10 * c)
    BY <1>1, <1>2, <1>3
  <2>3. b * (a + 1) = b * a + b
    BY <1>1, <1>2
  <2> QED
    BY <2>1, <2>2, <2>3, <1>1, <1>2, <1>3
<1>5. a <= 10 * c + 9
  <2>1. (10 * b) * c + 10 * b = b * (10 * c + 10)
    BY <1>1, <1>3
  <2>2. 10 * c + 10 <= a => b * (10 * c + 10) <= b * a
    BY <1>1, <1>2, <1>3
  <2> QED
    BY <2>1, <2>2, <1>1, <1>2, <1>3
<1>6. a % 10 = a - 10 * c
  BY <1>2, <1>3, <1>4, <1>5
<1>7. Rest(n, k) = a /\ Rest(n, k + 1) = c
  BY <1>1 DEF Rest, a, b, c
<1>8. a = 10 * c + (a - 10 * c) /\ a - 10 * c \in 0..9
  BY <1>2, <1>3, <1>4, <1>5
<1>9. a = 10 * c + (a % 10)
  BY <1>2, <1>3, <1>6, <1>8
<1>10. a % 10 \in 0..9
  BY <1>6, <1>8
<1> QED
  BY <1>7, <1>9, <1>10

(* The text of len digits that says n, with zeros before if it is too long. *)
Writes(text, n, len) ==
  /\ len \in Nat /\ n \in 0..(Ten[len] - 1)
  /\ text \in Seq(0..9) /\ Len(text) = len
  /\ \A i \in 1..len : text[i] = Rest(n, len - i) % 10

LEMMA SizeFacts ==
  ASSUME NEW n \in Nat, n < Ten[Sizes]
  PROVE  /\ Size(n) \in 1..Sizes /\ n < Ten[Size(n)]
         /\ Size(n) = 1 \/ Ten[Size(n) - 1] <= n
<1>0. Sizes \in Nat \ {0} /\ Width \in Nat
  BY KeyAssumption
<1> DEFINE T == {k \in 1..Sizes : n < Ten[k]}
<1>1. Sizes \in T
  BY <1>0
<1>2. PICK k \in T : \A l \in T : k <= l
  <2>1. T \subseteq Nat /\ T # {}
    BY <1>1
  <2> QED
    BY <2>1, LeastTime
<1>3. k = 1 \/ Ten[k - 1] <= n
  <2> SUFFICES ASSUME k # 1 PROVE Ten[k - 1] <= n
    OBVIOUS
  <2>1. k - 1 \in 1..Sizes /\ k - 1 \notin T
    BY <1>0, <1>2
  <2>2. Ten[k - 1] \in Nat
    BY <1>0, <2>1, TenFacts
  <2> QED
    BY <2>1, <2>2
<1>4. \E l \in 1..Sizes : n < Ten[l] /\ (l = 1 \/ n >= Ten[l - 1])
  <2>1. Ten[k - 1] <= n <=> n >= Ten[k - 1]
    OBVIOUS
  <2> QED
    BY <1>2, <1>3, <2>1
<1>5. /\ Size(n) \in 1..Sizes /\ n < Ten[Size(n)]
      /\ Size(n) = 1 \/ n >= Ten[Size(n) - 1]
  BY <1>4 DEF Size
<1> QED
  BY <1>5

LEMMA DigitsSay ==
  ASSUME NEW n \in Nat, n < Ten[Sizes]
  PROVE  Writes(Digits(n), n, Size(n))
<1>0. Sizes \in Nat \ {0} /\ Width \in Nat
  BY KeyAssumption
<1>1. Size(n) \in 1..Sizes /\ n < Ten[Size(n)]
  BY SizeFacts
<1>2. Size(n) \in Nat /\ \A i \in 1..Size(n) : Size(n) - i \in Nat /\ Size(n) - i + 1 \in Nat
  BY <1>0, <1>1
<1>3. \A i \in 1..Size(n) : Rest(n, Size(n) - i) % 10 \in 0..9
  BY <1>2, RestDigit
<1>4. Digits(n) = [i \in 1..Size(n) |-> Rest(n, Size(n) - i) % 10]
  BY DEF Digits, Rest, Ten
<1>5. Digits(n) \in Seq(0..9) /\ Len(Digits(n)) = Size(n)
  BY <1>1, <1>3, <1>4
<1>6. Ten[Size(n)] \in Nat
  BY <1>2, TenFacts
<1> QED
  BY <1>1, <1>2, <1>4, <1>5, <1>6 DEF Writes

LEMMA Joined ==
  ASSUME NEW S, NEW s \in Seq(S), NEW t \in Seq(S)
  PROVE  /\ s \o t \in Seq(S) /\ Len(s \o t) = Len(s) + Len(t)
         /\ \A i \in 1..Len(s) : (s \o t)[i] = s[i]
         /\ \A i \in 1..Len(t) : (s \o t)[Len(s) + i] = t[i]
OBVIOUS

LEMMA PaddedSays ==
  ASSUME NEW n \in Nat, n < Ten[Sizes], Size(n) <= Width
  PROVE  Writes(Padded(n), n, Width)
<1> DEFINE k == Size(n)
           zeros == [i \in 1..(Width - k) |-> 0]
<1>0. Sizes \in Nat \ {0} /\ Width \in Nat
  BY KeyAssumption
<1>1. Writes(Digits(n), n, k)
  BY DigitsSay
<1>2. k \in 1..Sizes /\ k <= Width /\ n < Ten[k]
  BY SizeFacts
<1>3. Padded(n) = zeros \o Digits(n)
  <2>1. CASE Size(n) < Width
    BY <2>1 DEF Padded
  <2>2. CASE ~(Size(n) < Width)
    <3>1. Width - k = 0
      BY <2>2, <1>0, <1>2
    <3> QED
      BY <2>2, <3>1 DEF Padded
  <2> QED
    BY <2>1, <2>2
<1> HIDE DEF k
<1>4. zeros \in Seq(0..9) /\ Len(zeros) = Width - k /\ \A i \in 1..(Width - k) : zeros[i] = 0
  BY <1>0, <1>2
<1> HIDE DEF zeros
<1>5. Digits(n) \in Seq(0..9) /\ Len(Digits(n)) = k
  BY <1>1 DEF Writes
<1>6. Padded(n) \in Seq(0..9) /\ Len(Padded(n)) = Width
  <2>1. zeros \o Digits(n) \in Seq(0..9) /\ Len(zeros \o Digits(n)) = Width - k + k
    BY <1>4, <1>5, Joined
  <2> QED
    BY <2>1, <1>0, <1>2, <1>3
<1>7. \A i \in 1..Width : Padded(n)[i] = IF i <= Width - k THEN 0 ELSE Digits(n)[i - (Width - k)]
  <2> TAKE i \in 1..Width
  <2>1. CASE i <= Width - k
    <3>1. i \in 1..Len(zeros)
      BY <2>1, <1>0, <1>2, <1>4
    <3>2. (zeros \o Digits(n))[i] = zeros[i]
      BY <3>1, <1>4, <1>5, Joined
    <3>3. zeros[i] = 0
      BY <3>1, <1>4
    <3> QED
      BY <2>1, <3>2, <3>3, <1>3
  <2>2. CASE ~(i <= Width - k)
    <3> DEFINE j == i - (Width - k)
    <3>1. j \in 1..Len(Digits(n)) /\ Len(zeros) + j = i
      BY <2>2, <1>0, <1>2, <1>4, <1>5
    <3> HIDE DEF j
    <3>2. (zeros \o Digits(n))[Len(zeros) + j] = Digits(n)[j]
      BY <3>1, <1>4, <1>5, Joined
    <3>3. Padded(n)[i] = Digits(n)[j]
      BY <3>1, <3>2, <1>3
    <3> QED
      BY <2>2, <3>3 DEF j
  <2> QED
    BY <2>1, <2>2
<1>8. Width \in Nat /\ k \in Nat
  BY <1>0, <1>2
<1>9. ASSUME NEW i \in 1..Width PROVE Padded(n)[i] = Rest(n, Width - i) % 10
  <2>0. Width - i \in Nat
    BY <1>0
  <2>1. CASE i <= Width - k
    <3>0. k <= Width - i
      BY <2>1, <1>0, <1>8
    <3>1. Ten[k] <= Ten[Width - i]
      BY <2>0, <3>0, <1>8, TenGrows
    <3>2. Ten[k] \in Nat /\ Ten[Width - i] \in Nat
      BY <2>0, <1>8, TenFacts
    <3>3. n < Ten[Width - i]
      BY <3>1, <3>2, <1>2
    <3>4. Rest(n, Width - i) = 0
      BY <2>0, <3>3, RestFacts
    <3> QED
      BY <2>1, <3>4, <1>7
  <2>2. CASE ~(i <= Width - k)
    <3>1. i - (Width - k) \in 1..k /\ k - (i - (Width - k)) = Width - i
      BY <2>2, <1>0, <1>2
    <3> QED
      BY <2>2, <3>1, <1>1, <1>7 DEF Writes
  <2> QED
    BY <2>1, <2>2
<1>10. n \in 0..(Ten[Width] - 1)
  <2>1. Ten[k] <= Ten[Width] /\ Ten[k] \in Nat /\ Ten[Width] \in Nat
    BY <1>2, <1>8, TenGrows, TenFacts
  <2> QED
    BY <2>1, <1>2
<1> QED
  BY <1>6, <1>8, <1>9, <1>10 DEF Writes

(* Whoever reads such a text reads n.                                       *)
LEMMA NumberRead ==
  ASSUME NEW text, NEW n, NEW len, Writes(text, n, len)
  PROVE  NumberOf(text) = n
<1> DEFINE Values(v) == v = [i \in 0..Len(text) |-> IF i = 0 THEN 0 ELSE 10 * v[i - 1] + text[i]]
           u == [i \in 0..len |-> Rest(n, len - i)]
<1>0. Width + Sizes \in Nat
  BY KeyAssumption
<1>1. /\ len \in Nat /\ len \in Nat /\ n \in Nat /\ n < Ten[len] /\ Len(text) = len
      /\ \A i \in 1..len : text[i] = Rest(n, len - i) % 10
  <2>1. Ten[len] \in Nat
    BY TenFacts DEF Writes
  <2> QED
    BY <2>1 DEF Writes
<1>2. u[0] = 0 /\ \A i \in 1..len : u[i] = 10 * u[i - 1] + text[i]
  <2>1. u[0] = 0
    <3>1. Rest(n, len) = 0
      BY <1>1, RestFacts
    <3>2. 0 \in 0..len /\ len - 0 = len
      BY <1>1
    <3> QED
      BY <3>1, <3>2
  <2>2. ASSUME NEW i \in 1..len PROVE u[i] = 10 * u[i - 1] + text[i]
    <3>1. len - i \in Nat /\ len - i + 1 \in Nat /\ len - i + 1 = len - (i - 1)
      BY <1>0, <1>1
    <3>2. Rest(n, len - i) = 10 * Rest(n, len - i + 1) + (Rest(n, len - i) % 10)
      BY <3>1, <1>1, RestDigit
    <3>3. u[i] = Rest(n, len - i) /\ u[i - 1] = Rest(n, len - (i - 1))
      BY <1>1
    <3> QED
      BY <3>1, <3>2, <3>3, <1>1
  <2> QED
    BY <2>1, <2>2
<1>3. u[len] = n
  <2>1. Rest(n, 0) = n
    BY <1>1, TenFacts DEF Rest
  <2> QED
    BY <2>1, <1>1
<1>4. Values(u)
  <2> DEFINE w == [i \in 0..len |-> IF i = 0 THEN 0 ELSE 10 * u[i - 1] + text[i]]
  <2>1. \A i \in 0..len : u[i] = w[i]
    <3>1. \A i \in 0..len : i = 0 \/ i \in 1..len
      BY <1>1
    <3> HIDE DEF u
    <3>2. 0 \in 0..len /\ \A i \in 0..len : w[i] = IF i = 0 THEN 0 ELSE 10 * u[i - 1] + text[i]
      BY <1>1
    <3> QED
      BY <3>1, <3>2, <1>2
  <2>2. u = [i \in 0..len |-> u[i]] /\ w = [i \in 0..len |-> w[i]]
    OBVIOUS
  <2>3. u = w
    BY <2>1, <2>2
  <2> QED
    BY <2>3, <1>1
<1> HIDE DEF u
<1>5. ASSUME NEW v, Values(v) PROVE v[len] = n
  <2>1. v[0] = 0 /\ \A i \in 1..len : v[i] = 10 * v[i - 1] + text[i]
    BY <1>1, <1>5
  <2> DEFINE T == {i \in 0..len : v[i] # u[i]}
  <2>2. T = {}
    <3> SUFFICES ASSUME T # {} PROVE FALSE
      OBVIOUS
    <3>1. PICK t \in T : \A i \in T : t <= i
      <4>1. T \subseteq Nat
        OBVIOUS
      <4> QED
        BY <4>1, LeastTime
    <3>2. t \in 1..len /\ t - 1 \in 0..len /\ t - 1 \notin T
      BY <3>1, <2>1, <1>1, <1>2
    <3>3. v[t - 1] = u[t - 1]
      BY <3>2
    <3>4. v[t] = u[t]
      BY <3>2, <3>3, <2>1, <1>2
    <3> QED
      BY <3>1, <3>4
  <2>3. v[len] = u[len]
    BY <2>2, <1>1
  <2> QED
    BY <2>3, <1>3
<1> DEFINE value == CHOOSE v : Values(v)
<1>6. NumberOf(text) = value[len]
  BY <1>1, Zenon DEF NumberOf
<1>7. Values(value)
  BY <1>4
<1> HIDE DEF value, Values
<1> QED
  BY <1>5, <1>6, <1>7

(* Texts of one length sort as the numbers that they say.                   *)
LEMMA RestGrows ==
  ASSUME NEW m \in Nat, NEW n \in Nat, m <= n, NEW k \in Nat
  PROVE  Rest(m, k) <= Rest(n, k)
<1> DEFINE b == Ten[k]
           c == m \div b
           d == n \div b
<1>1. b \in Nat \ {0}
  BY TenFacts
<1> HIDE DEF b
<1>2. c \in Nat /\ b * c <= m /\ d \in Nat /\ n < b * d + b
  BY <1>1, DivisionByTen
<1> HIDE DEF c, d
<1>3. d + 1 <= c => b * (d + 1) <= b * c
  BY <1>1, <1>2
<1>4. b * (d + 1) = b * d + b
  BY <1>1, <1>2
<1>5. c <= d
  BY <1>1, <1>2, <1>3, <1>4
<1> QED
  BY <1>5 DEF Rest, b, c, d

LEMMA SortsAsNumbers ==
  ASSUME NEW s, NEW t, NEW m, NEW n, NEW len, Writes(s, m, len), Writes(t, n, len), m < n
  PROVE  \E i \in 1..len : s[i] < t[i] /\ \A j \in 1..(i - 1) : s[j] = t[j]
<1>0. Width + Sizes \in Nat
  BY KeyAssumption
<1>1. /\ len \in Nat /\ len \in Nat /\ m \in Nat /\ n \in Nat /\ n < Ten[len] /\ m < Ten[len]
      /\ \A i \in 1..len : s[i] = Rest(m, len - i) % 10 /\ t[i] = Rest(n, len - i) % 10
  <2>1. Ten[len] \in Nat
    BY TenFacts DEF Writes
  <2> QED
    BY <2>1 DEF Writes
<1>2. len # 0
  BY <1>1, TenFacts
<1> DEFINE T == {i \in 1..len : Rest(m, len - i) # Rest(n, len - i)}
<1>3. len \in T
  <2>1. Rest(m, 0) = m /\ Rest(n, 0) = n
    BY <1>1, TenFacts DEF Rest
  <2> QED
    BY <2>1, <1>1, <1>2
<1>4. PICK i \in T : \A j \in T : i <= j
  <2>1. T \subseteq Nat
    OBVIOUS
  <2> QED
    BY <2>1, <1>3, LeastTime
<1> DEFINE k == len - i
<1>5. i \in 1..len /\ k \in Nat /\ k + 1 \in Nat /\ Rest(m, k) # Rest(n, k)
  BY <1>0, <1>1, <1>4
<1>6. \A j \in 1..(i - 1) : Rest(m, len - j) = Rest(n, len - j)
  BY <1>1, <1>4
<1> HIDE DEF T
<1>7. \A j \in 1..(i - 1) : s[j] = t[j]
  BY <1>1, <1>5, <1>6
<1>8. Rest(m, k + 1) = Rest(n, k + 1)
  <2>1. CASE i = 1
    <3>1. k + 1 = len
      BY <2>1, <1>1
    <3>2. Rest(m, len) = 0 /\ Rest(n, len) = 0
      BY <1>1, RestFacts
    <3> QED
      BY <3>1, <3>2
  <2>2. CASE i # 1
    <3>1. i - 1 \in 1..(i - 1) /\ len - (i - 1) = k + 1
      BY <2>2, <1>1, <1>5
    <3> QED
      BY <3>1, <1>6
  <2> QED
    BY <2>1, <2>2
<1>9. Rest(m, k) <= Rest(n, k) /\ Rest(m, k) \in Nat /\ Rest(n, k) \in Nat
  BY <1>1, <1>5, RestGrows, RestFacts
<1>10. /\ Rest(m, k) = 10 * Rest(m, k + 1) + (Rest(m, k) % 10)
       /\ Rest(n, k) = 10 * Rest(n, k + 1) + (Rest(n, k) % 10)
       /\ Rest(m, k) % 10 \in 0..9 /\ Rest(n, k) % 10 \in 0..9
       /\ Rest(n, k + 1) \in Nat
  BY <1>1, <1>5, RestDigit, RestFacts
<1>11. s[i] = Rest(m, k) % 10 /\ t[i] = Rest(n, k) % 10
  BY <1>1, <1>5
<1> HIDE DEF k
<1>12. Rest(m, k) % 10 < Rest(n, k) % 10
  <2> DEFINE x == Rest(m, k) % 10
             y == Rest(n, k) % 10
             z == 10 * Rest(n, k + 1)
  <2>1. x \in 0..9 /\ y \in 0..9 /\ z \in Nat /\ Rest(m, k) = z + x /\ Rest(n, k) = z + y
    BY <1>8, <1>10
  <2> HIDE DEF x, y, z
  <2>2. x < y
    BY <2>1, <1>5, <1>9
  <2> QED
    BY <2>2 DEF x, y
<1> QED
  BY <1>5, <1>7, <1>11, <1>12

(* Two keys compare as they do where they first differ.                     *)
LEMMA PrefixFacts ==
  ASSUME NEW S, NEW s \in Seq(S), NEW t \in Seq(S)
  PROVE  IsPrefix(s, t) <=> Len(s) <= Len(t) /\ \A i \in 1..Len(s) : s[i] = t[i]
<1>1. Len(s) \in Nat /\ Len(t) \in Nat
  OBVIOUS
<1>2. SubSeq(s, 1, Len(s)) = s
  OBVIOUS
<1> SUFFICES ASSUME Len(s) <= Len(t)
             PROVE  SubSeq(t, 1, Len(s)) = s <=> \A i \in 1..Len(s) : s[i] = t[i]
  BY <1>2, Zenon DEF IsPrefix
<1>3. SubSeq(t, 1, Len(s)) = [i \in 1..Len(s) |-> t[i]]
  BY <1>1
<1>4. s = [i \in 1..Len(s) |-> s[i]]
  OBVIOUS
<1> QED
  BY <1>3, <1>4

LEMMA FirstDifference ==
  ASSUME NEW k \in Seq(Nat), NEW o \in Seq(Nat), NEW i \in 1..Len(k), i \in 1..Len(o),
         k[i] # o[i], \A j \in 1..(i - 1) : k[j] = o[j]
  PROVE  Before(k, o) <=> k[i] < o[i]
<1>1. ~IsStrictPrefix(k, o)
  <2>1. IsPrefix(k, o) => k[i] = o[i]
    BY PrefixFacts
  <2> QED
    BY <2>1 DEF IsStrictPrefix
<1>2. DOMAIN k = 1..Len(k) /\ DOMAIN o = 1..Len(o)
  OBVIOUS
<1>3. ASSUME NEW l \in DOMAIN k \cap DOMAIN o, k[l] < o[l], \A j \in 1..(l - 1) : k[j] = o[j]
      PROVE  l = i
  <2>1. l \in Nat /\ i \in Nat /\ l >= 1 /\ i >= 1
    BY <1>2
  <2>2. k[l] # o[l]
    BY <1>2, <1>3
  <2>3. ~(l < i) /\ ~(i < l)
    BY <2>1, <2>2, <1>3
  <2> QED
    BY <2>1, <2>3
<1> QED
  BY <1>1, <1>2, <1>3 DEF Before

LEMMA NotBeforeItself == ASSUME NEW k \in Seq(Nat) PROVE ~Before(k, k)
<1>1. \A i \in DOMAIN k : k[i] \in Nat
  OBVIOUS
<1> QED
  BY <1>1 DEF Before, IsStrictPrefix

-----------------------------------------------------------------------------
(* The numbers that may end a key, and the key of a fan and such a number.  *)
KeyTimes == {n \in Nat : n < Ten[Sizes] /\ Size(n) = Size(Epoch)}
Key(fan, n) == RowKey(UserId[fan], n)

LEMMA IdFacts ==
  ASSUME NEW fan \in Fan
  PROVE  /\ IdKeyOf[fan] \in Seq(0..9) /\ Len(IdKeyOf[fan]) = Width
         /\ Reverse(IdKeyOf[fan]) = Padded(UserId[fan])
         /\ Writes(Padded(UserId[fan]), UserId[fan], Width)
<1> DEFINE id == UserId[fan]
           text == Padded(id)
<1>0. Width \in Nat /\ Sizes \in Nat
  BY KeyAssumption
<1>1. id \in Nat /\ id < Ten[Sizes] /\ Size(id) <= Width
  <2>1. Ten[Sizes] \in Nat
    BY <1>0, TenFacts
  <2> QED
    BY <2>1, ScanAssumption
<1>2. Writes(text, id, Width)
  BY <1>1, PaddedSays
<1>3. text \in Seq(0..9) /\ Len(text) = Width
  BY <1>2 DEF Writes
<1> HIDE DEF text
<1>4. IdKeyOf[fan] = Reverse(text)
  BY DEF IdKeyOf, IdKey, text
<1>5. Reverse(text) = [i \in 1..Width |-> text[Width - i + 1]]
  BY <1>3 DEF Reverse
<1>6. Reverse(text) \in Seq(0..9) /\ Len(Reverse(text)) = Width
  BY <1>0, <1>3, <1>5
<1>7. Reverse(Reverse(text)) = text
  <2>1. Reverse(Reverse(text)) = [i \in 1..Width |-> Reverse(text)[Width - i + 1]]
    BY <1>6 DEF Reverse
  <2>2. \A i \in 1..Width : Reverse(text)[Width - i + 1] = text[i]
    BY <1>0, <1>3, <1>5
  <2>3. text = [i \in 1..Width |-> text[i]]
    BY <1>3
  <2> QED
    BY <2>1, <2>2, <2>3
<1> QED
  BY <1>2, <1>4, <1>6, <1>7 DEF text

(* Two fans' keys differ in their ids.                                      *)
LEMMA IdsApart ==
  ASSUME NEW f \in Fan, NEW g \in Fan, f # g
  PROVE  \E i \in 1..Width : /\ IdKeyOf[f][i] # IdKeyOf[g][i]
                             /\ \A j \in 1..(i - 1) : IdKeyOf[f][j] = IdKeyOf[g][j]
<1> DEFINE a == IdKeyOf[f]
           b == IdKeyOf[g]
           T == {i \in 1..Width : a[i] # b[i]}
<1>0. Width \in Nat
  BY KeyAssumption
<1>1. T # {}
  <2> SUFFICES ASSUME T = {} PROVE FALSE
    OBVIOUS
  <2>1. a = b
    <3>1. a \in Seq(0..9) /\ b \in Seq(0..9) /\ Len(a) = Width /\ Len(b) = Width
      BY IdFacts
    <3>2. \A i \in 1..Width : a[i] = b[i]
      OBVIOUS
    <3> HIDE DEF a, b
    <3> QED
      BY <3>1, <3>2
  <2>2. Padded(UserId[f]) = Padded(UserId[g])
    BY <2>1, IdFacts
  <2>3. UserId[f] = UserId[g]
    BY <2>2, IdFacts, NumberRead
  <2> QED
    BY <2>3, ScanAssumption
<1>2. T \subseteq Nat
  OBVIOUS
<1>3. PICK i \in T : \A j \in T : i <= j
  BY <1>1, <1>2, LeastTime
<1> QED
  BY <1>0, <1>3

LEMMA KeyFacts ==
  ASSUME NEW fan \in Fan, NEW n \in KeyTimes
  PROVE  /\ Key(fan, n) \in Seq(Nat) /\ Len(Key(fan, n)) = Width + 1 + Size(Epoch)
         /\ Size(Epoch) \in Nat /\ Width \in Nat
         /\ \A i \in 1..Width : Key(fan, n)[i] = IdKeyOf[fan][i] /\ IdKeyOf[fan][i] \in 0..9
         /\ Key(fan, n)[Width + 1] = Colon
         /\ \A i \in 1..Size(Epoch) :
              Key(fan, n)[Width + 1 + i] = Digits(n)[i] /\ Digits(n)[i] \in 0..9
         /\ Writes(Digits(n), n, Size(Epoch))
<1> DEFINE p == IdKeyOf[fan]
           d == Digits(n)
<1>1. p \in Seq(0..9) /\ Len(p) = Width /\ Width \in Nat
  BY IdFacts, KeyAssumption
<1>2. Writes(d, n, Size(Epoch))
  BY DigitsSay DEF KeyTimes
<1>3. d \in Seq(0..9) /\ Len(d) = Size(Epoch) /\ Size(Epoch) \in Nat
  BY <1>2 DEF Writes
<1>4. Key(fan, n) = p \o <<Colon>> \o d
  BY DEF Key, RowKey, IdKeyOf
<1> HIDE DEF p, d
<1>5. p \in Seq(Nat) /\ d \in Seq(Nat) /\ <<Colon>> \in Seq(Nat) /\ Len(<<Colon>>) = 1
  BY <1>1, <1>3 DEF Colon
<1>6. /\ p \o <<Colon>> \in Seq(Nat) /\ Len(p \o <<Colon>>) = Width + 1
      /\ \A i \in 1..Width : (p \o <<Colon>>)[i] = p[i]
      /\ (p \o <<Colon>>)[Width + 1] = Colon
  BY <1>1, <1>5, Joined
<1> DEFINE q == p \o <<Colon>>
<1> HIDE DEF q
<1>7. q \in Seq(Nat) /\ Len(q) = Width + 1 /\ Key(fan, n) = q \o d
  BY <1>4, <1>6 DEF q
<1>8. /\ q \o d \in Seq(Nat) /\ Len(q \o d) = Width + 1 + Size(Epoch)
      /\ \A i \in 1..(Width + 1) : (q \o d)[i] = q[i]
      /\ \A i \in 1..Size(Epoch) : (q \o d)[Width + 1 + i] = d[i]
  <2>1. /\ q \o d \in Seq(Nat) /\ Len(q \o d) = Len(q) + Len(d)
        /\ \A i \in 1..Len(q) : (q \o d)[i] = q[i]
        /\ \A i \in 1..Len(d) : (q \o d)[Len(q) + i] = d[i]
    <3>1. q \in Seq(Nat) /\ d \in Seq(Nat)
      BY <1>5, <1>7
    <3>2. q \o d \in Seq(Nat) /\ Len(q \o d) = Len(q) + Len(d)
      BY <3>1, Joined
    <3>3. \A i \in 1..Len(q) : (q \o d)[i] = q[i]
      BY <3>1, Joined
    <3>4. \A i \in 1..Len(d) : (q \o d)[Len(q) + i] = d[i]
      BY <3>1, Joined
    <3> QED
      BY <3>2, <3>3, <3>4
  <2> QED
    BY <2>1, <1>3, <1>7
<1>9. \A i \in 1..Width : q[i] = p[i] /\ p[i] \in 0..9
  BY <1>1, <1>6 DEF q
<1>10. q[Width + 1] = Colon
  BY <1>6 DEF q
<1>11. \A i \in 1..Size(Epoch) : d[i] \in 0..9
  BY <1>3
<1>12. Width + 1 \in 1..(Width + 1) /\ \A i \in 1..Width : i \in 1..(Width + 1)
  BY <1>1
<1>13. /\ \A i \in 1..Width : Key(fan, n)[i] = p[i] /\ p[i] \in 0..9
       /\ Key(fan, n)[Width + 1] = Colon
  BY <1>7, <1>8, <1>9, <1>10, <1>12
<1>14. \A i \in 1..Size(Epoch) : Key(fan, n)[Width + 1 + i] = d[i] /\ d[i] \in 0..9
  BY <1>7, <1>8, <1>11
<1> QED
  BY <1>1, <1>2, <1>3, <1>7, <1>8, <1>13, <1>14 DEF p, d

(* The keys of one fan sort by time, and those of two as their ids do.      *)
LEMMA KeyAt ==
  ASSUME NEW fan \in Fan, NEW m \in KeyTimes, NEW n \in KeyTimes, m < n
  PROVE  Before(Key(fan, m), Key(fan, n)) /\ ~Before(Key(fan, n), Key(fan, m))
<1> DEFINE k == Key(fan, m)
           o == Key(fan, n)
           w == Width + 1
<1>1. k \in Seq(Nat) /\ o \in Seq(Nat) /\ Len(k) = w + Size(Epoch) /\ Len(o) = w + Size(Epoch)
  BY KeyFacts
<1>2. Writes(Digits(m), m, Size(Epoch)) /\ Writes(Digits(n), n, Size(Epoch))
  BY KeyFacts
<1>3. PICK i \in 1..Size(Epoch) :
        Digits(m)[i] < Digits(n)[i] /\ \A j \in 1..(i - 1) : Digits(m)[j] = Digits(n)[j]
  BY <1>2, SortsAsNumbers
<1>4. Size(Epoch) \in Nat /\ Width \in Nat
  BY KeyFacts
<1>5. /\ \A j \in 1..Size(Epoch) : k[w + j] = Digits(m)[j] /\ o[w + j] = Digits(n)[j]
      /\ \A j \in 1..Width : k[j] = o[j]
      /\ k[w] = o[w]
  BY KeyFacts
<1>6. Digits(m)[i] \in 0..9 /\ Digits(n)[i] \in 0..9
  BY KeyFacts
<1> HIDE DEF k, o
<1> DEFINE x == w + i
<1>7. x \in 1..Len(k) /\ x \in 1..Len(o) /\ k[x] < o[x] /\ k[x] # o[x] /\ ~(o[x] < k[x])
  <2>1. x \in 1..Len(k) /\ x \in 1..Len(o)
    BY <1>1, <1>4
  <2>2. k[x] = Digits(m)[i] /\ o[x] = Digits(n)[i]
    BY <1>5
  <2>3. Digits(m)[i] < Digits(n)[i]
    BY <1>3
  <2> HIDE DEF x
  <2> QED
    BY <2>1, <2>2, <2>3, <1>6
<1>8. \A j \in 1..(x - 1) : k[j] = o[j]
  <2> TAKE j \in 1..(x - 1)
  <2>1. CASE j <= Width
    BY <2>1, <1>4, <1>5
  <2>2. CASE j = w
    BY <2>2, <1>5
  <2>3. CASE j > w
    <3>1. j - w \in 1..(i - 1) /\ j - w \in 1..Size(Epoch) /\ w + (j - w) = j
      BY <2>3, <1>3, <1>4
    <3>2. k[w + (j - w)] = Digits(m)[j - w] /\ o[w + (j - w)] = Digits(n)[j - w]
      BY <3>1, <1>5
    <3> QED
      BY <3>1, <3>2, <1>3
  <2> QED
    BY <2>1, <2>2, <2>3, <1>3, <1>4
<1> HIDE DEF x
<1>9. Before(k, o) <=> k[x] < o[x]
  BY <1>1, <1>7, <1>8, FirstDifference
<1>10. Before(o, k) <=> o[x] < k[x]
  BY <1>1, <1>7, <1>8, FirstDifference
<1> QED
  BY <1>7, <1>9, <1>10 DEF k, o

LEMMA OwnKeysSort ==
  ASSUME NEW fan \in Fan, NEW m \in KeyTimes, NEW n \in KeyTimes
  PROVE  Before(Key(fan, m), Key(fan, n)) <=> m < n
<1>1. m \in Nat /\ n \in Nat
  BY DEF KeyTimes
<1>2. CASE m < n
  BY <1>2, KeyAt
<1>3. CASE n < m
  BY <1>1, <1>3, KeyAt
<1>4. CASE m = n
  BY <1>1, <1>4, KeyFacts, NotBeforeItself
<1> QED
  BY <1>1, <1>2, <1>3, <1>4

LEMMA OwnPrefix ==
  ASSUME NEW fan \in Fan, NEW n \in KeyTimes
  PROVE  IsPrefix(IdKeyOf[fan], Key(fan, n)) /\ Before(IdKeyOf[fan], Key(fan, n))
<1> DEFINE p == IdKeyOf[fan]
           k == Key(fan, n)
<1>1. k \in Seq(Nat) /\ Len(k) = Width + 1 + Size(Epoch) /\ Size(Epoch) \in Nat /\ Width \in Nat
  BY KeyFacts
<1>2. p \in Seq(0..9) /\ Len(p) = Width
  BY IdFacts
<1>3. \A i \in 1..Width : k[i] = p[i]
  BY KeyFacts
<1> HIDE DEF p, k
<1>4. p \in Seq(Nat)
  BY <1>2
<1>5. IsPrefix(p, k)
  <2>1. Len(p) <= Len(k) /\ \A i \in 1..Len(p) : p[i] = k[i]
    BY <1>1, <1>2, <1>3
  <2> QED
    BY <2>1, <1>1, <1>4, PrefixFacts
<1>6. p # k
  BY <1>1, <1>2
<1> QED
  BY <1>5, <1>6 DEF Before, IsStrictPrefix, p, k

LEMMA OthersKeys ==
  ASSUME NEW f \in Fan, NEW g \in Fan, f # g
  PROVE  \E i \in 1..Width :
           /\ IdKeyOf[f][i] \in Nat /\ IdKeyOf[g][i] \in Nat /\ IdKeyOf[f][i] # IdKeyOf[g][i]
           /\ \A n \in KeyTimes : /\ ~IsPrefix(IdKeyOf[f], Key(g, n))
                                  /\ Before(IdKeyOf[f], Key(g, n)) <=> IdKeyOf[f][i] < IdKeyOf[g][i]
           /\ \A m, n \in KeyTimes :
                /\ Before(Key(f, m), Key(g, n)) <=> IdKeyOf[f][i] < IdKeyOf[g][i]
                /\ Before(Key(g, n), Key(f, m)) <=> IdKeyOf[g][i] < IdKeyOf[f][i]
<1> DEFINE p == IdKeyOf[f]
           q == IdKeyOf[g]
<1>1. PICK i \in 1..Width : p[i] # q[i] /\ \A j \in 1..(i - 1) : p[j] = q[j]
  BY IdsApart
<1>2. /\ p \in Seq(0..9) /\ Len(p) = Width /\ q \in Seq(0..9) /\ Len(q) = Width /\ Width \in Nat
  BY IdFacts, KeyAssumption
<1>3. ASSUME NEW n \in KeyTimes
      PROVE  /\ Key(g, n) \in Seq(Nat) /\ i \in 1..Len(Key(g, n))
             /\ Key(f, n) \in Seq(Nat) /\ i \in 1..Len(Key(f, n))
             /\ \A j \in 1..i : Key(g, n)[j] = q[j] /\ Key(f, n)[j] = p[j]
  <2>1. /\ Key(g, n) \in Seq(Nat) /\ Len(Key(g, n)) = Width + 1 + Size(Epoch)
        /\ Key(f, n) \in Seq(Nat) /\ Len(Key(f, n)) = Width + 1 + Size(Epoch)
        /\ Size(Epoch) \in Nat
    BY KeyFacts
  <2>2. \A j \in 1..Width : Key(g, n)[j] = q[j] /\ Key(f, n)[j] = p[j]
    BY KeyFacts
  <2> QED
    BY <1>2, <2>1, <2>2
<1> HIDE DEF p, q
<1>4. p \in Seq(Nat) /\ i \in 1..Len(p) /\ p[i] \in Nat /\ q[i] \in Nat
  BY <1>1, <1>2
<1>5. ASSUME NEW n \in KeyTimes
      PROVE  ~IsPrefix(p, Key(g, n)) /\ (Before(p, Key(g, n)) <=> p[i] < q[i])
  <2> DEFINE o == Key(g, n)
  <2>1. o \in Seq(Nat) /\ i \in 1..Len(o) /\ \A j \in 1..i : o[j] = q[j]
    BY <1>3
  <2> HIDE DEF o
  <2>2. o[i] = q[i] /\ p[i] # o[i] /\ \A j \in 1..(i - 1) : p[j] = o[j]
    BY <1>1, <1>2, <2>1
  <2>3. ~IsPrefix(p, o)
    BY <1>4, <2>1, <2>2, PrefixFacts
  <2>4. Before(p, o) <=> p[i] < o[i]
    BY <1>4, <2>1, <2>2, FirstDifference
  <2> QED
    BY <2>2, <2>3, <2>4 DEF o
<1>6. ASSUME NEW m \in KeyTimes, NEW n \in KeyTimes
      PROVE  /\ Before(Key(f, m), Key(g, n)) <=> p[i] < q[i]
             /\ Before(Key(g, n), Key(f, m)) <=> q[i] < p[i]
  <2> DEFINE k == Key(f, m)
             o == Key(g, n)
  <2>1. /\ o \in Seq(Nat) /\ i \in 1..Len(o) /\ \A j \in 1..i : o[j] = q[j]
        /\ k \in Seq(Nat) /\ i \in 1..Len(k) /\ \A j \in 1..i : k[j] = p[j]
    BY <1>3
  <2> HIDE DEF k, o
  <2>2. k[i] = p[i] /\ o[i] = q[i] /\ k[i] # o[i] /\ \A j \in 1..(i - 1) : k[j] = o[j]
    BY <1>1, <1>2, <2>1
  <2>3. Before(k, o) <=> k[i] < o[i]
    BY <2>1, <2>2, FirstDifference
  <2>4. Before(o, k) <=> o[i] < k[i]
    BY <2>1, <2>2, FirstDifference
  <2> QED
    BY <2>2, <2>3, <2>4 DEF k, o
<1> QED
  BY <1>1, <1>4, <1>5, <1>6 DEF p, q

-----------------------------------------------------------------------------
(* The scans.  The keys of rows, and the last one that a pull may find.     *)
Keyed(table) ==
  /\ table \subseteq Row /\ IsFiniteSet(table)
  /\ \A row \in table : row.at \in 0..LastTime
  /\ \A row, other \in table : SameFollowingKey(row, other) => row = other

RowKeyOf(row) == KeyOf[row.fan][row.at]

LEMMA TimesSort ==
  ASSUME NEW fan \in Fan, NEW time \in 0..LastTime
  PROVE  Epoch + time \in KeyTimes /\ KeyOf[fan][time] = Key(fan, Epoch + time)
<1>1. Ten[Sizes] \in Nat
  BY KeyAssumption, TenFacts
<1>2. Epoch + time \in KeyTimes
  BY <1>1, ScanAssumption, InstanceAssumption DEF KeyTimes
<1>3. KeyOf[fan][time] = Key(fan, Epoch + time)
  BY Zenon DEF KeyOf, Key
<1> QED
  BY <1>2, <1>3

LEMMA LastTimeSorts ==
  ASSUME NEW fan \in Fan
  PROVE  MaxTimestamp \in KeyTimes /\ LastKeyOf[fan] = Key(fan, MaxTimestamp)
<1> DEFINE k == Size(Epoch)
           l == Size(MaxTimestamp)
<1>0. Sizes \in Nat \ {0} /\ Width \in Nat /\ Epoch \in Nat /\ LastTime \in Nat
  BY KeyAssumption, ScanAssumption, InstanceAssumption
<1>1. Epoch < Ten[Sizes]
  <2>1. Ten[Sizes] \in Nat
    BY <1>0, TenFacts
  <2> QED
    BY <1>0, <2>1, ScanAssumption
<1>2. k \in 1..Sizes
  BY <1>0, <1>1, SizeFacts
<1>3. k \in Nat /\ k - 1 \in Nat /\ Sizes \in Nat
  BY <1>0, <1>2
<1>4. /\ Ten[k] \in Nat \ {0} /\ Ten[k - 1] \in Nat \ {0} /\ Ten[k] = 10 * Ten[k - 1]
      /\ Ten[k] <= Ten[Sizes] /\ Ten[Sizes] \in Nat
  <2>1. k - 1 + 1 = k
    BY <1>2
  <2> QED
    BY <1>2, <1>3, <2>1, TenFacts, TenGrows
<1>5. MaxTimestamp = Ten[k] - 1
  BY DEF MaxTimestamp, Ten
<1>6. MaxTimestamp \in Nat /\ MaxTimestamp < Ten[Sizes] /\ MaxTimestamp < Ten[Sizes]
  <2>1. MaxTimestamp \in Nat /\ MaxTimestamp < Ten[Sizes]
    BY <1>4, <1>5
  <2> QED
    BY <2>1
<1>7. l \in 1..Sizes /\ MaxTimestamp < Ten[l] /\ (l = 1 \/ Ten[l - 1] <= MaxTimestamp)
  BY <1>6, SizeFacts
<1>8. l \in Nat /\ l - 1 \in Nat
  BY <1>0, <1>7
<1>9. Ten[l] \in Nat /\ Ten[l - 1] \in Nat
  BY <1>8, TenFacts
<1> HIDE DEF k, l
<1>10. ~(l < k)
  <2> SUFFICES ASSUME l < k PROVE FALSE
    OBVIOUS
  <2>1. Ten[l] <= Ten[k - 1]
    BY <1>2, <1>3, <1>7, <1>8, TenGrows
  <2> QED
    BY <2>1, <1>4, <1>5, <1>7, <1>9
<1>11. ~(k < l)
  <2> SUFFICES ASSUME k < l PROVE FALSE
    OBVIOUS
  <2>1. Ten[k] <= Ten[l - 1] /\ l # 1
    BY <1>2, <1>3, <1>7, <1>8, TenGrows
  <2> QED
    BY <2>1, <1>4, <1>5, <1>7, <1>9
<1>12. l = k
  BY <1>2, <1>7, <1>10, <1>11
<1> QED
  BY <1>6, <1>12 DEF KeyTimes, LastKeyOf, Key, k, l

LEMMA Behind ==
  ASSUME NEW s \in Seq(Nat), NEW a \in Nat, NEW b \in Nat, Len(s) = a + b
  PROVE  /\ SubSeq(s, a + 1, Len(s)) \in Seq(Nat) /\ Len(SubSeq(s, a + 1, Len(s))) = b
         /\ \A i \in 1..b : SubSeq(s, a + 1, Len(s))[i] = s[a + i]
<1>1. SubSeq(s, a + 1, Len(s)) \in Seq(Nat)
  OBVIOUS
<1>2. Len(SubSeq(s, a + 1, Len(s))) = b
  OBVIOUS
<1>3. \A i \in 1..b : SubSeq(s, a + 1, Len(s))[i] = s[a + i]
  <2> TAKE i \in 1..b
  <2>1. SubSeq(s, a + 1, Len(s))[i] = s[i + (a + 1) - 1]
    OBVIOUS
  <2>2. i + (a + 1) - 1 = a + i
    OBVIOUS
  <2> QED
    BY <2>1, <2>2, Zenon
<1> QED
  BY <1>1, <1>2, <1>3

LEMMA KeyDecodes ==
  ASSUME NEW fan \in Fan, NEW n \in KeyTimes
  PROVE  Decoded(Key(fan, n)) = <<UserId[fan], n>>
<1> DEFINE k == Key(fan, n)
           p == IdKeyOf[fan]
           d == Digits(n)
<1>1. /\ k \in Seq(Nat) /\ Len(k) = Width + 1 + Size(Epoch) /\ Size(Epoch) \in Nat /\ Width \in Nat
      /\ \A i \in 1..Width : k[i] = p[i] /\ p[i] \in 0..9
      /\ k[Width + 1] = Colon
  BY KeyFacts
<1>2. \A i \in 1..Size(Epoch) : k[Width + 1 + i] = d[i] /\ d[i] \in 0..9
  BY KeyFacts
<1>3. Writes(d, n, Size(Epoch))
  BY KeyFacts
<1>4. p \in Seq(0..9) /\ Len(p) = Width
  BY IdFacts
<1>5. NumberOf(Reverse(p)) = UserId[fan]
  BY IdFacts, NumberRead
<1>6. NumberOf(d) = n
  BY <1>3, NumberRead
<1>7. d \in Seq(0..9) /\ Len(d) = Size(Epoch)
  BY <1>3 DEF Writes
<1> HIDE DEF k, p, d
<1>8. ColonAt(k) = Width + 1
  <2>1. DOMAIN k = 1..(Width + 1 + Size(Epoch))
    BY <1>1
  <2>2. Width + 1 \in DOMAIN k
    BY <1>1, <2>1
  <2>3. ASSUME NEW i \in DOMAIN k, k[i] = Colon PROVE i = Width + 1
    <3>1. CASE i <= Width
      <4>1. i \in 1..Width
        BY <3>1, <2>1, <1>1
      <4>2. k[i] \in 0..9
        BY <4>1, <1>1
      <4> QED
        BY <4>2, <2>3 DEF Colon
    <3>2. CASE i > Width + 1
      <4>1. i - (Width + 1) \in 1..Size(Epoch) /\ Width + 1 + (i - (Width + 1)) = i
        BY <3>2, <2>1, <1>1
      <4>2. k[Width + 1 + (i - (Width + 1))] \in 0..9
        BY <4>1, <1>2
      <4> QED
        BY <4>1, <4>2, <2>3 DEF Colon
    <3> QED
      BY <3>1, <3>2, <2>1, <1>1
  <2> QED
    BY <2>2, <2>3, <1>1 DEF ColonAt
<1>9. SubSeq(k, 1, ColonAt(k) - 1) = p
  <2>1. ColonAt(k) - 1 = Width
    BY <1>1, <1>8
  <2>2. SubSeq(k, 1, Width) = [i \in 1..Width |-> k[i]]
    BY <1>1
  <2>3. p = [i \in 1..Width |-> p[i]]
    BY <1>4
  <2>4. [i \in 1..Width |-> k[i]] = [i \in 1..Width |-> p[i]]
    BY <1>1
  <2> QED
    BY <2>1, <2>2, <2>3, <2>4
<1>10. SubSeq(k, ColonAt(k) + 1, Len(k)) = d
  <2>1. ColonAt(k) + 1 = Width + 2
    BY <1>1, <1>8
  <2> DEFINE rest == SubSeq(k, Width + 2, Len(k))
  <2>2. rest \in Seq(Nat) /\ Len(rest) = Size(Epoch)
        /\ \A i \in 1..Size(Epoch) : rest[i] = k[Width + 1 + i]
    <3>1. Width + 1 \in Nat /\ Width + 1 + 1 = Width + 2
      BY <1>1
    <3> QED
      BY <1>1, <3>1, Behind
  <2> HIDE DEF rest
  <2>3. rest = [i \in 1..Size(Epoch) |-> d[i]]
    BY <2>2, <1>2
  <2>4. d = [i \in 1..Size(Epoch) |-> d[i]]
    BY <1>7
  <2> QED
    BY <2>1, <2>3, <2>4 DEF rest
<1>11. Decoded(k) = <<UserId[fan], n>>
  BY <1>5, <1>6, <1>9, <1>10 DEF Decoded
<1> QED
  BY <1>11 DEF k

LEMMA RowTimes ==
  ASSUME NEW table, Keyed(table), NEW row \in table
  PROVE  /\ row.fan \in Fan /\ row.at \in Nat /\ row.at \in 0..LastTime
         /\ Epoch + row.at \in KeyTimes /\ Epoch \in Nat
         /\ RowKeyOf(row) = Key(row.fan, Epoch + row.at)
<1>1. row.fan \in Fan /\ row.at \in 0..LastTime
  BY DEF Keyed, Row
<1>2. Epoch + row.at \in KeyTimes /\ KeyOf[row.fan][row.at] = Key(row.fan, Epoch + row.at)
  BY <1>1, TimesSort
<1> QED
  BY <1>1, <1>2, ScanAssumption, InstanceAssumption DEF RowKeyOf

(* Of one fan, the keys sort as the times of the rows; and no two rows have *)
(* one key.                                                                 *)
LEMMA RowsSort ==
  ASSUME NEW table, Keyed(table), NEW row \in table, NEW other \in table, row.fan = other.fan
  PROVE  Before(RowKeyOf(row), RowKeyOf(other)) <=> row.at < other.at
<1>1. /\ row.fan \in Fan /\ Epoch + row.at \in KeyTimes /\ Epoch + other.at \in KeyTimes
      /\ RowKeyOf(row) = Key(row.fan, Epoch + row.at)
      /\ RowKeyOf(other) = Key(row.fan, Epoch + other.at)
  BY RowTimes
<1>2. Before(RowKeyOf(row), RowKeyOf(other)) <=> Epoch + row.at < Epoch + other.at
  BY <1>1, OwnKeysSort
<1>3. row.at \in Nat /\ other.at \in Nat /\ Epoch \in Nat
  BY RowTimes
<1> QED
  BY <1>2, <1>3

LEMMA KeysDiffer ==
  ASSUME NEW table, Keyed(table), NEW row \in table, NEW other \in table,
         RowKeyOf(row) = RowKeyOf(other)
  PROVE  row = other
<1> DEFINE k == RowKeyOf(row)
<1>1. /\ row.fan \in Fan /\ Epoch + row.at \in KeyTimes /\ k = Key(row.fan, Epoch + row.at)
      /\ row.at \in Nat
  BY RowTimes
<1>2. /\ other.fan \in Fan /\ Epoch + other.at \in KeyTimes
      /\ k = Key(other.fan, Epoch + other.at) /\ other.at \in Nat
  BY RowTimes
<1>3. ~Before(k, k)
  BY <1>1, KeyFacts, NotBeforeItself
<1>4. row.fan = other.fan
  <2> SUFFICES ASSUME row.fan # other.fan PROVE FALSE
    OBVIOUS
  <2>1. PICK i \in 1..Width :
          /\ IdKeyOf[row.fan][i] \in Nat /\ IdKeyOf[other.fan][i] \in Nat
          /\ IdKeyOf[row.fan][i] # IdKeyOf[other.fan][i]
          /\ \A m, n \in KeyTimes :
               /\ Before(Key(row.fan, m), Key(other.fan, n))
                    <=> IdKeyOf[row.fan][i] < IdKeyOf[other.fan][i]
               /\ Before(Key(other.fan, n), Key(row.fan, m))
                    <=> IdKeyOf[other.fan][i] < IdKeyOf[row.fan][i]
    BY <1>1, <1>2, OthersKeys
  <2> DEFINE x == IdKeyOf[row.fan][i]
             y == IdKeyOf[other.fan][i]
  <2>2. (Before(k, k) <=> x < y) /\ (Before(k, k) <=> y < x)
    BY <1>1, <1>2, <2>1
  <2>3. x \in Nat /\ y \in Nat /\ x # y
    BY <2>1
  <2> HIDE DEF x, y
  <2> QED
    BY <1>3, <2>2, <2>3
<1>5. ~(row.at < other.at) /\ ~(other.at < row.at)
  <2>1. Before(RowKeyOf(row), RowKeyOf(other)) <=> row.at < other.at
    BY <1>4, RowsSort
  <2>2. Before(RowKeyOf(other), RowKeyOf(row)) <=> other.at < row.at
    BY <1>4, RowsSort
  <2> QED
    BY <1>3, <2>1, <2>2
<1>6. row.at = other.at
  BY <1>1, <1>2, <1>5
<1> QED
  BY <1>4, <1>6 DEF Keyed, SameFollowingKey

LEMMA KeysCount ==
  ASSUME NEW table, Keyed(table), NEW some, some \subseteq table
  PROVE  IsFiniteSet(KeysOf(some)) /\ Cardinality(KeysOf(some)) = Cardinality(some)
<1> DEFINE f == [row \in some |-> RowKeyOf(row)]
<1>1. IsFiniteSet(some)
  BY FS_Subset DEF Keyed
<1>2. KeysOf(some) = {RowKeyOf(row) : row \in some}
  BY Zenon DEF KeysOf, RowKeyOf
<1>3. f \in [some -> KeysOf(some)]
  BY <1>2
<1>4. \A row, other \in some : f[row] = f[other] => row = other
  BY KeysDiffer
<1>5. \A key \in KeysOf(some) : \E row \in some : f[row] = key
  BY <1>2
<1> HIDE DEF f
<1>6. f \in Surjection(some, KeysOf(some)) /\ f \in Injection(some, KeysOf(some))
  BY <1>3, <1>4, <1>5 DEF Surjection, Injection, IsInjective
<1> QED
  BY <1>1, <1>6, FS_Surjection

(* A limit takes the keys of the newest rows.                               *)
LEMMA LastAreNewest ==
  ASSUME NEW table, Keyed(table), NEW own, own \subseteq table, NEW limit,
         \A row, other \in own : row.fan = other.fan
  PROVE  LastOf(KeysOf(own), limit) = KeysOf(Newest(own, limit))
<1>1. KeysOf(own) = {RowKeyOf(row) : row \in own}
  BY Zenon DEF KeysOf, RowKeyOf
<1>2. ASSUME NEW row \in own
      PROVE  Cardinality({key \in KeysOf(own) : Before(RowKeyOf(row), key)})
               = Cardinality({other \in own : other.at > row.at})
  <2> DEFINE later == {other \in own : other.at > row.at}
  <2>1. \A other \in own : Before(RowKeyOf(row), RowKeyOf(other)) <=> other.at > row.at
    <3> TAKE other \in own
    <3>1. row \in table /\ other \in table /\ row.fan = other.fan
      OBVIOUS
    <3>2. Before(RowKeyOf(row), RowKeyOf(other)) <=> row.at < other.at
      BY <3>1, RowsSort
    <3>3. row.at \in Nat /\ other.at \in Nat
      BY <3>1, RowTimes
    <3> QED
      BY <3>2, <3>3
  <2>2. {key \in KeysOf(own) : Before(RowKeyOf(row), key)} = {RowKeyOf(other) : other \in later}
    BY <1>1, <2>1
  <2>3. KeysOf(later) = {RowKeyOf(other) : other \in later}
    BY Zenon DEF KeysOf, RowKeyOf
  <2>4. Cardinality(KeysOf(later)) = Cardinality(later)
    <3>1. later \subseteq table
      OBVIOUS
    <3> QED
      BY <3>1, KeysCount
  <2> QED
    BY <2>2, <2>3, <2>4
<1>3. LastOf(KeysOf(own), limit) = {RowKeyOf(row) : row \in Newest(own, limit)}
  <2>1. LastOf(KeysOf(own), limit) \subseteq KeysOf(own) /\ Newest(own, limit) \subseteq own
    BY DEF LastOf, Newest
  <2>2. ASSUME NEW row \in own
        PROVE  RowKeyOf(row) \in LastOf(KeysOf(own), limit) <=> row \in Newest(own, limit)
    <3> DEFINE later == Cardinality({other \in own : other.at > row.at})
               after == Cardinality({key \in KeysOf(own) : Before(RowKeyOf(row), key)})
    <3>1. later = after
      BY <1>2
    <3>2. row \in Newest(own, limit) <=> later < limit
      BY DEF Newest
    <3>3. RowKeyOf(row) \in KeysOf(own)
      BY <1>1
    <3>4. RowKeyOf(row) \in LastOf(KeysOf(own), limit) <=> after < limit
      BY <3>3, Zenon DEF LastOf
    <3> HIDE DEF later, after
    <3> QED
      BY <3>1, <3>2, <3>4
  <2> QED
    BY <2>1, <2>2, <1>1
<1>4. KeysOf(Newest(own, limit)) = {RowKeyOf(row) : row \in Newest(own, limit)}
  BY Zenon DEF KeysOf, RowKeyOf
<1> QED
  BY <1>3, <1>4

(* What each scan finds among the keys of any rows.                         *)
LEMMA KeysFound ==
  ASSUME NEW table, Keyed(table), NEW found, NEW want, want \subseteq table,
         found \subseteq KeysOf(table),
         \A row \in table : RowKeyOf(row) \in found <=> row \in want
  PROVE  found = KeysOf(want)
<1>1. KeysOf(table) = {RowKeyOf(row) : row \in table} /\ KeysOf(want) = {RowKeyOf(row) : row \in want}
  BY Zenon DEF KeysOf, RowKeyOf
<1> QED
  BY <1>1

LEMMA PrefixFinds ==
  ASSUME NEW table, Keyed(table), NEW fan \in Fan
  PROVE  ScanPrefix(KeysOf(table), IdKeyOf[fan]) = KeysOf({row \in table : row.fan = fan})
<1> DEFINE found == ScanPrefix(KeysOf(table), IdKeyOf[fan])
           want == {row \in table : row.fan = fan}
<1>1. found \subseteq KeysOf(table) /\ want \subseteq table
  BY DEF ScanPrefix
<1>2. ASSUME NEW row \in table PROVE RowKeyOf(row) \in found <=> row \in want
  <2>1. RowKeyOf(row) \in KeysOf(table)
    BY Zenon DEF KeysOf, RowKeyOf
  <2>2. /\ row.fan \in Fan /\ Epoch + row.at \in KeyTimes
        /\ RowKeyOf(row) = Key(row.fan, Epoch + row.at)
    BY RowTimes
  <2>3. IsPrefix(IdKeyOf[fan], RowKeyOf(row)) <=> row.fan = fan
    <3>1. CASE row.fan = fan
      BY <2>2, <3>1, OwnPrefix
    <3>2. CASE row.fan # fan
      <4>1. ~IsPrefix(IdKeyOf[fan], Key(row.fan, Epoch + row.at))
        BY <2>2, <3>2, OthersKeys
      <4> QED
        BY <2>2, <3>2, <4>1
    <3> QED
      BY <3>1, <3>2
  <2> QED
    BY <2>1, <2>3 DEF ScanPrefix
<1> HIDE DEF found, want
<1>3. found = KeysOf(want)
  BY <1>1, <1>2, KeysFound
<1> QED
  BY <1>3 DEF found, want

LEMMA DownFinds ==
  ASSUME NEW table, Keyed(table), NEW fan \in Fan, NEW time \in 0..LastTime
  PROVE  ScanDown(KeysOf(table), KeyOf[fan][time], IdKeyOf[fan])
           = KeysOf({row \in table : row.fan = fan /\ row.at <= time})
<1> DEFINE start == KeyOf[fan][time]
           found == ScanDown(KeysOf(table), start, IdKeyOf[fan])
           want == {row \in table : row.fan = fan /\ row.at <= time}
<1>1. found \subseteq KeysOf(table) /\ want \subseteq table
  BY DEF ScanDown
<1>2. Epoch + time \in KeyTimes /\ start = Key(fan, Epoch + time)
  BY TimesSort
<1> HIDE DEF start
<1>3. ASSUME NEW row \in table PROVE RowKeyOf(row) \in found <=> row \in want
  <2> DEFINE key == RowKeyOf(row)
  <2>1. key \in KeysOf(table)
    BY Zenon DEF KeysOf, RowKeyOf
  <2>2. /\ row.fan \in Fan /\ row.at \in Nat /\ Epoch + row.at \in KeyTimes /\ Epoch \in Nat
        /\ key = Key(row.fan, Epoch + row.at)
    BY RowTimes
  <2> HIDE DEF key
  <2>3. ~Before(start, key) /\ Before(IdKeyOf[fan], key) <=> row.fan = fan /\ row.at <= time
    <3>1. CASE row.fan = fan
      <4>1. Before(IdKeyOf[fan], key)
        BY <2>2, <3>1, OwnPrefix
      <4>2. Before(start, key) <=> Epoch + time < Epoch + row.at
        BY <1>2, <2>2, <3>1, OwnKeysSort
      <4> QED
        BY <2>2, <3>1, <4>1, <4>2
    <3>2. CASE row.fan # fan
      <4>1. PICK i \in 1..Width :
              /\ \A n \in KeyTimes :
                   Before(IdKeyOf[fan], Key(row.fan, n)) <=> IdKeyOf[fan][i] < IdKeyOf[row.fan][i]
              /\ \A m, n \in KeyTimes :
                   Before(Key(fan, m), Key(row.fan, n)) <=> IdKeyOf[fan][i] < IdKeyOf[row.fan][i]
        BY <2>2, <3>2, OthersKeys
      <4>2. Before(IdKeyOf[fan], key) <=> Before(start, key)
        BY <1>2, <2>2, <4>1
      <4> QED
        BY <3>2, <4>2
    <3> QED
      BY <3>1, <3>2
  <2>4. key \in found <=> ~Before(start, key) /\ Before(IdKeyOf[fan], key)
    BY <2>1 DEF ScanDown
  <2>5. row \in want <=> row.fan = fan /\ row.at <= time
    OBVIOUS
  <2> QED
    BY <2>3, <2>4, <2>5 DEF key
<1> HIDE DEF found, want
<1>4. found = KeysOf(want)
  BY <1>1, <1>3, KeysFound
<1> QED
  BY <1>4 DEF found, want, start

LEMMA UpFinds ==
  ASSUME NEW table, Keyed(table), NEW fan \in Fan, NEW time \in 0..LastTime
  PROVE  ScanUp(KeysOf(table), KeyOf[fan][time], LastKeyOf[fan])
           = KeysOf({row \in table : row.fan = fan /\ row.at >= time})
<1> DEFINE start == KeyOf[fan][time]
           stop == LastKeyOf[fan]
           found == ScanUp(KeysOf(table), start, stop)
           want == {row \in table : row.fan = fan /\ row.at >= time}
<1>1. found \subseteq KeysOf(table) /\ want \subseteq table
  BY DEF ScanUp
<1>2. /\ Epoch + time \in KeyTimes /\ start = Key(fan, Epoch + time)
      /\ MaxTimestamp \in KeyTimes /\ stop = Key(fan, MaxTimestamp)
  BY TimesSort, LastTimeSorts
<1>3. Epoch + LastTime < MaxTimestamp /\ MaxTimestamp \in Nat /\ LastTime \in Nat
  BY <1>2, ScanAssumption, InstanceAssumption DEF KeyTimes
<1> HIDE DEF start, stop
<1>4. ASSUME NEW row \in table PROVE RowKeyOf(row) \in found <=> row \in want
  <2> DEFINE key == RowKeyOf(row)
  <2>1. key \in KeysOf(table)
    BY Zenon DEF KeysOf, RowKeyOf
  <2>2. /\ row.fan \in Fan /\ row.at \in 0..LastTime /\ Epoch + row.at \in KeyTimes
        /\ Epoch \in Nat /\ key = Key(row.fan, Epoch + row.at)
    BY RowTimes
  <2> HIDE DEF key
  <2>3. ~Before(key, start) /\ Before(key, stop) <=> row.fan = fan /\ row.at >= time
    <3>1. CASE row.fan = fan
      <4>1. Before(key, stop) <=> Epoch + row.at < MaxTimestamp
        BY <1>2, <2>2, <3>1, OwnKeysSort
      <4>2. Before(key, start) <=> Epoch + row.at < Epoch + time
        BY <1>2, <2>2, <3>1, OwnKeysSort
      <4> QED
        BY <1>3, <2>2, <3>1, <4>1, <4>2
    <3>2. CASE row.fan # fan
      <4>1. PICK i \in 1..Width :
              \A m, n \in KeyTimes :
                Before(Key(row.fan, m), Key(fan, n)) <=> IdKeyOf[row.fan][i] < IdKeyOf[fan][i]
        BY <2>2, <3>2, OthersKeys
      <4>2. Before(key, start) <=> Before(key, stop)
        BY <1>2, <2>2, <4>1
      <4> QED
        BY <3>2, <4>2
    <3> QED
      BY <3>1, <3>2
  <2>4. key \in found <=> ~Before(key, start) /\ Before(key, stop)
    BY <2>1 DEF ScanUp
  <2>5. row \in want <=> row.fan = fan /\ row.at >= time
    OBVIOUS
  <2> QED
    BY <2>3, <2>4, <2>5 DEF key
<1> HIDE DEF found, want
<1>5. found = KeysOf(want)
  BY <1>1, <1>4, KeysFound
<1> QED
  BY <1>5 DEF found, want, start, stop

(* In every state the scans over the encoded keys find the rows that the    *)
(* sets of rows say, and the keys decode to their rows.                     *)
LEMMA KeyedAgree ==
  ASSUME Keyed(following), NEW T, T \subseteq 0..LastTime, T = Times(shown)
  PROVE  ScansAgree
<1> DEFINE keys == KeysOf(following)
           own == {row \in following : row.fan = Scrolled}
           p == IdKeyOf[Scrolled]
<1>0. Scrolled \in Fan
  BY PageAssumption
<1>1. own = Rows /\ own \subseteq following
  BY DEF Rows
<1>2. \A row \in following :
        Decoded(KeyOf[row.fan][row.at]) = <<UserId[row.fan], Epoch + row.at>>
  <2> TAKE row \in following
  <2>1. /\ row.fan \in Fan /\ Epoch + row.at \in KeyTimes
        /\ RowKeyOf(row) = Key(row.fan, Epoch + row.at)
    BY RowTimes
  <2>2. Decoded(RowKeyOf(row)) = <<UserId[row.fan], Epoch + row.at>>
    BY <2>1, KeyDecodes
  <2> QED
    BY <2>2, Zenon DEF RowKeyOf
<1>3. \A fan \in Fan : ScanPrefix(keys, IdKeyOf[fan]) = KeysOf({row \in following : row.fan = fan})
  BY PrefixFinds
<1>4. LastOf(ScanPrefix(keys, p), PageSize + 1) = KeysOf(Newest(Rows, PageSize + 1))
  <2>1. ScanPrefix(keys, p) = KeysOf(own)
    BY <1>0, <1>3
  <2>2. \A row, other \in own : row.fan = other.fan
    OBVIOUS
  <2> HIDE DEF own
  <2>3. LastOf(KeysOf(own), PageSize + 1) = KeysOf(Newest(own, PageSize + 1))
    BY <1>1, <2>2, LastAreNewest
  <2> QED
    BY <1>1, <2>1, <2>3
<1>5. ASSUME NEW time \in T
      PROVE  /\ LastOf(ScanDown(keys, KeyOf[Scrolled][time], p), PageSize + 2)
                  = KeysOf(Newest(AtMost(Rows, time), PageSize + 2))
             /\ ScanUp(keys, KeyOf[Scrolled][time], LastKeyOf[Scrolled])
                  = KeysOf(AtLeast(Rows, time))
  <2> DEFINE older == {row \in following : row.fan = Scrolled /\ row.at <= time}
             newer == {row \in following : row.fan = Scrolled /\ row.at >= time}
  <2>0. time \in 0..LastTime
    OBVIOUS
  <2>1. older = AtMost(Rows, time) /\ newer = AtLeast(Rows, time)
    BY DEF AtMost, AtLeast, Rows
  <2>2. ScanDown(keys, KeyOf[Scrolled][time], p) = KeysOf(older)
    BY <1>0, <2>0, DownFinds
  <2>3. ScanUp(keys, KeyOf[Scrolled][time], LastKeyOf[Scrolled]) = KeysOf(newer)
    BY <1>0, <2>0, UpFinds
  <2>4. older \subseteq following /\ \A row, other \in older : row.fan = other.fan
    OBVIOUS
  <2> HIDE DEF older, newer
  <2>5. LastOf(KeysOf(older), PageSize + 2) = KeysOf(Newest(older, PageSize + 2))
    BY <2>4, LastAreNewest
  <2> QED
    BY <2>1, <2>2, <2>3, <2>5
<1> QED
  BY <1>2, <1>3, <1>4, <1>5, Zenon DEF ScansAgree

(* The clock stops at LastTime, so rows have times that keys are made for.  *)
ClockInv == clock <= LastTime

LEMMA ClockStep == ClientInv /\ ClockInv /\ [Next]_vars => ClockInv'
<1> SUFFICES ASSUME ClientInv, ClockInv, [Next]_vars PROVE ClockInv'
  OBVIOUS
<1>1. [FollowNext]_followVars
  BY DEF Next, FollowMeanwhile, vars, PageNext, Home, Scroll, Pull, Leave
<1>2. CASE Tick
  BY <1>2, InstanceAssumption DEF Tick, ClientInv, TypeOK, ClockInv
<1>3. CASE ~Tick
  <2>1. clock' = clock
    BY <1>1, <1>3
    DEF FollowNext, FollowStep, HasFollowed, Insert, Stamp, PutFollower, PutFollowing,
        UnfollowStep, Select, DeleteRow, Find, DeleteFollowing, DeleteFollower, Crash, TurnOn,
        followVars
  <2> QED
    BY <2>1 DEF ClockInv
<1> QED
  BY <1>2, <1>3

LEMMA ClockInvariant == Spec => []ClockInv
<1>1. Init => ClockInv
  BY ScanAssumption DEF Init, FollowInit, ClockInv
<1> QED
  BY <1>1, ClockStep, PagesInvariant, PTL DEF Spec

(* For any ids of at most Width digits and any times of one number of       *)
(* digits, whatever is put and deleted meanwhile: on the bytes of the keys  *)
(* the prefix scans, and the scans from the cursor down and up, return the  *)
(* rows that unfollows and pages take for their result, cut after the       *)
(* latest ones, and a key decodes to the id and the time of its row.        *)
THEOREM ScansFindRows == Spec => []ScansAgree
<1>1. ASSUME ClientInv, ClockInv PROVE ScansAgree
  <2>1. clock \in Nat /\ LastTime \in Nat /\ clock <= LastTime
    BY <1>1, InstanceAssumption DEF ClientInv, TypeOK, ClockInv
  <2>2. /\ following \subseteq Row /\ IsFiniteSet(following)
        /\ \A row, other \in following : SameFollowingKey(row, other) => row = other
        /\ \A row \in following : row.at <= clock
        /\ shown \subseteq Row /\ \A row \in shown : row.at <= clock
    BY <1>1 DEF ClientInv, TypeOK, RowsInv, PagesInv
  <2>3. \A row \in Row : row.at <= clock => row.at \in 0..LastTime
    BY <2>1 DEF Row
  <2>4. Keyed(following)
    BY <2>2, <2>3 DEF Keyed
  <2>5. Times(shown) \subseteq 0..LastTime
    BY <2>2, <2>3 DEF Times
  <2> QED
    BY <2>4, <2>5, KeyedAgree
<1> QED
  BY <1>1, PagesInvariant, ClockInvariant, PTL

-----------------------------------------------------------------------------
(* FeedStores, for any tweets, deliveries, clients, limit and turns.        *)
Stamps == Kind \cup {"none"}
Entries == [tweet : Tweet, kind : Kind]
Requests == [at : {"ask", "exists", "load", "install", "load_only", "page", "database", "error"},
             serializer : Stamps, objects : Seq(Entries), cursor : Stamps]
Places == {"queued", "write", "exists", "lpush", "done", "refused", "failed"}

FeedTypeOK ==
  /\ hbaseOn \in BOOLEAN /\ left \in Nat /\ answers \subseteq Kind
  /\ rows \in [Kind -> SUBSET Tweet]
  /\ list \in Seq(Entries) /\ expires \in BOOLEAN /\ raced \in BOOLEAN
  /\ stamp \in [Tweet -> Stamps]
  /\ delivery \in [Delivery -> Places]
  /\ client \in [Client -> Requests]
  /\ \A d \in Delivery : delivery[d] # "queued" => stamp[TweetOf[d]] # "none"

(* Whatever has a kind has it from an answer; a request at the list has     *)
(* asked for its kind, one in the database has a cursor; and what failed    *)
(* has met both kinds.                                                      *)
Sound(req, given) ==
  /\ Kinds(req.objects) \subseteq given
  /\ req.serializer \in given \cup {"none"} /\ req.cursor \in given \cup {"none"}
  /\ req.at \in {"exists", "load", "install"} => req.serializer # "none"
  /\ req.at = "database" => req.cursor # "none"
  /\ req.at = "error" => given = Kind

KindsInv ==
  /\ \A t \in Tweet : stamp[t] \in answers \cup {"none"}
  /\ Kinds(list) \subseteq answers
  /\ \A c \in Client : Sound(client[c], answers)
  /\ \A d \in Delivery : delivery[d] = "failed" => answers = Kind

-----------------------------------------------------------------------------
(* The list t is s behind a new head x, but for what fell off the end.      *)
Headed(t, x, s) ==
  /\ t # <<>> /\ DOMAIN t = 1..Len(t) /\ Len(t) \in Nat /\ t[1] = x
  /\ \A i \in 2..Len(t) : i - 1 \in DOMAIN s /\ t[i] = s[i - 1]

LEMMA PushFacts ==
  ASSUME NEW S, NEW s \in Seq(S), NEW x \in S, NEW n \in Nat \ {0}
  PROVE  Keep(<<x>> \o s, n) \in Seq(S) /\ Headed(Keep(<<x>> \o s, n), x, s)
<1> DEFINE u == <<x>> \o s
           m == IF Len(u) < n THEN Len(u) ELSE n
           t == Keep(u, n)
<1>1. u \in Seq(S) /\ Len(u) = Len(s) + 1 /\ Len(s) \in Nat /\ DOMAIN s = 1..Len(s) /\ DOMAIN u = 1..Len(u)
  OBVIOUS
<1>2. u[1] = x /\ \A i \in 2..Len(u) : u[i] = s[i - 1]
  OBVIOUS
<1>3. m \in 1..Len(u)
  BY <1>1
<1>4. t = SubSeq(u, 1, m)
  BY DEF Keep
<1> HIDE DEF m, t, u
<1>5. t \in Seq(S) /\ Len(t) = m /\ \A i \in 1..m : t[i] = u[i]
  <2>1. /\ SubSeq(u, 1, m) \in Seq(S) /\ Len(SubSeq(u, 1, m)) = m
        /\ \A i \in 1..m : SubSeq(u, 1, m)[i] = u[i]
    BY <1>1, <1>3
  <2> QED
    BY <1>4, <2>1
<1>6. DOMAIN t = 1..Len(t) /\ Len(t) \in Nat /\ t # <<>> /\ 1 \in 1..m
  BY <1>3, <1>5
<1>7. ASSUME NEW i \in 2..Len(t) PROVE i - 1 \in DOMAIN s /\ t[i] = s[i - 1]
  <2>1. i \in 2..Len(u) /\ i \in 1..m
    BY <1>1, <1>3, <1>5
  <2> QED
    BY <1>1, <1>2, <1>5, <2>1
<1>8. t[1] = x
  BY <1>2, <1>5, <1>6
<1> QED
  BY <1>5, <1>6, <1>7, <1>8 DEF Headed, t, u

(* What a push makes of the list.                                           *)
LEMMA LPushFacts ==
  ASSUME FeedTypeOK, NEW d \in Delivery, LPush(d)
  PROVE  /\ TweetOf[d] \in Tweet /\ stamp[TweetOf[d]] \in Kind
         /\ list' \in Seq(Entries)
         /\ Headed(list', Entry(TweetOf[d], stamp[TweetOf[d]]), list)
<1> DEFINE x == Entry(TweetOf[d], stamp[TweetOf[d]])
<1>1. TweetOf[d] \in Tweet /\ stamp[TweetOf[d]] \in Kind
  BY DeliveryAssumption DEF LPush, Deliver, FeedTypeOK, Stamps
<1>2. x \in Entries
  BY <1>1 DEF Entry, Entries
<1>3. list' = Keep(<<x>> \o list, Limit) /\ list \in Seq(Entries)
  BY DEF LPush, FeedTypeOK
<1> HIDE DEF x
<1>4. Limit \in Nat \ {0}
  BY BoundAssumption
<1>5. Keep(<<x>> \o list, Limit) \in Seq(Entries) /\ Headed(Keep(<<x>> \o list, Limit), x, list)
  BY <1>2, <1>3, <1>4, PushFacts
<1> QED
  BY <1>1, <1>3, <1>5 DEF x

Once(s) == \A i, j \in DOMAIN s : s[i] = s[j] => i = j

(* What a rebuild may get: entries of one kind, none twice.                 *)
LEMMA LoadFacts ==
  ASSUME FeedTypeOK, NEW kind \in Kind, NEW objects \in LazyLoad(kind)
  PROVE  objects \in Seq(Entries) /\ Kinds(objects) \subseteq {kind} /\ Once(objects)
<1>1. PICK s \in NewestRows(rows[kind], Limit) : objects = [i \in DOMAIN s |-> Entry(s[i], kind)]
  BY DEF LazyLoad
<1>2. PICK k \in 0..Limit : s \in [1..k -> rows[kind]]
  BY <1>1 DEF NewestRows
<1>3. k \in Nat /\ rows[kind] \subseteq Tweet
  BY <1>2, BoundAssumption DEF FeedTypeOK
<1>4. objects \in [1..k -> Entries]
  BY <1>1, <1>2, <1>3 DEF Entry, Entries
<1>5. objects \in Seq(Entries)
  BY <1>3, <1>4
<1>6. \A i \in DOMAIN objects : objects[i].kind = kind /\ objects[i].tweet = s[i]
  BY <1>1, <1>2 DEF Entry
<1>7. Distinct(s)
  BY <1>1 DEF NewestRows
<1> QED
  BY <1>1, <1>5, <1>6, <1>7 DEF Kinds, Once, Distinct

LEMMA StartType == ASSUME NEW cursor \in Stamps PROVE Start(cursor) \in Requests
<1>1. <<>> \in Seq(Entries)
  OBVIOUS
<1> QED
  BY <1>1 DEF Start, Requests, Stamps

LEMMA BecomeType ==
  ASSUME FeedTypeOK, NEW c \in Client, NEW req \in Requests, Become(c, req)
  PROVE  client' \in [Client -> Requests]
BY DEF FeedTypeOK, Become

LEMMA RequestType ==
  ASSUME NEW req \in Requests, NEW serializer \in Stamps, NEW objects \in Seq(Entries)
  PROVE  /\ [req EXCEPT !.at = "exists", !.serializer = serializer] \in Requests
         /\ [req EXCEPT !.at = "load"] \in Requests
         /\ [req EXCEPT !.at = "install", !.objects = objects] \in Requests
         /\ [req EXCEPT !.at = "page", !.objects = objects, !.serializer = "none"] \in Requests
         /\ [req EXCEPT !.at = "database"] \in Requests
         /\ [req EXCEPT !.at = "error"] \in Requests
         /\ [req EXCEPT !.at = "load_only"] \in Requests
BY DEF Requests, Stamps

LEMMA AsksType ==
  ASSUME FeedTypeOK, NEW kind \in Kind, Asks(kind)
  PROVE  /\ hbaseOn' \in BOOLEAN /\ left' \in Nat /\ answers' \subseteq Kind
         /\ answers' = answers \cup {kind}
BY DEF FeedTypeOK, Asks

LEMMA FeedTypeStep == FeedTypeOK /\ [FeedNext]_feedVars => FeedTypeOK'
<1> SUFFICES ASSUME FeedTypeOK, [FeedNext]_feedVars PROVE FeedTypeOK'
  OBVIOUS
<1> USE DEF switch, cache
<1>0. "none" \in Stamps /\ Kind \subseteq Stamps /\ <<>> \in Seq(Entries)
  BY DEF Stamps
<1>1. CASE Turn
  <2>1. left' \in Nat /\ hbaseOn' \in BOOLEAN
    BY <1>1 DEF Turn, FeedTypeOK
  <2> QED
    BY <1>1, <2>1 DEF Turn, FeedTypeOK
<1>2. ASSUME NEW t \in Tweet, Publish(t) PROVE FeedTypeOK'
  <2>1. PICK kind \in Kind : Asks(kind) /\ stamp' = [stamp EXCEPT ![t] = kind]
    BY <1>2 DEF Publish
  <2>2. stamp' \in [Tweet -> Stamps]
    BY <1>0, <2>1 DEF FeedTypeOK
  <2>3. \A d \in Delivery : delivery[d] # "queued" => stamp'[TweetOf[d]] # "none"
    BY <2>1, DeliveryAssumption DEF FeedTypeOK, Kind
  <2> QED
    BY <1>2, <2>1, <2>2, <2>3, AsksType DEF Publish, FeedTypeOK
<1>3. ASSUME NEW d \in Delivery, DeliveryStep(d) PROVE FeedTypeOK'
  <2> DEFINE t == TweetOf[d]
  <2>t. t \in Tweet /\ stamp[t] \in Stamps
    BY DeliveryAssumption DEF FeedTypeOK
  <2>1. delivery' \in [Delivery -> Places]
    BY <1>3 DEF DeliveryStep, AskStore, Write, PushExists, LPush, Deliver, FeedTypeOK, Places
  <2>6. \A e \in Delivery : delivery'[e] # "queued" => stamp[TweetOf[e]] # "none"
    BY <1>3 DEF DeliveryStep, AskStore, Write, PushExists, LPush, Deliver, FeedTypeOK
  <2>2. CASE AskStore(d)
    BY <2>1, <2>2, <2>6, AsksType DEF AskStore, FeedTypeOK
  <2>3. CASE Write(d)
    <3>1. rows' \in [Kind -> SUBSET Tweet]
      BY <2>3, <2>t DEF Write, InsertRow, FeedTypeOK
    <3> QED
      BY <2>1, <2>3, <2>6, <3>1 DEF Write, FeedTypeOK
  <2>4. CASE PushExists(d)
    BY <2>1, <2>4, <2>6 DEF PushExists, FeedTypeOK
  <2>5. CASE LPush(d)
    <3>3. list' \in Seq(Entries)
      BY <2>5, LPushFacts
    <3>4. raced' \in BOOLEAN
      BY <2>5 DEF LPush, FeedTypeOK
    <3> QED
      BY <2>1, <2>5, <2>6, <3>3, <3>4 DEF LPush, FeedTypeOK
  <2> QED
    BY <1>3, <2>2, <2>3, <2>4, <2>5 DEF DeliveryStep
<1>4. ASSUME NEW c \in Client, ClientStep(c) \/ RedisFails(c) PROVE FeedTypeOK'
  <2>1. client[c] \in Requests
    BY DEF FeedTypeOK
  <2>2. client' \in [Client -> Requests]
    <3>0. list \in Seq(Entries) /\ client[c].objects \in Seq(Entries) /\ client[c].cursor \in Stamps
      BY <2>1 DEF Requests, FeedTypeOK
    <3>1. CASE AskSerializer(c)
      <4>1. PICK kind \in Kind :
              Become(c, [client[c] EXCEPT !.at = "exists", !.serializer = kind])
        BY <3>1 DEF AskSerializer
      <4>2. [client[c] EXCEPT !.at = "exists", !.serializer = kind] \in Requests
        BY <1>0, <2>1, RequestType
      <4> QED
        BY <4>1, <4>2, BecomeType
    <3>2. CASE Hit(c)
      <4>1. /\ [client[c] EXCEPT !.at = "page", !.objects = list, !.serializer = "none"] \in Requests
            /\ [Start("none") EXCEPT !.at = "error"] \in Requests
        BY <1>0, <2>1, <3>0, StartType, RequestType
      <4> QED
        BY <3>2, <4>1, BecomeType DEF Hit, Answers, Fails
    <3>3. CASE Miss(c)
      BY <1>0, <2>1, <3>3, RequestType, BecomeType DEF Miss, At
    <3>4. CASE Load(c)
      <4>0. PICK kind \in Kind : \E objects \in LazyLoad(kind) :
               \/ Become(c, [client[c] EXCEPT !.at = "install", !.objects = objects])
               \/ Answers(c, objects)
        BY <3>4 DEF Load
      <4>1. PICK objects \in LazyLoad(kind) :
               \/ Become(c, [client[c] EXCEPT !.at = "install", !.objects = objects])
               \/ Answers(c, objects)
        BY <4>0
      <4>2. objects \in Seq(Entries)
        BY LoadFacts
      <4>3. /\ [client[c] EXCEPT !.at = "install", !.objects = objects] \in Requests
            /\ [client[c] EXCEPT !.at = "page", !.objects = objects, !.serializer = "none"]
                 \in Requests
        BY <1>0, <2>1, <4>2, RequestType
      <4> QED
        BY <4>1, <4>3, BecomeType DEF Answers
    <3>5. CASE Install(c)
      <4>1. /\ [client[c] EXCEPT !.at = "page", !.objects = client[c].objects, !.serializer = "none"]
                 \in Requests
            /\ [Start("none") EXCEPT !.at = "error"] \in Requests
        BY <1>0, <2>1, <3>0, StartType, RequestType
      <4> QED
        BY <3>5, <4>1, BecomeType DEF Install, Answers, Fails
    <3>6. CASE Page(c)
      <4>1. Kinds(client[c].objects) \subseteq Kind
        <5>1. \A i \in DOMAIN client[c].objects : client[c].objects[i] \in Entries
          BY <3>0
        <5> QED
          BY <5>1 DEF Kinds, Entries
      <4>2. /\ \A kind \in Stamps : Start(kind) \in Requests
            /\ [Start("none") EXCEPT !.at = "error"] \in Requests
            /\ [Start(client[c].cursor) EXCEPT !.at = "database"] \in Requests
        BY <1>0, <3>0, StartType, RequestType
      <4>3. PICK req \in Requests : Become(c, req)
        BY <1>0, <3>6, <4>1, <4>2 DEF Page, Fails
      <4> QED
        BY <4>3, BecomeType
    <3>7. CASE PageFromDatabase(c)
      <4>1. /\ \A kind \in Kind : Start(kind) \in Requests
            /\ [Start("none") EXCEPT !.at = "error"] \in Requests
        BY <1>0, StartType, RequestType
      <4>2. PICK req \in Requests : Become(c, req)
        BY <3>7, <4>1 DEF PageFromDatabase, Fails
      <4> QED
        BY <4>2, BecomeType
    <3>8. CASE Refresh(c)
      BY <1>0, <3>8, StartType, BecomeType DEF Refresh
    <3>9. CASE RedisFails(c)
      <4>1. [Start(client[c].cursor) EXCEPT !.at = "load_only"] \in Requests
        BY <1>0, <3>0, StartType, RequestType
      <4> QED
        BY <3>9, <4>1, BecomeType DEF RedisFails
    <3> QED
      BY <1>4, <3>1, <3>2, <3>3, <3>4, <3>5, <3>6, <3>7, <3>8, <3>9 DEF ClientStep
  <2>3. hbaseOn' \in BOOLEAN /\ left' \in Nat /\ answers' \subseteq Kind
    <3>1. CASE \E kind \in Kind : Asks(kind)
      BY <3>1, AsksType
    <3>2. CASE UNCHANGED switch
      BY <3>2 DEF FeedTypeOK
    <3>3. CASE RedisFails(c)
      BY <3>3 DEF RedisFails, FeedTypeOK
    <3> QED
      BY <1>4, <3>1, <3>2, <3>3 DEF ClientStep, AskSerializer, Hit, Miss, Load, Install, Page,
                                    PageFromDatabase, Refresh
  <2>4. list' \in Seq(Entries) /\ expires' \in BOOLEAN
    <3>1. CASE Install(c)
      BY <2>1, <3>1 DEF Install, FeedTypeOK, Requests
    <3>2. CASE ~Install(c)
      BY <1>4, <3>2 DEF ClientStep, AskSerializer, Hit, Miss, Load, Page, PageFromDatabase, Refresh,
                        RedisFails, FeedTypeOK
    <3> QED
      BY <3>1, <3>2
  <2>5. UNCHANGED <<rows, raced, stamp, delivery>>
    BY <1>4 DEF ClientStep, AskSerializer, Hit, Miss, Load, Install, Page, PageFromDatabase, Refresh,
                RedisFails
  <2> QED
    BY <2>2, <2>3, <2>4, <2>5 DEF FeedTypeOK
<1>5. CASE Expire
  <2>1. list' \in Seq(Entries) /\ expires' \in BOOLEAN
    BY <1>0, <1>5 DEF Expire
  <2> QED
    BY <1>5, <2>1 DEF Expire, FeedTypeOK
<1>6. CASE UNCHANGED feedVars
  BY <1>6 DEF feedVars, FeedTypeOK
<1> QED
  BY <1>1, <1>2, <1>3, <1>4, <1>5, <1>6 DEF FeedNext

LEMMA FeedInitTypes == FeedInit => FeedTypeOK
<1> SUFFICES ASSUME FeedInit PROVE FeedTypeOK
  OBVIOUS
<1>1. <<>> \in Seq(Entries) /\ Start("none") \in Requests
  BY StartType DEF Stamps
<1> QED
  BY <1>1, BoundAssumption DEF FeedInit, FeedTypeOK, Stamps, Places

(* Types of the switch, the two stores, the list and who uses them; nothing *)
(* is delivered before it is published.                                     *)
THEOREM FeedTypes == FeedSpec => []FeedTypeOK
BY FeedInitTypes, FeedTypeStep, PTL DEF FeedSpec

-----------------------------------------------------------------------------
LEMMA TwoKinds ==
  ASSUME NEW given \in SUBSET Kind, NEW a \in given, NEW b \in given, a # b PROVE given = Kind
BY DEF Kind

LEMMA SoundLater ==
  ASSUME NEW req, NEW given \in SUBSET Kind, NEW more \in SUBSET Kind, given \subseteq more,
         Sound(req, given)
  PROVE  Sound(req, more)
BY DEF Sound

LEMMA StartSound ==
  ASSUME NEW given \in SUBSET Kind, NEW cursor \in given \cup {"none"}
  PROVE  /\ Sound(Start(cursor), given)
         /\ Sound([Start(cursor) EXCEPT !.at = "load_only"], given)
         /\ cursor # "none" => Sound([Start(cursor) EXCEPT !.at = "database"], given)
         /\ given = Kind => Sound([Start(cursor) EXCEPT !.at = "error"], given)
<1>1. Kinds(<<>>) = {}
  BY DEF Kinds
<1> QED
  BY <1>1 DEF Sound, Start

LEMMA NoneIsNoKind == "none" \notin Kind
BY DEF Kind

(* What a client's step makes of its request is as sound as it was.         *)
LEMMA SoundStep ==
  ASSUME FeedTypeOK, KindsInv, NEW c \in Client, ClientStep(c) \/ RedisFails(c)
  PROVE  \E req : Become(c, req) /\ Sound(req, answers')
<1> USE DEF switch, cache
<1>0. /\ client[c] \in Requests /\ Sound(client[c], answers) /\ answers \in SUBSET Kind
      /\ Kinds(list) \subseteq answers
  BY DEF FeedTypeOK, KindsInv
<1>a. ASSUME NEW kind \in Kind, Asks(kind)
      PROVE  answers' \in SUBSET Kind /\ answers' = answers \cup {kind} /\ Sound(client[c], answers')
  BY <1>0, <1>a, AsksType, SoundLater
<1>1. CASE AskSerializer(c)
  <2> DEFINE Req(kind) == [client[c] EXCEPT !.at = "exists", !.serializer = kind]
  <2>1. PICK kind \in Kind : Asks(kind) /\ Become(c, Req(kind))
    BY <1>1 DEF AskSerializer
  <2>2. Sound(Req(kind), answers')
    BY <1>0, <1>a, <2>1, NoneIsNoKind DEF Sound, Requests
  <2> QED
    BY <2>1, <2>2
<1>2. CASE Hit(c)
  <2> DEFINE req == [client[c] EXCEPT !.at = "page", !.objects = list, !.serializer = "none"]
  <2>1. answers' = answers /\ client[c].serializer \in answers
    BY <1>0, <1>2 DEF Hit, Sound
  <2>2. Sound(req, answers)
    BY <1>0 DEF Sound, Requests
  <2>3. CASE Kinds(list) \subseteq {client[c].serializer}
    BY <1>2, <2>1, <2>2, <2>3 DEF Hit, Answers
  <2>4. CASE ~(Kinds(list) \subseteq {client[c].serializer})
    <3>1. answers = Kind
      BY <1>0, <2>1, <2>4, TwoKinds
    <3> QED
      BY <1>0, <1>2, <2>1, <2>4, <3>1, StartSound DEF Hit, Fails
  <2> QED
    BY <2>3, <2>4
<1>3. CASE Miss(c)
  <2>1. Sound([client[c] EXCEPT !.at = "load"], answers) /\ answers' = answers
    BY <1>0, <1>3 DEF Miss, At, Sound, Requests
  <2> QED
    BY <1>3, <2>1 DEF Miss, At
<1>4. CASE Load(c)
  <2> DEFINE Fill(objects) == [client[c] EXCEPT !.at = "install", !.objects = objects]
             Only(objects) ==
               [client[c] EXCEPT !.at = "page", !.objects = objects, !.serializer = "none"]
  <2>1. PICK kind \in Kind : \E objects \in LazyLoad(kind) :
           /\ Asks(kind)
           /\ \/ client[c].at = "load" /\ Become(c, Fill(objects))
              \/ client[c].at = "load_only" /\ Become(c, Only(objects))
    BY <1>4 DEF Load, Answers
  <2>2. PICK objects \in LazyLoad(kind) :
           /\ Asks(kind)
           /\ \/ client[c].at = "load" /\ Become(c, Fill(objects))
              \/ client[c].at = "load_only" /\ Become(c, Only(objects))
    BY <2>1
  <2>3. Kinds(objects) \subseteq answers'
    BY <1>a, <2>2, LoadFacts
  <2>4. Sound(Only(objects), answers')
    BY <1>0, <1>a, <2>2, <2>3 DEF Sound, Requests
  <2>5. client[c].at = "load" => Sound(Fill(objects), answers')
    BY <1>0, <1>a, <2>2, <2>3 DEF Sound, Requests
  <2> QED
    BY <2>2, <2>4, <2>5
<1>5. CASE Install(c)
  <2> DEFINE req == [client[c] EXCEPT !.at = "page", !.objects = client[c].objects,
                                      !.serializer = "none"]
  <2>1. answers' = answers /\ client[c].serializer \in answers
    BY <1>0, <1>5 DEF Install, Sound
  <2>2. Sound(req, answers)
    BY <1>0 DEF Sound, Requests
  <2>3. CASE Kinds(client[c].objects) \subseteq {client[c].serializer}
    BY <1>5, <2>1, <2>2, <2>3 DEF Install, Answers
  <2>4. CASE ~(Kinds(client[c].objects) \subseteq {client[c].serializer})
    <3>1. answers = Kind
      BY <1>0, <2>1, <2>4, TwoKinds DEF Sound
    <3> QED
      BY <1>0, <1>5, <2>1, <2>4, <3>1, StartSound DEF Install, Fails
  <2> QED
    BY <2>3, <2>4
<1>6. CASE Page(c)
  <2> DEFINE kinds  == Kinds(client[c].objects)
             cursor == client[c].cursor
  <2>1. answers' = answers /\ kinds \subseteq answers /\ cursor \in answers \cup {"none"}
    BY <1>0, <1>6 DEF Page, Sound
  <2>2. CASE cursor # "none" /\ ~(kinds \subseteq {cursor}) /\ Fails(c)
    <3>1. answers = Kind
      BY <1>0, <2>1, <2>2, TwoKinds
    <3> QED
      BY <1>0, <2>1, <2>2, <3>1, StartSound DEF Fails
  <2>3. CASE \/ \E kind \in kinds : Become(c, Start(kind))
             \/ kinds = {} /\ Become(c, Start("none"))
             \/ cursor # "none" /\ Become(c, [Start(cursor) EXCEPT !.at = "database"])
    BY <1>0, <2>1, <2>3, StartSound
  <2> QED
    BY <1>6, <2>2, <2>3 DEF Page
<1>7. CASE PageFromDatabase(c)
  <2>1. PICK kind \in Kind :
          /\ Asks(kind)
          /\ IF kind = client[c].cursor THEN Become(c, Start(kind)) ELSE Fails(c)
    BY <1>7 DEF PageFromDatabase
  <2>2. /\ answers' \in SUBSET Kind /\ kind \in answers'
        /\ client[c].cursor \in answers'
    BY <1>0, <1>7, <1>a, <2>1 DEF PageFromDatabase, Sound
  <2>3. CASE kind = client[c].cursor
    BY <2>1, <2>2, <2>3, StartSound
  <2>4. CASE kind # client[c].cursor
    <3>1. answers' = Kind
      BY <2>2, <2>4, TwoKinds
    <3> QED
      BY <2>1, <2>4, <3>1, StartSound DEF Fails
  <2> QED
    BY <2>3, <2>4
<1>8. CASE Refresh(c)
  BY <1>0, <1>8, StartSound DEF Refresh
<1>9. CASE RedisFails(c)
  <2>1. client[c].cursor \in answers \cup {"none"} /\ answers' = answers
    BY <1>0, <1>9 DEF RedisFails, Sound
  <2> QED
    BY <1>0, <1>9, <2>1, StartSound DEF RedisFails
<1> QED
  BY <1>1, <1>2, <1>3, <1>4, <1>5, <1>6, <1>7, <1>8, <1>9 DEF ClientStep

LEMMA KindsInvStep == FeedTypeOK /\ KindsInv /\ [FeedNext]_feedVars => KindsInv'
<1> SUFFICES ASSUME FeedTypeOK, KindsInv, [FeedNext]_feedVars PROVE KindsInv'
  OBVIOUS
<1> USE DEF switch, cache
<1>1. FeedTypeOK'
  BY FeedTypeStep
<1>2. answers \subseteq answers' /\ answers \in SUBSET Kind /\ answers' \in SUBSET Kind
  <2>1. \/ answers' = answers
        \/ \E kind \in Kind : Asks(kind)
    BY DEF FeedNext, Turn, Publish, DeliveryStep, AskStore, Write, PushExists, LPush, ClientStep,
           AskSerializer, Hit, Miss, Load, Install, Page, PageFromDatabase, Refresh, RedisFails,
           Expire, feedVars
  <2> QED
    BY <1>1, <2>1, AsksType DEF FeedTypeOK
<1>3. ASSUME NEW t \in Tweet, Publish(t) PROVE KindsInv'
  <2>1. PICK kind \in Kind : Asks(kind) /\ stamp' = [stamp EXCEPT ![t] = kind]
    BY <1>3 DEF Publish
  <2>2. \A u \in Tweet : stamp'[u] \in answers' \cup {"none"}
    BY <1>2, <2>1, AsksType DEF KindsInv, FeedTypeOK
  <2> QED
    BY <1>2, <1>3, <2>2, SoundLater DEF Publish, KindsInv
<1>4. ASSUME NEW d \in Delivery, DeliveryStep(d) PROVE KindsInv'
  <2>1. UNCHANGED <<stamp, client>>
    BY <1>4 DEF DeliveryStep, AskStore, Write, PushExists, LPush
  <2>2. Kinds(list') \subseteq answers'
    <3>1. CASE LPush(d)
      <4>3. /\ TweetOf[d] \in Tweet /\ stamp[TweetOf[d]] \in Kind
            /\ DOMAIN list' = 1..Len(list') /\ Len(list') \in Nat
            /\ list'[1] = Entry(TweetOf[d], stamp[TweetOf[d]])
            /\ \A i \in 2..Len(list') : i - 1 \in DOMAIN list /\ list'[i] = list[i - 1]
        BY <3>1, LPushFacts DEF Headed
      <4>4. stamp[TweetOf[d]] \in answers
        BY <4>3, NoneIsNoKind DEF KindsInv
      <4>5. ASSUME NEW i \in DOMAIN list' PROVE list'[i].kind \in answers
        <5>1. CASE i = 1
          BY <4>3, <4>4, <5>1 DEF Entry
        <5>2. CASE i \in 2..Len(list')
          BY <4>3, <5>2 DEF KindsInv, Kinds
        <5> QED
          BY <4>3, <5>1, <5>2
      <4> QED
        BY <1>2, <4>5 DEF Kinds
    <3>2. CASE ~LPush(d)
      <4>1. list' = list
        BY <1>4, <3>2 DEF DeliveryStep, AskStore, Write, PushExists
      <4> QED
        BY <1>2, <4>1 DEF KindsInv
    <3> QED
      BY <3>1, <3>2
  <2>3. ASSUME NEW e \in Delivery, delivery'[e] = "failed" PROVE answers' = Kind
    <3>1. CASE delivery[e] = "failed"
      BY <1>2, <3>1 DEF KindsInv
    <3>2. CASE delivery[e] # "failed"
      <4>1. e = d /\ AskStore(d)
        BY <1>4, <2>3, <3>2 DEF DeliveryStep, AskStore, Write, PushExists, LPush, Deliver, FeedTypeOK
      <4>2. PICK kind \in Kind : Asks(kind) /\ kind # stamp[TweetOf[d]]
        BY <2>3, <4>1 DEF AskStore, Deliver, FeedTypeOK
      <4>3. stamp[TweetOf[d]] \in answers
        BY <4>1, DeliveryAssumption DEF AskStore, KindsInv
      <4> QED
        BY <1>2, <4>2, <4>3, AsksType, TwoKinds
    <3> QED
      BY <3>1, <3>2
  <2> QED
    BY <1>2, <2>1, <2>2, <2>3, SoundLater DEF KindsInv
<1>5. ASSUME NEW c \in Client, ClientStep(c) \/ RedisFails(c) PROVE KindsInv'
  <2>1. PICK req : Become(c, req) /\ Sound(req, answers')
    BY <1>5, SoundStep
  <2>2. \A e \in Client : client'[e] = client[e] \/ client'[e] = req
    BY <2>1 DEF Become, FeedTypeOK
  <2>3. \A e \in Client : Sound(client'[e], answers')
    BY <1>2, <2>1, <2>2, SoundLater DEF KindsInv
  <2>4. UNCHANGED <<stamp, delivery>>
    BY <1>5 DEF ClientStep, AskSerializer, Hit, Miss, Load, Install, Page, PageFromDatabase, Refresh,
                RedisFails
  <2>5. list' = list \/ list' = client[c].objects
    BY <1>5 DEF ClientStep, AskSerializer, Hit, Miss, Load, Install, Page, PageFromDatabase, Refresh,
                RedisFails
  <2>6. Kinds(list') \subseteq answers'
    BY <1>2, <2>5 DEF KindsInv, Sound
  <2> QED
    BY <1>2, <2>3, <2>4, <2>6 DEF KindsInv
<1>6. CASE Turn \/ UNCHANGED feedVars
  BY <1>6 DEF Turn, feedVars, KindsInv
<1>7. CASE Expire
  <2>1. Kinds(list') = {}
    BY <1>7 DEF Expire, Kinds
  <2> QED
    BY <1>7, <2>1 DEF Expire, KindsInv
<1> QED
  BY <1>3, <1>4, <1>5, <1>6, <1>7 DEF FeedNext

LEMMA FeedInitKinds == FeedInit => KindsInv
<1> SUFFICES ASSUME FeedInit PROVE KindsInv
  OBVIOUS
<1>1. Kinds(<<>>) = {}
  BY DEF Kinds
<1>2. Sound(Start("none"), {})
  BY StartSound
<1> QED
  BY <1>1, <1>2 DEF FeedInit, KindsInv

(* For any tweets, deliveries, clients and turns: nothing fails unless the  *)
(* switch has answered both ways.                                           *)
THEOREM FailuresNeedTwoAnswers == FeedSpec => []ErrorsNeedTwoAnswers
<1>1. KindsInv => ErrorsNeedTwoAnswers
  BY DEF KindsInv, Sound, ErrorsNeedTwoAnswers
<1> QED
  BY <1>1, FeedInitKinds, KindsInvStep, FeedTypes, PTL DEF FeedSpec

-----------------------------------------------------------------------------
(* A key without an expiry was made by a push.                              *)
ForeverByRace == list # <<>> /\ ~expires => raced

LEMMA ForeverStep == FeedTypeOK /\ ForeverByRace /\ [FeedNext]_feedVars => ForeverByRace'
<1> SUFFICES ASSUME FeedTypeOK, ForeverByRace, [FeedNext]_feedVars PROVE ForeverByRace'
  OBVIOUS
<1> USE DEF switch, cache, ForeverByRace
<1>1. CASE UNCHANGED cache
  BY <1>1
<1>2. ASSUME NEW d \in Delivery, LPush(d) PROVE ForeverByRace'
  BY <1>2 DEF LPush, FeedTypeOK
<1>3. ASSUME NEW c \in Client, Install(c) PROVE ForeverByRace'
  BY <1>3 DEF Install, FeedTypeOK
<1>4. CASE Expire
  BY <1>4 DEF Expire
<1> QED
  BY <1>1, <1>2, <1>3, <1>4
     DEF FeedNext, Turn, Publish, DeliveryStep, AskStore, Write, PushExists, ClientStep,
         AskSerializer, Hit, Miss, Load, Page, PageFromDatabase, Refresh, RedisFails, feedVars

(* A list that will never expire was made by a push that found the key gone *)
(* after it had seen it: the race that ListReadable excepts is its only one.*)
THEOREM ForeverOnlyByRace == FeedSpec => []ForeverByRace
<1>1. FeedInit => ForeverByRace
  BY DEF FeedInit, ForeverByRace
<1> QED
  BY <1>1, ForeverStep, FeedTypes, PTL DEF FeedSpec

-----------------------------------------------------------------------------

(* While the rows of a tweet are MySQL's, one delivery of it gets past the  *)
(* insertion, and only it pushes the tweet.                                 *)
Passed == {d \in Delivery : delivery[d] \in {"exists", "lpush", "done"}}

PassedInv ==
  \A d, e \in Passed : stamp[TweetOf[d]] = "mysql" =>
    /\ TweetOf[d] \in rows["mysql"]
    /\ TweetOf[e] = TweetOf[d] => e = d

AtMostTwo(s, x) ==
  \A i, j, k \in DOMAIN s : s[i] = x /\ s[j] = x /\ s[k] = x => i = j \/ j = k \/ i = k

AtMostOne(s, x) == \A i, j \in DOMAIN s : s[i] = x /\ s[j] = x => i = j

Pushed(t) == stamp[t] = "mysql" /\ \E d \in Delivery : TweetOf[d] = t /\ delivery[d] = "done"

CopiesInv ==
  /\ \A c \in Client : client[c].at = "install" => Once(client[c].objects)
  /\ \A t \in Tweet :
       IF Pushed(t) THEN AtMostTwo(list, Entry(t, "mysql")) ELSE AtMostOne(list, Entry(t, "mysql"))

LEMMA PassedInvStep == FeedTypeOK /\ PassedInv /\ [FeedNext]_feedVars => PassedInv'
<1> SUFFICES ASSUME FeedTypeOK, PassedInv, [FeedNext]_feedVars PROVE PassedInv'
  OBVIOUS
<1> USE DEF switch, cache
<1>0. \A d \in Delivery : TweetOf[d] \in Tweet
  BY DeliveryAssumption
<1>1. ASSUME NEW t \in Tweet, Publish(t) PROVE PassedInv'
  <2>1. \A d \in Passed : stamp'[TweetOf[d]] = stamp[TweetOf[d]]
    BY <1>0, <1>1 DEF Publish, FeedTypeOK, Passed
  <2> QED
    BY <1>1, <2>1 DEF Publish, PassedInv, Passed
<1>2. ASSUME NEW d \in Delivery, AskStore(d) PROVE PassedInv'
  <2>1. Passed' \subseteq Passed
    BY <1>2 DEF AskStore, Deliver, FeedTypeOK, Passed
  <2> QED
    BY <1>2, <2>1 DEF AskStore, PassedInv
<1>3. ASSUME NEW d \in Delivery, Write(d) PROVE PassedInv'
  <2>1. UNCHANGED stamp /\ \A t \in rows["mysql"] : t \in rows'["mysql"]
    BY <1>3 DEF Write, InsertRow, FeedTypeOK, Kind
  <2>2. CASE delivery'[d] = "exists"
    <3>1. /\ ~(stamp[TweetOf[d]] = "mysql" /\ TweetOf[d] \in rows["mysql"])
          /\ InsertRow(TweetOf[d], stamp[TweetOf[d]])
      BY <1>3, <2>2 DEF Write, Deliver, FeedTypeOK
    <3>2. stamp[TweetOf[d]] = "mysql" => TweetOf[d] \in rows'["mysql"]
      BY <3>1 DEF InsertRow, FeedTypeOK, Kind
    <3>3. Passed' \subseteq Passed \cup {d}
      BY <1>3 DEF Write, Deliver, FeedTypeOK, Passed
    <3>4. ASSUME NEW e \in Passed, stamp[TweetOf[e]] = "mysql" PROVE TweetOf[e] # TweetOf[d]
      BY <3>1, <3>4 DEF PassedInv
    <3> QED
      BY <2>1, <3>2, <3>3, <3>4 DEF PassedInv
  <2>3. CASE delivery'[d] # "exists"
    <3>1. Passed' \subseteq Passed
      BY <1>3, <2>3 DEF Write, Deliver, FeedTypeOK, Passed
    <3> QED
      BY <2>1, <3>1 DEF PassedInv
  <2> QED
    BY <2>2, <2>3
<1>4. ASSUME NEW d \in Delivery, PushExists(d) \/ LPush(d) PROVE PassedInv'
  <2>1. Passed' \subseteq Passed
    BY <1>4 DEF PushExists, LPush, Deliver, FeedTypeOK, Passed
  <2> QED
    BY <1>4, <2>1 DEF PushExists, LPush, PassedInv
<1>5. CASE UNCHANGED <<rows, stamp, delivery>>
  BY <1>5 DEF PassedInv, Passed
<1> QED
  BY <1>1, <1>2, <1>3, <1>4, <1>5
     DEF FeedNext, Turn, DeliveryStep, ClientStep, AskSerializer, Hit, Miss, Load, Install, Page,
         PageFromDatabase, Refresh, RedisFails, Expire, feedVars

LEMMA OnceIsOne == ASSUME NEW s, Once(s), NEW x PROVE AtMostOne(s, x)
BY DEF Once, AtMostOne

LEMMA OneIsTwo == ASSUME NEW s, NEW x, AtMostOne(s, x) PROVE AtMostTwo(s, x)
BY DEF AtMostOne, AtMostTwo

(* A push adds one copy of its own entry and none of the others.            *)
LEMMA HeadedCopies ==
  ASSUME NEW t, NEW x, NEW s, Headed(t, x, s), NEW y
  PROVE  /\ AtMostOne(s, y) => AtMostTwo(t, y)
         /\ x # y /\ AtMostOne(s, y) => AtMostOne(t, y)
         /\ x # y /\ AtMostTwo(s, y) => AtMostTwo(t, y)
<1>1. \A i \in DOMAIN t : i \in Nat /\ (i = 1 \/ (i \in 2..Len(t) /\ i - 1 \in DOMAIN s /\ t[i] = s[i - 1]))
  BY DEF Headed
<1>2. t[1] = x
  BY DEF Headed
<1>3. \A i, j \in Nat : i - 1 = j - 1 => i = j
  OBVIOUS
<1>4. ASSUME x # y, AtMostOne(s, y), NEW i \in DOMAIN t, NEW j \in DOMAIN t, t[i] = y, t[j] = y
      PROVE  i = j
  BY <1>1, <1>2, <1>3, <1>4 DEF AtMostOne
<1>5. ASSUME x # y, AtMostTwo(s, y), NEW i \in DOMAIN t, NEW j \in DOMAIN t, NEW k \in DOMAIN t,
             t[i] = y, t[j] = y, t[k] = y
      PROVE  i = j \/ j = k \/ i = k
  <2>1. /\ i \in Nat /\ i - 1 \in DOMAIN s /\ s[i - 1] = y
        /\ j \in Nat /\ j - 1 \in DOMAIN s /\ s[j - 1] = y
        /\ k \in Nat /\ k - 1 \in DOMAIN s /\ s[k - 1] = y
    BY <1>1, <1>2, <1>5
  <2>2. i - 1 = j - 1 \/ j - 1 = k - 1 \/ i - 1 = k - 1
    BY <1>5, <2>1 DEF AtMostTwo
  <2> QED
    BY <1>3, <2>1, <2>2
<1>6. ASSUME AtMostOne(s, y), NEW i \in DOMAIN t, NEW j \in DOMAIN t, NEW k \in DOMAIN t,
             t[i] = y, t[j] = y, t[k] = y
      PROVE  i = j \/ j = k \/ i = k
  BY <1>1, <1>2, <1>3, <1>6 DEF AtMostOne
<1> QED
  BY <1>4, <1>5, <1>6 DEF AtMostOne, AtMostTwo

LEMMA CopiesInvStep ==
  FeedTypeOK /\ PassedInv /\ CopiesInv /\ [FeedNext]_feedVars => CopiesInv'
<1> SUFFICES ASSUME FeedTypeOK, PassedInv, CopiesInv, [FeedNext]_feedVars PROVE CopiesInv'
  OBVIOUS
<1> USE DEF switch, cache
<1>0. \A d \in Delivery : TweetOf[d] \in Tweet
  BY DeliveryAssumption
<1>1. ASSUME NEW t \in Tweet, Publish(t) PROVE CopiesInv'
  <2>1. \A u \in Tweet : Pushed(u)' <=> Pushed(u)
    BY <1>0, <1>1 DEF Publish, FeedTypeOK, Pushed
  <2> QED
    BY <1>1, <2>1 DEF Publish, CopiesInv
<1>2. ASSUME NEW d \in Delivery, AskStore(d) \/ Write(d) \/ PushExists(d) PROVE CopiesInv'
  <2>1. \A u \in Tweet : Pushed(u) => Pushed(u)'
    BY <1>2 DEF AskStore, Write, PushExists, Deliver, FeedTypeOK, Pushed
  <2> QED
    BY <1>2, <2>1, OneIsTwo DEF AskStore, Write, PushExists, CopiesInv
<1>3. ASSUME NEW d \in Delivery, LPush(d) PROVE CopiesInv'
  <2> DEFINE x == Entry(TweetOf[d], stamp[TweetOf[d]])
  <2>1. Headed(list', x, list)
    BY <1>3, LPushFacts
  <2>2. UNCHANGED <<stamp, client>> /\ delivery[d] = "lpush" /\ delivery'[d] = "done"
    BY <1>3 DEF LPush, Deliver, FeedTypeOK
  <2>3. \A u \in Tweet : Pushed(u) => Pushed(u)'
    BY <1>3 DEF LPush, Deliver, FeedTypeOK, Pushed
  <2>4. ASSUME NEW u \in Tweet, x = Entry(u, "mysql") PROVE Pushed(u)' /\ ~Pushed(u)
    <3>1. u = TweetOf[d] /\ stamp[u] = "mysql"
      BY <2>4 DEF Entry
    <3>2. ASSUME NEW e \in Delivery, TweetOf[e] = u, delivery[e] = "done" PROVE FALSE
      <4>1. d \in Passed /\ e \in Passed
        BY <2>2, <3>2 DEF Passed
      <4> QED
        BY <2>2, <3>1, <3>2, <4>1 DEF PassedInv
    <3> QED
      BY <2>2, <3>1, <3>2 DEF Pushed
  <2> HIDE DEF x
  <2>5. ASSUME NEW u \in Tweet
        PROVE  IF Pushed(u)' THEN AtMostTwo(list', Entry(u, "mysql"))
                             ELSE AtMostOne(list', Entry(u, "mysql"))
    <3>1. IF Pushed(u) THEN AtMostTwo(list, Entry(u, "mysql")) ELSE AtMostOne(list, Entry(u, "mysql"))
      BY DEF CopiesInv
    <3>2. CASE x = Entry(u, "mysql")
      BY <2>1, <2>4, <3>1, <3>2, HeadedCopies
    <3>3. CASE x # Entry(u, "mysql")
      <4>1. AtMostOne(list, Entry(u, "mysql")) => AtMostOne(list', Entry(u, "mysql"))
        BY <2>1, <3>3, HeadedCopies
      <4>2. AtMostTwo(list, Entry(u, "mysql")) => AtMostTwo(list', Entry(u, "mysql"))
        BY <2>1, <3>3, HeadedCopies
      <4> QED
        BY <2>3, <3>1, <4>1, <4>2, OneIsTwo
    <3> QED
      BY <3>2, <3>3
  <2> QED
    BY <2>2, <2>5 DEF CopiesInv
<1>4. ASSUME NEW c \in Client, ClientStep(c) \/ RedisFails(c) PROVE CopiesInv'
  <2>1. UNCHANGED <<stamp, delivery>>
    BY <1>4 DEF ClientStep, AskSerializer, Hit, Miss, Load, Install, Page, PageFromDatabase, Refresh,
                RedisFails
  <2>2. \A u \in Tweet : Pushed(u)' <=> Pushed(u)
    BY <2>1 DEF Pushed
  <2>3. list' = list \/ (list' = client[c].objects /\ Once(client[c].objects))
    BY <1>4 DEF ClientStep, AskSerializer, Hit, Miss, Load, Install, Page, PageFromDatabase, Refresh,
                RedisFails, CopiesInv
  <2>4. ASSUME NEW e \in Client, client'[e].at = "install" PROVE Once(client'[e].objects)
    <3>1. CASE client'[e] = client[e]
      BY <2>4, <3>1 DEF CopiesInv
    <3>2. CASE e = c
      <4>1. client[c] \in Requests
        BY DEF FeedTypeOK
      <4>a. ASSUME NEW req, Become(c, req) PROVE client'[c] = req
        BY <4>a DEF Become, FeedTypeOK
      <4>b. ASSUME NEW cursor
            PROVE  /\ Start(cursor).at = "ask" /\ [Start(cursor) EXCEPT !.at = "error"].at = "error"
                   /\ [Start(cursor) EXCEPT !.at = "database"].at = "database"
                   /\ [Start(cursor) EXCEPT !.at = "load_only"].at = "load_only"
        BY DEF Start
      <4>c. ~AskSerializer(c) /\ ~Miss(c)
        BY <2>4, <3>2, <4>1, <4>a DEF AskSerializer, Miss, At, Requests
      <4>d. ~Hit(c) /\ ~Install(c)
        BY <2>4, <3>2, <4>1, <4>a, <4>b DEF Hit, Install, Answers, Fails, Requests
      <4>e. ~Page(c) /\ ~PageFromDatabase(c) /\ ~Refresh(c) /\ ~RedisFails(c)
        BY <2>4, <3>2, <4>a, <4>b DEF Page, PageFromDatabase, Refresh, RedisFails, Fails
      <4>2. Load(c)
        BY <1>4, <4>c, <4>d, <4>e DEF ClientStep
      <4>3. PICK kind \in Kind : \E objects \in LazyLoad(kind) :
               \/ Become(c, [client[c] EXCEPT !.at = "install", !.objects = objects])
               \/ Answers(c, objects)
        BY <4>2 DEF Load
      <4>4. PICK objects \in LazyLoad(kind) :
               \/ Become(c, [client[c] EXCEPT !.at = "install", !.objects = objects])
               \/ Answers(c, objects)
        BY <4>3
      <4>5. client'[c].objects = objects
        BY <4>1, <4>4, <4>a DEF Answers, Requests
      <4> QED
        BY <3>2, <4>5, LoadFacts
    <3> QED
      BY <1>4, <3>1, <3>2
         DEF ClientStep, AskSerializer, Hit, Miss, Load, Install, Page, PageFromDatabase, Refresh,
             RedisFails, At, Answers, Fails, Become, FeedTypeOK
  <2>5. ASSUME NEW u \in Tweet
        PROVE  IF Pushed(u) THEN AtMostTwo(list', Entry(u, "mysql"))
                            ELSE AtMostOne(list', Entry(u, "mysql"))
    BY <2>3, OnceIsOne, OneIsTwo DEF CopiesInv
  <2> QED
    BY <2>2, <2>4, <2>5 DEF CopiesInv
<1>5. CASE Turn \/ UNCHANGED feedVars
  BY <1>5 DEF Turn, feedVars, CopiesInv, Pushed
<1>6. CASE Expire
  <2>1. \A x : AtMostOne(list', x) /\ AtMostTwo(list', x)
    BY <1>6 DEF Expire, AtMostOne, AtMostTwo
  <2> QED
    BY <1>6, <2>1 DEF Expire, CopiesInv, Pushed
<1> QED
  BY <1>1, <1>2, <1>3, <1>4, <1>5, <1>6 DEF FeedNext, DeliveryStep

LEMMA TwoAreTwo ==
  ASSUME NEW S, NEW a, NEW b, S \subseteq {a, b} PROVE IsFiniteSet(S) /\ Cardinality(S) <= 2
<1>1. IsFiniteSet({a}) /\ Cardinality({a}) = 1
  BY FS_Singleton
<1>2. /\ IsFiniteSet({a} \cup {b})
      /\ Cardinality({a} \cup {b}) = IF b \in {a} THEN Cardinality({a}) ELSE Cardinality({a}) + 1
  BY <1>1, FS_AddElement
<1>3. S \in SUBSET ({a} \cup {b})
  OBVIOUS
<1>4. IsFiniteSet(S) /\ Cardinality(S) <= Cardinality({a} \cup {b})
  BY <1>2, <1>3, FS_Subset
<1>5. Cardinality(S) \in Nat
  BY <1>4, FS_CardinalityType
<1> QED
  BY <1>1, <1>2, <1>4, <1>5

(* A set without three different members has at most two.                   *)
LEMMA NoThree ==
  ASSUME NEW S, \A i, j, k \in S : i = j \/ j = k \/ i = k PROVE Cardinality(S) <= 2
<1>1. CASE S = {}
  BY <1>1, FS_EmptySet
<1>2. ASSUME NEW a \in S PROVE \E b \in S : S \subseteq {a, b}
  OBVIOUS
<1>3. CASE S # {}
  BY <1>2, <1>3, TwoAreTwo
<1> QED
  BY <1>1, <1>3

(* For any tweets, deliveries and clients: as long as its rows are MySQL's, *)
(* a tweet is in the list at most twice, however often it is delivered.     *)
THEOREM CopiesAreBounded == FeedSpec => []CopiesBounded
<1>1. CopiesInv => CopiesBounded
  <2> SUFFICES ASSUME CopiesInv, NEW t \in Tweet
               PROVE  Cardinality({i \in DOMAIN list : list[i] = Entry(t, "mysql")}) <= 2
    BY DEF CopiesBounded
  <2>1. AtMostTwo(list, Entry(t, "mysql"))
    BY OneIsTwo DEF CopiesInv
  <2> QED
    BY <2>1, NoThree DEF AtMostTwo
<1>2. FeedInit => PassedInv /\ CopiesInv
  BY DEF FeedInit, PassedInv, Passed, CopiesInv, Pushed, AtMostOne, Start
<1> QED
  BY <1>1, <1>2, PassedInvStep, CopiesInvStep, FeedTypes, PTL DEF FeedSpec
=============================================================================
