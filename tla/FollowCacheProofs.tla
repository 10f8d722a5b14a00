------------------------- MODULE FollowCacheProofs -------------------------
(* Proofs about FollowCache, for any targets, requests and viewers.        *)
EXTENDS FollowCache, TLAPS

(* Where a process goes once it has the set.                                *)
LEMMA AfterType ==
  ASSUME NEW p \in Process, NEW S
  PROVE  After(p, S) \in {"get", "created", "duplicate", "insert"}
  BY DEF After

(* The row a follow writes is a row, and rows name targets.                 *)
LEMMA RowType == ASSUME NEW p \in Follower PROVE RowOf(p) \in Row
  BY RequestAssumption DEF RowOf, Row

LEMMA FollowedType == TypeOK => Followed \in SUBSET Target
  BY DEF TypeOK, Followed, Row

-----------------------------------------------------------------------------
(* Every step keeps the types: what memcached has and what processes hold   *)
(* are sets of targets, and a set that memcached lacks is {}.               *)
LEMMA TypeStep == TypeOK /\ [Next]_vars => TypeOK'
<1> SUFFICES ASSUME TypeOK, [Next]_vars PROVE TypeOK'
  OBVIOUS
<1> USE RequestAssumption DEF TypeOK, Step, Goto, Rendering, Ended, Process, Reader
<1>1. ASSUME NEW p \in Reader, Get(p) PROVE TypeOK'
  <2>1. CASE warm
    <3>1. After(p, cached) \in {"get", "created", "duplicate", "insert"}
      BY AfterType
    <3> QED
      BY <1>1, <2>1, <3>1 DEF Get
  <2>2. CASE ~warm
    BY <1>1, <2>2 DEF Get, Missed
  <2> QED
    BY <2>1, <2>2
<1>2. ASSUME NEW p \in Reader, Load(p) PROVE TypeOK'
  BY <1>2, FollowedType DEF Load
<1>3. ASSUME NEW p \in Reader, Fill(p) PROVE TypeOK'
  BY <1>3, AfterType DEF Fill
<1>4. ASSUME NEW p \in Follower, Insert(p) PROVE TypeOK'
  BY <1>4, RowType DEF Insert
<1>5. ASSUME NEW p \in Follower, Invalidate(p) PROVE TypeOK'
  BY <1>5 DEF Invalidate, Forget
<1>6. ASSUME NEW p \in Unfollower, Select(p) PROVE TypeOK'
  <2>1. \/ found' = found
        \/ \E chosen \in SUBSET RowsFor(TargetOf[p]) : found' = [found EXCEPT ![p] = chosen]
    <3>1. {{row} : row \in RowsFor(TargetOf[p])} \subseteq SUBSET RowsFor(TargetOf[p])
      OBVIOUS
    <3> QED
      BY <1>6, <3>1 DEF Select
  <2>2. found' \in [Unfollower -> SUBSET Row]
    BY <2>1 DEF RowsFor
  <2>3. \A q \in Unfollower : \A row \in found'[q] : row.target = TargetOf[q]
    BY <2>1 DEF RowsFor
  <2> QED
    BY <1>6, <2>2, <2>3 DEF Select
<1>7. ASSUME NEW p \in Unfollower, InvalidateFirst(p) PROVE TypeOK'
  BY <1>7 DEF InvalidateFirst, Forget
<1>8. ASSUME NEW p \in Unfollower, Delete(p) PROVE TypeOK'
  BY <1>8 DEF Delete
<1>9. ASSUME NEW p \in Process, MemcachedFails(p) PROVE TypeOK'
  BY <1>9, AfterType DEF MemcachedFails, Missed
<1>10. ASSUME NEW p \in Process, Crash(p) PROVE TypeOK'
  BY <1>10 DEF Crash
<1>11. CASE Timeout
  BY <1>11 DEF Timeout, Forget
<1>12. CASE UNCHANGED vars
  BY <1>12 DEF vars
<1>13. ASSUME NEW p \in Follower, InvalidateBeforePut(p) PROVE TypeOK'
  BY <1>13 DEF InvalidateBeforePut, Forget
<1>14. ASSUME NEW p \in Follower, Put(p) PROVE TypeOK'
  BY <1>14, RowType DEF Put
<1> QED
  BY <1>1, <1>2, <1>3, <1>4, <1>5, <1>6, <1>7, <1>8, <1>9, <1>10, <1>11, <1>12, <1>13, <1>14
  DEF Next, ReadStep, FollowStep, UnfollowStep

(* The types of FollowCache hold in every reachable state.                  *)
THEOREM Typed == Spec => []TypeOK
<1>1. Init => TypeOK
  BY RequestAssumption DEF Init, TypeOK, Followed, Row, Process, Rendering, Ended
<1> QED
  BY <1>1, TypeStep, PTL DEF Spec

-----------------------------------------------------------------------------
(* The users that a set may rightly name.  They only become more: once an   *)
(* unfollow has come through that stays so, and only a Delete removes rows. *)
Known == Followed \cup Unfollowed

KnownGrow == Known \subseteq Known' /\ Unfollowed \subseteq Unfollowed'

LEMMA UnfollowedGrows ==
  ASSUME TypeOK, NEW p \in Process, NEW next, Goto(p, next), pc[p] # "deleted"
  PROVE  Unfollowed \subseteq Unfollowed'
  BY RequestAssumption DEF TypeOK, Goto, Unfollowed, Process

(* A user once known, followed or unfollowed by a request, stays known.     *)
LEMMA KnownGrows == TypeOK /\ [Next]_vars => KnownGrow
<1> SUFFICES ASSUME TypeOK, [Next]_vars PROVE KnownGrow
  OBVIOUS
<1> USE RequestAssumption DEF KnownGrow, Known, Unfollowed, TypeOK, Step, Goto, Process, Reader
<1>0. rows' = rows => Followed' = Followed
  BY DEF Followed
<1>1. ASSUME NEW p \in Reader, Get(p) PROVE KnownGrow
  BY <1>1, <1>0 DEF Get, Missed
<1>2. ASSUME NEW p \in Reader, Load(p) PROVE KnownGrow
  <2>1. \E next : Goto(p, next) /\ pc[p] # "deleted"
    BY <1>2 DEF Load
  <2>2. Unfollowed \subseteq Unfollowed'
    BY <2>1, UnfollowedGrows
  <2> QED
    BY <1>2, <1>0, <2>2 DEF Load
<1>3. ASSUME NEW p \in Reader, Fill(p) PROVE KnownGrow
  BY <1>3, <1>0 DEF Fill
<1>4. ASSUME NEW p \in Follower, Insert(p) PROVE KnownGrow
  <2>1. \E next : Goto(p, next) /\ pc[p] # "deleted"
    BY <1>4 DEF Insert
  <2>2. Unfollowed \subseteq Unfollowed'
    BY <2>1, UnfollowedGrows
  <2>3. Followed \subseteq Followed'
    BY <1>4 DEF Insert, Followed
  <2> QED
    BY <2>2, <2>3
<1>5. ASSUME NEW p \in Follower, Invalidate(p) PROVE KnownGrow
  BY <1>5, <1>0 DEF Invalidate
<1>6. ASSUME NEW p \in Unfollower, Select(p) PROVE KnownGrow
  <2>1. \E next : Goto(p, next) /\ pc[p] # "deleted"
    BY <1>6 DEF Select
  <2>2. Unfollowed \subseteq Unfollowed'
    BY <2>1, UnfollowedGrows
  <2> QED
    BY <1>6, <1>0, <2>2 DEF Select
<1>7. ASSUME NEW p \in Unfollower, InvalidateFirst(p) PROVE KnownGrow
  BY <1>7, <1>0 DEF InvalidateFirst
<1>8. ASSUME NEW p \in Unfollower, Delete(p) PROVE KnownGrow
  <2>1. Unfollowed \subseteq Unfollowed' /\ TargetOf[p] \in Unfollowed'
    BY <1>8 DEF Delete
  <2>2. Followed \subseteq Followed' \cup {TargetOf[p]}
    BY <1>8 DEF Delete, Followed
  <2> QED
    BY <2>1, <2>2
<1>9. ASSUME NEW p \in Process, MemcachedFails(p) PROVE KnownGrow
  <2>1. \E next : Goto(p, next) /\ pc[p] # "deleted"
    BY <1>9 DEF MemcachedFails, Missed
  <2>2. Unfollowed \subseteq Unfollowed'
    BY <2>1, UnfollowedGrows
  <2> QED
    BY <1>9, <1>0, <2>2 DEF MemcachedFails
<1>10. ASSUME NEW p \in Process, Crash(p) PROVE KnownGrow
  BY <1>10, <1>0 DEF Crash, Ended
<1>11. CASE Timeout
  BY <1>11, <1>0 DEF Timeout
<1>12. CASE UNCHANGED vars
  BY <1>12, <1>0 DEF vars
<1>13. ASSUME NEW p \in Follower, InvalidateBeforePut(p) PROVE KnownGrow
  BY <1>13, <1>0 DEF InvalidateBeforePut
<1>14. ASSUME NEW p \in Follower, Put(p) PROVE KnownGrow
  BY <1>14 DEF Put, Followed
<1> QED
  BY <1>1, <1>2, <1>3, <1>4, <1>5, <1>6, <1>7, <1>8, <1>9, <1>10, <1>11, <1>12, <1>13, <1>14
  DEF Next, ReadStep, FollowStep, UnfollowStep

(* A step fills memcached and the processes' sets only from each other and  *)
(* from the rows.                                                           *)
LEMMA SetsMove ==
  ASSUME TypeOK, [Next]_vars
  PROVE  /\ cached' \in {cached, {}} \cup {seen[p] : p \in Process}
         /\ \A p \in Process : seen'[p] \in {seen[p], cached, Followed}
<1> USE DEF TypeOK, Process, Reader, Forget
<1>1. ASSUME NEW p \in Reader, ReadStep(p)
      PROVE  /\ cached' \in {cached, {}} \cup {seen[q] : q \in Process}
             /\ \A q \in Process : seen'[q] \in {seen[q], cached, Followed}
  BY <1>1 DEF ReadStep, Get, Load, Fill
<1>2. ASSUME NEW p \in Follower, FollowStep(p)
      PROVE  cached' \in {cached, {}} /\ seen' = seen
  BY <1>2 DEF FollowStep, Insert, Invalidate, InvalidateBeforePut, Put
<1>3. ASSUME NEW p \in Unfollower, UnfollowStep(p)
      PROVE  cached' \in {cached, {}} /\ seen' = seen
  BY <1>3 DEF UnfollowStep, Select, InvalidateFirst, Delete
<1>4. ASSUME NEW p \in Process, MemcachedFails(p) \/ Crash(p)
      PROVE  cached' = cached /\ seen' = seen
  BY <1>4 DEF MemcachedFails, Crash
<1>5. CASE Timeout
  BY <1>5 DEF Timeout
<1>6. CASE UNCHANGED vars
  BY <1>6 DEF vars
<1> QED
  BY <1>1, <1>2, <1>3, <1>4, <1>5, <1>6 DEF Next

(* For any number of requests and viewers, whatever races, times out or     *)
(* fails: nobody gets a set with a user who is not followed, unless an      *)
(* unfollow of that user has come through.                                  *)
THEOREM Invented == Spec => []NothingInvented
<1>1. Init => NothingInvented
  BY DEF Init, NothingInvented, Followed
<1>2. TypeOK /\ NothingInvented /\ [Next]_vars => NothingInvented'
  <2> SUFFICES ASSUME TypeOK, NothingInvented, [Next]_vars PROVE NothingInvented'
    OBVIOUS
  <2>1. cached \subseteq Known /\ Followed \subseteq Known
    BY DEF NothingInvented, Known
  <2>2. \A p \in Process : seen[p] \subseteq Known
    BY DEF NothingInvented, Known
  <2>3. Known \subseteq Known'
    BY KnownGrows DEF KnownGrow
  <2>4. cached' \subseteq Known'
    BY <2>1, <2>2, <2>3, SetsMove
  <2>5. \A p \in Process : seen'[p] \subseteq Known'
    BY <2>1, <2>2, <2>3, SetsMove
  <2> QED
    BY <2>4, <2>5 DEF NothingInvented, Known
<1> QED
  BY <1>1, <1>2, Typed, PTL DEF Spec

-----------------------------------------------------------------------------
(* A follow request that has inserted its row: the row is still there, or   *)
(* an unfollow has come through.                                            *)
InsertedKnown == ~hbase => \A p \in Follower : pc[p] \in Inserted => TargetOf[p] \in Known

(* Only an Insert of a user who is not followed begins this.                *)
Inserts(p) ==
  /\ TargetOf[p] \notin Followed
  /\ rows' = rows \cup {RowOf(p)}
  /\ pc' = [pc EXCEPT ![p] = "invalidate"]

LEMMA InsertedSince ==
  ASSUME TypeOK, [Next]_vars, ~hbase,
         NEW p \in Follower, pc[p] \notin Inserted, pc'[p] \in Inserted
  PROVE  Inserts(p)
<1> USE RequestAssumption DEF TypeOK, Step, Goto, Rendering, Inserted, Ended, Process, Reader
<1>1. ASSUME NEW q \in Reader, ReadStep(q) PROVE FALSE
  <2>1. ASSUME NEW S, pc' = [pc EXCEPT ![q] = After(q, S)] PROVE FALSE
    BY <2>1 DEF After
  <2>2. CASE Get(q)
    BY <2>1, <2>2 DEF Get, Missed
  <2>3. CASE Load(q)
    BY <2>3 DEF Load
  <2>4. CASE Fill(q)
    BY <2>1, <2>4 DEF Fill
  <2> QED
    BY <1>1, <2>2, <2>3, <2>4 DEF ReadStep
<1>2. ASSUME NEW q \in Follower, Insert(q)
      PROVE  Inserts(p)
  BY <1>2 DEF Insert, Inserts
<1>3. ASSUME NEW q \in Follower, Invalidate(q) PROVE FALSE
  BY <1>3 DEF Invalidate
<1>9. ASSUME NEW q \in Follower, InvalidateBeforePut(q) \/ Put(q) PROVE FALSE
  BY <1>9 DEF InvalidateBeforePut, Put
<1>4. ASSUME NEW q \in Unfollower, UnfollowStep(q) PROVE FALSE
  BY <1>4 DEF UnfollowStep, Select, InvalidateFirst, Delete
<1>5. ASSUME NEW q \in Process, MemcachedFails(q) PROVE FALSE
  <2>1. ASSUME NEW S, pc' = [pc EXCEPT ![q] = After(q, S)] PROVE FALSE
    BY <2>1 DEF After
  <2> QED
    BY <1>5, <2>1 DEF MemcachedFails, Missed
<1>6. ASSUME NEW q \in Process, Crash(q) PROVE FALSE
  BY <1>6 DEF Crash
<1>7. CASE Timeout
  BY <1>7 DEF Timeout
<1>8. CASE UNCHANGED vars
  BY <1>8 DEF vars
<1> QED
  BY <1>1, <1>2, <1>3, <1>4, <1>5, <1>6, <1>7, <1>8, <1>9 DEF Next, FollowStep

LEMMA RowFollowed ==
  ASSUME NEW p \in Follower, rows' = rows \cup {RowOf(p)}
  PROVE  TargetOf[p] \in Followed'
<1>1. RowOf(p) \in rows' /\ RowOf(p).target = TargetOf[p]
  BY DEF RowOf
<1> QED
  BY <1>1 DEF Followed

(* The switch does not turn.                                                *)
LEMMA BackendStays == [Next]_vars => hbase' = hbase
  BY DEF Next, ReadStep, Get, Load, Fill, FollowStep, Insert, Invalidate, InvalidateBeforePut, Put,
         UnfollowStep, Select, InvalidateFirst, Delete, MemcachedFails, Crash, Timeout, vars

(* For any number of requests: of the follow requests for one user at most  *)
(* one inserts a row, unless an unfollow of that user came between.         *)
THEOREM Created == Spec => []CreatedOnce
<1>1. Init => InsertedKnown /\ CreatedOnce
  BY RequestAssumption DEF Init, InsertedKnown, CreatedOnce, Inserted, Rendering, Process
<1>2. TypeOK /\ InsertedKnown /\ [Next]_vars => InsertedKnown'
  <2> SUFFICES ASSUME TypeOK, InsertedKnown, [Next]_vars, ~hbase,
                      NEW p \in Follower, pc'[p] \in Inserted
               PROVE  TargetOf[p] \in Known'
    BY BackendStays DEF InsertedKnown, Inserted, Rendering
  <2>1. CASE pc[p] \in Inserted
    BY <2>1, KnownGrows DEF KnownGrow, InsertedKnown
  <2>2. CASE pc[p] \notin Inserted
    BY <2>2, InsertedSince, RowFollowed DEF Known, Inserts
  <2> QED
    BY <2>1, <2>2
<1>3. TypeOK /\ InsertedKnown /\ CreatedOnce /\ [Next]_vars => CreatedOnce'
  <2> SUFFICES ASSUME TypeOK, InsertedKnown, CreatedOnce, [Next]_vars, ~hbase,
                      NEW p \in Follower, NEW q \in Follower,
                      p # q, TargetOf[p] = TargetOf[q],
                      pc'[p] \in Inserted, pc'[q] \in Inserted
               PROVE  TargetOf[p] \in Unfollowed'
    BY BackendStays DEF CreatedOnce, Inserted, Rendering
  <2>1. Unfollowed \subseteq Unfollowed'
    BY KnownGrows DEF KnownGrow
  <2>2. CASE pc[p] \in Inserted /\ pc[q] \in Inserted
    BY <2>1, <2>2 DEF CreatedOnce
  <2>3. CASE pc[p] \notin Inserted /\ pc[q] \in Inserted
    BY <2>1, <2>3, InsertedSince DEF InsertedKnown, Known, Inserts
  <2>4. CASE pc[p] \in Inserted /\ pc[q] \notin Inserted
    BY <2>1, <2>4, InsertedSince DEF InsertedKnown, Known, Inserts
  <2>5. CASE pc[p] \notin Inserted /\ pc[q] \notin Inserted
    <3>1. pc' = [pc EXCEPT ![p] = "invalidate"]
      BY <2>5, InsertedSince DEF Inserts
    <3> QED
      BY <2>5, <3>1 DEF TypeOK, Process
  <2> QED
    BY <2>2, <2>3, <2>4, <2>5
<1> QED
  BY <1>1, <1>2, <1>3, Typed, PTL DEF Spec
=============================================================================
