-------------------------- MODULE LikeCountProofs --------------------------
(* Proofs about LikeCount, for any users, requests and viewers.            *)
EXTENDS LikeCount, TLAPS, FiniteSetTheorems

-----------------------------------------------------------------------------
(* Every step keeps the types.                                              *)
LEMMA TypeStep == TypeOK /\ [Next]_vars => TypeOK'
<1> SUFFICES ASSUME TypeOK, [Next]_vars PROVE TypeOK'
  OBVIOUS
<1> USE RequestAssumption
    DEF TypeOK, RedisTypeOK, redis, Step, Writer, InTransaction, Ended, LikeRow, Listened
<1>1. ASSUME NEW p \in Writer, Get(p) PROVE TypeOK'
  BY <1>1 DEF Get
<1>2. ASSUME NEW p \in Writer, Insert(p) PROVE TypeOK'
  BY <1>2 DEF Insert
<1>3. ASSUME NEW p \in Writer, Select(p) PROVE TypeOK'
  BY <1>3 DEF Select, RowsOf
<1>4. ASSUME NEW p \in Writer, Update(p) PROVE TypeOK'
  BY <1>4 DEF Update
<1>5. ASSUME NEW p \in Writer, Exists(p) PROVE TypeOK'
  BY <1>5 DEF Exists
<1>6. ASSUME NEW p \in Writer, AddKey(p) PROVE TypeOK'
  BY <1>6 DEF AddKey, Add, Delta
<1>7. ASSUME NEW p \in Writer, SetKey(p) PROVE TypeOK'
  BY <1>7 DEF SetKey, Set, Delta
<1>8. ASSUME NEW p \in Writer, Delete(p) PROVE TypeOK'
  BY <1>8 DEF Delete
<1>18. ASSUME NEW p \in Writer, Commit(p) PROVE TypeOK'
  <2>1. count' \in Int /\ row' \in SUBSET Writer /\ RedisTypeOK'
    BY <1>18 DEF Commit, Delta
  <2> QED
    BY <1>18, <2>1 DEF Commit, CommitLike, CommitCancel
<1>9. ASSUME NEW p \in Writer, Notify(p) PROVE TypeOK'
  BY <1>9 DEF Notify
<1>10. ASSUME NEW p \in Writer, RedisFails(p) PROVE TypeOK'
  BY <1>10 DEF RedisFails
<1>11. ASSUME NEW p \in Writer, Crash(p) PROVE TypeOK'
  BY <1>11 DEF Crash
<1>12. ASSUME NEW v \in Viewer, View(v) PROVE TypeOK'
  BY <1>12 DEF View
<1>13. ASSUME NEW v \in Viewer, Refresh(v) PROVE TypeOK'
  BY <1>13 DEF Refresh
<1>14. ASSUME NEW v \in Viewer, Fill(v) PROVE TypeOK'
  BY <1>14 DEF Fill, Set
<1>15. ASSUME NEW v \in Viewer, ViewFails(v) PROVE TypeOK'
  BY <1>15 DEF ViewFails
<1>16. CASE Expire
  <2>1. hot' = FALSE /\ value' = 0 /\ ttl' = FALSE
    BY <1>16 DEF Expire, Lapse
  <2>2. 0 \in Int
    OBVIOUS
  <2>3. RedisTypeOK'
    BY <2>1, <2>2, Zenon
  <2> QED
    BY <1>16, <2>3 DEF Expire
<1>17. CASE UNCHANGED vars
  BY <1>17 DEF vars
<1> QED
  BY <1>1, <1>2, <1>3, <1>4, <1>5, <1>6, <1>7, <1>8, <1>9, <1>10, <1>11,
     <1>12, <1>13, <1>14, <1>15, <1>16, <1>17, <1>18 DEF Next, WriterStep, ViewerStep

(* The types of LikeCount hold in every reachable state.                    *)
THEOREM Typed == Spec => []TypeOK
<1>1. Init => TypeOK
  <2> SUFFICES ASSUME Init PROVE TypeOK
    OBVIOUS
  <2>1. IsFiniteSet(likes)
    BY RequestAssumption, FS_Subset DEF Init
  <2>2. count \in Nat
    BY <2>1, FS_CardinalityType DEF Init
  <2>3. 0 \in Int /\ count \in Int
    BY <2>2
  <2>4. RedisTypeOK
    BY <2>3, Zenon DEF Init, RedisInit, RedisTypeOK
  <2> QED
    BY <2>3, <2>4, RequestAssumption DEF Init, TypeOK, Writer, InTransaction, Ended, LikeRow
<1> QED
  BY <1>1, TypeStep, PTL DEF Spec

-----------------------------------------------------------------------------
(* The requests between the first write to a table and their COMMIT.        *)
Busy == {p \in Writer : pc[p] \in InTransaction \cup {"update"}}

(* What the steps do to the state that the invariants below speak of.       *)
Inserts(p) ==
  /\ p \in Liker /\ Busy' = Busy \cup {p} /\ UNCHANGED <<likes, count, collected, Vain>>
  /\ \A id \in likes : OwnerOf(id) # UserOf[p]
  /\ \A q \in Busy \cap Liker : q # p => UserOf[q] # UserOf[p]

Selects(p) ==
  /\ p \in Canceller /\ Busy' = Busy \cup {p} /\ UNCHANGED <<likes, count, Vain>>
  /\ RowsOf(UserOf[p]) # {}
  /\ collected' = [collected EXCEPT ![p] = RowsOf(UserOf[p])]

Likes(p) ==
  /\ p \in Busy \cap Liker /\ Busy' = Busy \ {p} /\ UNCHANGED <<collected, Vain>>
  /\ likes' = likes \cup {p} /\ count' = count + 1

Cancels(p) ==
  /\ p \in Busy \cap Canceller /\ Busy' = Busy \ {p} /\ UNCHANGED collected
  /\ likes' = likes \ collected[p] /\ count' = count - 1
  /\ p \notin Vain
  /\ Vain' = IF collected[p] \cap likes = {} THEN Vain \cup {p} ELSE Vain

Idle ==
  /\ Busy' \subseteq Busy /\ UNCHANGED <<likes, count, Vain>>
  /\ \A c \in Busy' \cap Canceller : collected'[c] = collected[c]

(* Every step is one of these, of one request, or leaves this state alone   *)
(* but for a crash and a SELECT that finds nothing.                         *)
LEMMA StepOutcome ==
  ASSUME TypeOK, [Next]_vars
  PROVE  Idle \/ \E p \in Writer : Inserts(p) \/ Selects(p) \/ Likes(p) \/ Cancels(p)
<1> USE RequestAssumption DEF TypeOK, Step, Writer, InTransaction, Busy, Idle, Vain
<1>1. ASSUME NEW p \in Writer, Get(p) PROVE Idle
  BY <1>1 DEF Get
<1>2. ASSUME NEW p \in Writer, Insert(p) PROVE Idle \/ Inserts(p)
  <2>1. CASE RowsOf(UserOf[p]) # {}
    BY <1>2, <2>1 DEF Insert
  <2>2. CASE RowsOf(UserOf[p]) = {}
    <3>1. Busy' = Busy \cup {p} /\ Vain' = Vain /\ UNCHANGED <<likes, count, collected>>
      BY <1>2, <2>2 DEF Insert
    <3>2. \A id \in likes : OwnerOf(id) # UserOf[p]
      BY <2>2 DEF RowsOf
    <3>3. ASSUME NEW q \in Busy \cap Liker, q # p PROVE UserOf[q] # UserOf[p]
      <4>1. q \in LockedBy(q) /\ OwnerOf(q) = UserOf[q]
        BY <3>3 DEF LockedBy, OwnerOf
      <4>2. q \in LockedByOthers(p)
        BY <3>3, <4>1 DEF LockedByOthers
      <4> QED
        BY <1>2, <4>1, <4>2 DEF Insert
    <3> QED
      BY <1>2, <3>1, <3>2, <3>3, Zenon DEF Insert, Inserts
  <2> QED
    BY <2>1, <2>2
<1>3. ASSUME NEW p \in Writer, Select(p) PROVE Idle \/ Selects(p)
  <2>1. CASE RowsOf(UserOf[p]) = {}
    BY <1>3, <2>1 DEF Select
  <2>2. CASE RowsOf(UserOf[p]) # {}
    <3>1. Busy' = Busy \cup {p} /\ Vain' = Vain
      BY <1>3, <2>2 DEF Select
    <3> QED
      BY <1>3, <2>2, <3>1, Zenon DEF Select, Selects
  <2> QED
    BY <2>1, <2>2
<1>4. ASSUME NEW p \in Writer, Update(p) PROVE Idle
  BY <1>4 DEF Update
<1>5. ASSUME NEW p \in Writer, Exists(p) PROVE Idle
  BY <1>5 DEF Exists
<1>6. ASSUME NEW p \in Writer, AddKey(p) PROVE Idle
  BY <1>6 DEF AddKey, Listened
<1>7. ASSUME NEW p \in Writer, SetKey(p) PROVE Idle
  BY <1>7 DEF SetKey, Listened
<1>8. ASSUME NEW p \in Writer, Delete(p) PROVE Idle
  BY <1>8 DEF Delete
<1>9. ASSUME NEW p \in Writer, Commit(p), CommitLike(p) PROVE Likes(p)
  BY <1>9 DEF Commit, CommitLike, Delta, Likes
<1>10. ASSUME NEW p \in Writer, Commit(p), CommitCancel(p) PROVE Cancels(p)
  <2>1. p \in Busy \cap Canceller /\ Busy' = Busy \ {p} /\ UNCHANGED collected /\ p \notin Vain
    BY <1>10 DEF Commit, CommitCancel
  <2>2. likes' = likes \ collected[p] /\ count' = count - 1
    BY <1>10 DEF Commit, CommitCancel, Delta
  <2>3. Vain' = IF collected[p] \cap likes = {} THEN Vain \cup {p} ELSE Vain
    BY <1>10 DEF Commit, CommitCancel
  <2> QED
    BY <2>1, <2>2, <2>3, Zenon DEF Cancels
<1>11. ASSUME NEW p \in Writer, Notify(p) PROVE Idle
  BY <1>11 DEF Notify
<1>12. ASSUME NEW p \in Writer, RedisFails(p) PROVE Idle
  BY <1>12 DEF RedisFails, Listened
<1>13. ASSUME NEW p \in Writer, Crash(p) PROVE Idle
  BY <1>13 DEF Crash, Ended
<1>14. ASSUME NEW v \in Viewer, ViewerStep(v) \/ ViewFails(v) PROVE Idle
  BY <1>14 DEF ViewerStep, View, Refresh, Fill, ViewFails
<1>15. CASE Expire
  BY <1>15 DEF Expire
<1>16. CASE UNCHANGED vars
  BY <1>16 DEF vars
<1> QED
  BY <1>1, <1>2, <1>3, <1>4, <1>5, <1>6, <1>7, <1>8, <1>9, <1>10, <1>11,
     <1>12, <1>13, <1>14, <1>15, <1>16 DEF Next, WriterStep, Commit

-----------------------------------------------------------------------------
(* The inductive invariant: a user has one row; a like under way finds none *)
(* of its user and is the only one; a cancel under way has collected one.   *)
OneRow == \A a, b \in likes : OwnerOf(a) = OwnerOf(b) => a = b

LikesApart ==
  \A p \in Busy \cap Liker :
    /\ \A id \in likes : OwnerOf(id) # UserOf[p]
    /\ \A q \in Busy \cap Liker : UserOf[p] = UserOf[q] => p = q

OneCollected == \A c \in Busy \cap Canceller : \E id \in LikeRow : collected[c] = {id}

Apart == OneRow /\ LikesApart /\ OneCollected

(* A step keeps what requests under way know of the rows.                   *)
LEMMA ApartStep == TypeOK /\ Apart /\ [Next]_vars => Apart'
<1> SUFFICES ASSUME TypeOK, Apart, [Next]_vars PROVE Apart'
  OBVIOUS
<1> USE RequestAssumption DEF Apart, Writer
<1>1. CASE Idle
  BY <1>1 DEF Idle, OneRow, LikesApart, OneCollected, OwnerOf
<1>2. ASSUME NEW p \in Writer, Inserts(p) PROVE Apart'
  BY <1>2 DEF Inserts, OneRow, LikesApart, OneCollected, OwnerOf
<1>3. ASSUME NEW p \in Writer, Selects(p) PROVE Apart'
  <2>1. OneRow' /\ LikesApart'
    BY <1>3 DEF Selects, OneRow, LikesApart, OwnerOf
  <2>2. PICK id \in RowsOf(UserOf[p]) : TRUE
    BY <1>3 DEF Selects
  <2>3. RowsOf(UserOf[p]) = {id} /\ id \in LikeRow
    BY <2>2 DEF RowsOf, OneRow, TypeOK
  <2>4. collected'[p] = {id} /\ \A c \in Canceller : c # p => collected'[c] = collected[c]
    BY <1>3, <2>3 DEF Selects, TypeOK
  <2> QED
    BY <1>3, <2>1, <2>3, <2>4 DEF Selects, OneCollected
<1>4. ASSUME NEW p \in Writer, Likes(p) PROVE Apart'
  <2>1. OwnerOf(p) = UserOf[p]
    BY <1>4 DEF Likes, OwnerOf
  <2>2. \A q \in Busy \cap Liker : q # p => UserOf[q] # UserOf[p]
    BY <1>4 DEF Likes, LikesApart
  <2>3. \A id \in likes : OwnerOf(id) # UserOf[p]
    BY <1>4 DEF Likes, LikesApart
  <2>4. OneRow'
    BY <1>4, <2>1, <2>3 DEF Likes, OneRow, OwnerOf
  <2>5. LikesApart'
    BY <1>4, <2>1, <2>2 DEF Likes, LikesApart, OwnerOf
  <2>6. OneCollected'
    BY <1>4 DEF Likes, OneCollected
  <2> QED
    BY <2>4, <2>5, <2>6
<1>5. ASSUME NEW p \in Writer, Cancels(p) PROVE Apart'
  BY <1>5 DEF Cancels, OneRow, LikesApart, OneCollected, OwnerOf
<1> QED
  BY <1>1, <1>2, <1>3, <1>4, <1>5, StepOutcome

(* At first no request is under way, and a user has one row.                *)
LEMMA ApartInit == Init => Apart
<1> SUFFICES ASSUME Init PROVE Apart
  OBVIOUS
<1>1. Busy = {}
  BY RequestAssumption DEF Init, Busy, Writer, InTransaction
<1>2. \A id \in likes : OwnerOf(id) = id
  BY RequestAssumption DEF Init, OwnerOf
<1> QED
  BY <1>1, <1>2 DEF Apart, OneRow, LikesApart, OneCollected

(* For any users, requests and viewers, whatever fails: tweets.likes_count  *)
(* differs from the number of Like rows by the cancels that ended in vain.  *)
THEOREM Matches == Spec => []CountLagsByVain
<1>0. IsFiniteSet(LikeRow) /\ IsFiniteSet(Canceller)
  BY RequestAssumption, FS_Union DEF LikeRow
<1>1. Init => CountLagsByVain
  <2> SUFFICES ASSUME Init PROVE CountLagsByVain
    OBVIOUS
  <2>1. Vain = {}
    BY RequestAssumption DEF Init, Vain, Writer
  <2>2. Cardinality(likes) \in Nat
    BY <1>0, FS_Subset, FS_CardinalityType DEF Init, LikeRow
  <2> QED
    BY <2>1, <2>2, FS_EmptySet DEF Init, CountLagsByVain
<1>2. TypeOK /\ Apart /\ CountLagsByVain /\ [Next]_vars => CountLagsByVain'
  <2> SUFFICES ASSUME TypeOK, Apart, CountLagsByVain, [Next]_vars PROVE CountLagsByVain'
    OBVIOUS
  <2>1. IsFiniteSet(likes) /\ IsFiniteSet(Vain)
    BY <1>0, FS_Subset DEF TypeOK, Vain
  <2>2. Cardinality(likes) \in Nat /\ Cardinality(Vain) \in Nat /\ count \in Int
    BY <2>1, FS_CardinalityType DEF TypeOK
  <2>3. ASSUME UNCHANGED <<likes, count, Vain>> PROVE CountLagsByVain'
    BY <2>3 DEF CountLagsByVain
  <2>4. ASSUME NEW p \in Writer, Likes(p) PROVE CountLagsByVain'
    <3>1. p \notin likes
      BY <2>4, RequestAssumption DEF Likes, Apart, LikesApart, OwnerOf
    <3>2. Cardinality(likes') = Cardinality(likes) + 1
      BY <2>1, <2>4, <3>1, FS_AddElement DEF Likes
    <3> QED
      BY <2>2, <2>4, <3>2 DEF Likes, CountLagsByVain
  <2>5. ASSUME NEW p \in Writer, Cancels(p) PROVE CountLagsByVain'
    <3>1. PICK id \in LikeRow : collected[p] = {id}
      BY <2>5 DEF Cancels, Apart, OneCollected
    <3>2. CASE id \in likes
      <4>1. likes' = likes \ {id} /\ Vain' = Vain
        BY <2>5, <3>1, <3>2 DEF Cancels
      <4>2. Cardinality(likes') = Cardinality(likes) - 1
        BY <2>1, <3>2, <4>1, FS_RemoveElement
      <4> QED
        BY <2>2, <2>5, <4>1, <4>2 DEF Cancels, CountLagsByVain
    <3>3. CASE id \notin likes
      <4>1. likes' = likes /\ Vain' = Vain \cup {p}
        BY <2>5, <3>1, <3>3 DEF Cancels
      <4>2. Cardinality(Vain') = Cardinality(Vain) + 1
        BY <2>1, <2>5, <4>1, FS_AddElement DEF Cancels
      <4>3. Cardinality(likes') = Cardinality(likes)
        BY <4>1
      <4>4. count' = count - 1
        BY <2>5 DEF Cancels
      <4> QED
        BY <2>2, <4>2, <4>3, <4>4 DEF CountLagsByVain
    <3> QED
      BY <3>2, <3>3
  <2> QED
    BY <2>3, <2>4, <2>5, StepOutcome DEF Idle, Inserts, Selects
<1> QED
  BY <1>1, <1>2, ApartInit, ApartStep, Typed, PTL DEF Spec

-----------------------------------------------------------------------------
(* The requests inside a transaction hold the tweet's row, and only one     *)
(* does; until a request may have left Redis behind, the counter that will  *)
(* expire is the count as that transaction sees it.                         *)
RowHeld ==
  /\ \A p \in Writer : p \in row <=> pc[p] \in InTransaction
  /\ \A p, q \in row : p = q

Cached(n) == hot /\ ttl => value = n

CachedCount ==
  ~suspect =>
    /\ row = {} => Cached(count)
    /\ \A p \in row : Cached(IF pc[p] \in {"delete", "commit"} THEN count + Delta(p) ELSE count)

(* Every step keeps the exclusion that the UPDATE of the tweet's row gives. *)
LEMMA RowStep == TypeOK /\ RowHeld /\ [Next]_vars => RowHeld'
<1> SUFFICES ASSUME TypeOK, RowHeld, [Next]_vars PROVE RowHeld'
  OBVIOUS
<1> USE RequestAssumption DEF TypeOK, RowHeld, Step, Writer, InTransaction, Listened
<1>1. ASSUME NEW p \in Writer, Get(p) \/ Insert(p) \/ Select(p) \/ Notify(p) PROVE RowHeld'
  BY <1>1 DEF Get, Insert, Select, Notify
<1>2. ASSUME NEW p \in Writer, Update(p) PROVE RowHeld'
  BY <1>2 DEF Update
<1>3. ASSUME NEW p \in Writer, Exists(p) \/ AddKey(p) \/ SetKey(p) PROVE RowHeld'
  BY <1>3 DEF Exists, AddKey, SetKey
<1>4. ASSUME NEW p \in Writer, Delete(p) \/ Commit(p) PROVE RowHeld'
  BY <1>4 DEF Delete, Commit, CommitLike, CommitCancel
<1>5. ASSUME NEW p \in Writer, RedisFails(p) PROVE RowHeld'
  BY <1>5 DEF RedisFails
<1>6. ASSUME NEW p \in Writer, Crash(p) PROVE RowHeld'
  BY <1>6 DEF Crash
<1>7. ASSUME NEW v \in Viewer, ViewerStep(v) \/ ViewFails(v) PROVE RowHeld'
  BY <1>7 DEF ViewerStep, View, Refresh, Fill, ViewFails
<1>8. CASE Expire
  BY <1>8 DEF Expire
<1>9. CASE UNCHANGED vars
  BY <1>9 DEF vars
<1> QED
  BY <1>1, <1>2, <1>3, <1>4, <1>5, <1>6, <1>7, <1>8, <1>9 DEF Next, WriterStep

(* Every step keeps the counter what the database says, or is under         *)
(* suspicion.                                                               *)
LEMMA CachedStep ==
  TypeOK /\ RowHeld /\ RowHeld' /\ CachedCount /\ [Next]_vars => CachedCount'
<1> SUFFICES ASSUME TypeOK, RowHeld, RowHeld', CachedCount, [Next]_vars, ~suspect'
             PROVE  CachedCount'
  BY DEF CachedCount
<1>0. ~suspect
  BY RequestAssumption DEF Next, WriterStep, ViewerStep, vars, Get, Insert, Select, Update,
       Exists, AddKey, SetKey, Delete, Commit, Notify, RedisFails, Crash, View, Refresh, Fill,
       ViewFails, Expire
<1> USE <1>0, RequestAssumption
    DEF TypeOK, RowHeld, CachedCount, Cached, Step, Writer, InTransaction, redis, Listened
<1>1. ASSUME NEW p \in Writer, Get(p) \/ Insert(p) \/ Select(p) \/ Notify(p) PROVE CachedCount'
  BY <1>1 DEF Get, Insert, Select, Notify
<1>2. ASSUME NEW p \in Writer, Update(p) PROVE CachedCount'
  BY <1>2 DEF Update
<1>3. ASSUME NEW p \in Writer, Exists(p) PROVE CachedCount'
  BY <1>3 DEF Exists
<1>4. ASSUME NEW p \in Writer, AddKey(p) PROVE CachedCount'
  BY <1>4 DEF AddKey, Add, RedisTypeOK, Delta
<1>5. ASSUME NEW p \in Writer, SetKey(p) PROVE CachedCount'
  BY <1>5 DEF SetKey, Set, Delta
<1>6. ASSUME NEW p \in Writer, Commit(p) PROVE CachedCount'
  BY <1>6 DEF Commit, CommitLike, CommitCancel
<1>12. ASSUME NEW p \in Writer, Delete(p) PROVE CachedCount'
  BY <1>12 DEF Delete
<1>7. ASSUME NEW p \in Writer, RedisFails(p) \/ Crash(p) PROVE FALSE
  BY <1>7 DEF RedisFails, Crash
<1>8. ASSUME NEW v \in Viewer, View(v) \/ Refresh(v) \/ ViewFails(v) PROVE CachedCount'
  BY <1>8 DEF View, Refresh, ViewFails
<1>9. ASSUME NEW v \in Viewer, Fill(v) PROVE FALSE
  BY <1>9 DEF Fill
<1>10. CASE Expire
  BY <1>10 DEF Expire, Lapse
<1>11. CASE UNCHANGED vars
  BY <1>11 DEF vars
<1> QED
  BY <1>1, <1>2, <1>3, <1>4, <1>5, <1>6, <1>7, <1>8, <1>9, <1>10, <1>11, <1>12
  DEF Next, WriterStep, ViewerStep

(* For any users and requests: when no transaction is open, a counter that  *)
(* differs from the database and will expire has a cause, a cold read that  *)
(* filled it late or a request that failed.                                 *)
THEOREM Drift == Spec => []DriftIsExplained
<1>1. Init => RowHeld /\ CachedCount
  BY RequestAssumption
  DEF Init, RedisInit, RowHeld, CachedCount, Cached, Writer, InTransaction
<1>2. TypeOK /\ RowHeld /\ CachedCount /\ [Next]_vars => RowHeld' /\ CachedCount'
  BY RowStep, CachedStep
<1>3. CachedCount => DriftIsExplained
  BY DEF CachedCount, Cached, DriftIsExplained
<1> QED
  BY <1>1, <1>2, <1>3, Typed, PTL DEF Spec

-----------------------------------------------------------------------------
(* A request that has created a like finds it there, or a cancel that had   *)
(* collected it has deleted it.                                             *)
Made == {p \in Liker : pc[p] \in {"notify", "created"}}

Deleted(p) == \E c \in Canceller : pc[c] = "deleted" /\ p \in collected[c]

MadeKnown == \A p \in Made : p \in likes \/ Deleted(p)

(* A deleted row stays deleted, as a canceller selects only once.           *)
LEMMA DeletedStays ==
  ASSUME TypeOK, [Next]_vars, NEW p, Deleted(p)
  PROVE  Deleted(p)'
<1> USE RequestAssumption DEF TypeOK, Step, Writer
<1>1. PICK c \in Canceller : pc[c] = "deleted" /\ p \in collected[c]
  BY DEF Deleted
<1> DEFINE Kept == pc'[c] = pc[c] /\ collected'[c] = collected[c]
<1>2. Kept
  <2>1. ASSUME NEW q \in Writer, WriterStep(q), ~Commit(q) PROVE Kept
    BY <1>1, <2>1 DEF WriterStep, Get, Insert, Select, Update, Exists, AddKey, SetKey, Delete, Notify
  <2>2. ASSUME NEW q \in Writer, Commit(q) PROVE Kept
    BY <1>1, <2>2 DEF Commit, CommitLike, CommitCancel
  <2>3. ASSUME NEW q \in Writer, RedisFails(q) \/ Crash(q) PROVE Kept
    BY <1>1, <2>3 DEF RedisFails, Crash, Ended
  <2>4. ASSUME NEW v \in Viewer, ViewerStep(v) \/ ViewFails(v) PROVE Kept
    BY <1>1, <2>4 DEF ViewerStep, View, Refresh, Fill, ViewFails
  <2>5. CASE Expire \/ UNCHANGED vars
    BY <2>5 DEF Expire, vars
  <2> QED
    BY <2>1, <2>2, <2>3, <2>4, <2>5 DEF Next
<1> QED
  BY <1>1, <1>2 DEF Deleted

(* A step keeps every created like known.                                   *)
LEMMA MadeStep == TypeOK /\ MadeKnown /\ [Next]_vars => MadeKnown'
<1> SUFFICES ASSUME TypeOK, MadeKnown, [Next]_vars, NEW m \in Made'
             PROVE  m \in likes' \/ Deleted(m)'
  BY DEF MadeKnown, Made
<1> USE RequestAssumption DEF TypeOK, Made, Step, Writer
<1> DEFINE Kept == m \in Made /\ likes' = likes
<1>1. ASSUME NEW p \in Writer, WriterStep(p), ~Commit(p) PROVE Kept
  BY <1>1 DEF WriterStep, Get, Insert, Select, Update, Exists, AddKey, SetKey, Delete, Notify,
              Listened
<1>2. ASSUME NEW p \in Writer, Commit(p), CommitLike(p)
      PROVE  m \in likes' \/ (m \in Made /\ likes \subseteq likes')
  BY <1>2 DEF CommitLike
<1>3. ASSUME NEW p \in Writer, Commit(p), CommitCancel(p), m \in likes
      PROVE  m \in likes' \/ Deleted(m)'
  BY <1>3 DEF Commit, CommitCancel, Deleted
<1>4. ASSUME NEW p \in Writer, Commit(p), CommitCancel(p) PROVE m \in Made
  BY <1>4 DEF CommitCancel
<1>5. ASSUME NEW p \in Writer, RedisFails(p) \/ Crash(p) PROVE Kept
  BY <1>5 DEF RedisFails, Crash, Listened
<1>6. ASSUME NEW v \in Viewer, ViewerStep(v) \/ ViewFails(v) PROVE Kept
  BY <1>6 DEF ViewerStep, View, Refresh, Fill, ViewFails
<1>7. ASSUME Expire \/ UNCHANGED vars PROVE Kept
  BY <1>7 DEF Expire, vars
<1>8. m \in Made /\ m \notin likes => Deleted(m)'
  BY DeletedStays DEF MadeKnown
<1> HIDE DEF Kept
<1> DEFINE Commits == \E p \in Writer : Commit(p) /\ (CommitLike(p) \/ CommitCancel(p))
<1>9. Kept \/ Commits
  BY <1>1, <1>5, <1>6, <1>7 DEF Next, Commit
<1>10. Kept => m \in Made /\ likes' = likes
  BY DEF Kept
<1> QED
  BY <1>2, <1>3, <1>4, <1>8, <1>9, <1>10

(* For any users and requests: of several like requests of one user at most *)
(* one creates the like and notifies, unless a cancel deleted the row that  *)
(* one of them had made.                                                    *)
THEOREM Notified == Spec => []NotifiedOnce
<1>1. Init => MadeKnown
  BY RequestAssumption DEF Init, MadeKnown, Made, Writer
<1>2. TypeOK /\ Apart /\ MadeKnown => NotifiedOnce
  <2> SUFFICES ASSUME TypeOK, Apart, MadeKnown, NEW p \in Made, NEW q \in Made,
                      p # q, UserOf[p] = UserOf[q]
               PROVE  Deleted(p) \/ Deleted(q)
    BY DEF NotifiedOnce, Made, Deleted
  <2>1. OwnerOf(p) = OwnerOf(q)
    BY DEF OwnerOf, Made
  <2> QED
    BY <2>1 DEF Apart, OneRow, MadeKnown
<1> QED
  BY <1>1, <1>2, MadeStep, ApartInit, ApartStep, Typed, PTL DEF Spec

-----------------------------------------------------------------------------
(* The rows that are committed or that a cancel has seen committed are not  *)
(* those of a like whose transaction is open.                               *)
Seen == likes \cup UNION {collected[c] : c \in Canceller}

SeenEnded == \A p \in Liker : p \in Seen => pc[p] \in {"notify", "created", "failed"}

(* A step keeps it.                                                         *)
LEMMA SeenStep == TypeOK /\ SeenEnded /\ [Next]_vars => SeenEnded'
<1> SUFFICES ASSUME TypeOK, SeenEnded, [Next]_vars, NEW s \in Liker, s \in Seen'
             PROVE  pc'[s] \in {"notify", "created", "failed"}
  BY DEF SeenEnded
<1> USE RequestAssumption DEF TypeOK, Step, Writer, Seen
<1> DEFINE Over == pc[s] \in {"notify", "created", "failed"}
<1>1. s \in Seen => Over
  BY DEF SeenEnded
<1>2. ASSUME NEW p \in Writer, WriterStep(p), ~Commit(p), ~Select(p)
      PROVE  s \in Seen /\ (Over => Over')
  BY <1>2 DEF WriterStep, Get, Insert, Update, Exists, AddKey, SetKey, Delete, Notify, Listened
<1>3. ASSUME NEW p \in Writer, Select(p) PROVE s \in Seen /\ (Over => Over')
  BY <1>3 DEF Select, RowsOf
<1>4. ASSUME NEW p \in Writer, Commit(p) PROVE Over' \/ (s \in Seen /\ (Over => Over'))
  BY <1>4 DEF Commit, CommitLike, CommitCancel
<1>5. ASSUME NEW p \in Writer, RedisFails(p) \/ Crash(p) PROVE s \in Seen /\ (Over => Over')
  BY <1>5 DEF RedisFails, Crash, Listened
<1>6. ASSUME NEW v \in Viewer, ViewerStep(v) \/ ViewFails(v)
      PROVE  s \in Seen /\ (Over => Over')
  BY <1>6 DEF ViewerStep, View, Refresh, Fill, ViewFails
<1>7. CASE Expire \/ UNCHANGED vars
  BY <1>1, <1>7 DEF Expire, vars
<1> QED
  BY <1>1, <1>2, <1>3, <1>4, <1>5, <1>6, <1>7 DEF Next, WriterStep

(* For any users and requests: a cancel that has come to its DELETE never   *)
(* waits for a Like row.  It holds the tweet's row, which a like takes last, *)
(* so that no like and cancel ever wait for each other.                     *)
DeleteNeverWaits ==
  \A c \in Canceller : pc[c] = "delete" => collected[c] \cap LockedByOthers(c) = {}

THEOREM NoLockCycle == Spec => []DeleteNeverWaits
<1>1. Init => RowHeld /\ SeenEnded
  BY RequestAssumption DEF Init, RowHeld, SeenEnded, Seen, Writer, InTransaction
<1>2. TypeOK /\ RowHeld /\ SeenEnded => DeleteNeverWaits
  <2> SUFFICES ASSUME TypeOK, RowHeld, SeenEnded, NEW c \in Canceller, pc[c] = "delete",
                      NEW q \in Writer \ {c}, NEW id \in LockedBy(q), id \in collected[c]
               PROVE  FALSE
    BY DEF DeleteNeverWaits, LockedByOthers
  <2>1. CASE q \in Liker
    BY <2>1 DEF LockedBy, SeenEnded, Seen, InTransaction
  <2>2. CASE q \notin Liker
    BY <2>2 DEF LockedBy, RowHeld, Writer, InTransaction
  <2> QED
    BY <2>1, <2>2
<1> QED
  BY <1>1, <1>2, RowStep, SeenStep, Typed, PTL DEF Spec
=============================================================================
