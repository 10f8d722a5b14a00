-------------------------- MODULE ListCacheProofs --------------------------
(* Proofs about ListCache, for all values of its constants.                *)
EXTENDS ListCache, TLAPS, SequenceTheorems, FiniteSetTheorems

(* What the database returns is a list of committed objects that fits the  *)
(* limit, without repetition, newest first, and complete if it is shorter. *)
LEMMA LazyLoadFacts ==
  ASSUME NEW S, NEW s \in LazyLoad(S)
  PROVE  /\ s \in Seq(S)
         /\ Len(s) \in Nat
         /\ Len(s) <= Limit
         /\ Elements(s) \subseteq S
         /\ \A i, j \in 1..Len(s) : s[i] = s[j] => i = j
         /\ \A i, j \in 1..Len(s) : i < j => CreatedAt[s[i]] >= CreatedAt[s[j]]
         /\ Len(s) < Limit => Elements(s) = S
<1>1. PICK n \in 0..Limit : s \in [1..n -> S]
  BY DEF LazyLoad, NewestRows
<1>2. n \in Nat /\ n <= Limit
  BY LimitAssumption
<1>3. s \in Seq(S) /\ Len(s) = n /\ DOMAIN s = 1..Len(s)
  BY <1>1, <1>2
<1>4. Elements(s) \subseteq S
  BY <1>1 DEF Elements
<1>5. /\ \A i, j \in 1..Len(s) : s[i] = s[j] => i = j
      /\ \A i, j \in 1..Len(s) : i < j => CreatedAt[s[i]] >= CreatedAt[s[j]]
      /\ Len(s) < Limit => Elements(s) = S
  BY <1>3 DEF LazyLoad, NewestRows, Distinct, NewestFirst
<1> QED
  BY <1>2, <1>3, <1>4, <1>5

(* What LTRIM leaves of a list.                                            *)
LEMMA KeepFacts ==
  ASSUME NEW S, NEW s \in Seq(S), NEW n \in Nat \ {0}
  PROVE  /\ Keep(s, n) \in Seq(S)
         /\ Len(Keep(s, n)) = IF Len(s) < n THEN Len(s) ELSE n
         /\ \A i \in 1..Len(Keep(s, n)) : Keep(s, n)[i] = s[i]
<1> DEFINE m == IF Len(s) < n THEN Len(s) ELSE n
<1>1. m \in 0..Len(s) /\ m \in Nat
  OBVIOUS
<1>2. /\ SubSeq(s, 1, m) \in Seq(S)
      /\ Len(SubSeq(s, 1, m)) = m
      /\ \A i \in 1..m : SubSeq(s, 1, m)[i] = s[i]
  <2> HIDE DEF m
  <2> QED
    BY <1>1, SubSeqProperties
<1> QED
  BY <1>2 DEF Keep

(* What LPUSH makes of a list.                                             *)
LEMMA PushFacts ==
  ASSUME NEW S, NEW s \in Seq(S), NEW x \in S
  PROVE  /\ <<x>> \o s \in Seq(S)
         /\ Len(<<x>> \o s) = Len(s) + 1
         /\ (<<x>> \o s)[1] = x
         /\ \A i \in 1..Len(s) : (<<x>> \o s)[i + 1] = s[i]
OBVIOUS

-----------------------------------------------------------------------------
(* The types hold at the start, whether the key is cold or hot.            *)
LEMMA InitTyped == Init => TypeOK
<1> SUFFICES ASSUME Init PROVE TypeOK
  OBVIOUS
<1>1. list \in Seq(Item)
  <2>1. list = <<>> \/ list \in LazyLoad(rows)
    BY DEF Init
  <2>2. rows \subseteq Item
    BY DEF Init
  <2>3. <<>> \in Seq(Item)
    OBVIOUS
  <2>4. ASSUME list \in LazyLoad(rows) PROVE list \in Seq(Item)
    <3>1. list \in Seq(rows)
      BY <2>4, LazyLoadFacts
    <3> QED
      BY <3>1, <2>2
  <2> QED
    BY <2>1, <2>3, <2>4
<1>2. \A r \in Reader : got[r] \in Seq(Item)
  BY DEF Init
<1> QED
  BY <1>1, <1>2 DEF Init, TypeOK, WriterState, ReaderState

(* Every action keeps the types.                                           *)
LEMMA NextTyped == TypeOK /\ [Next]_vars => TypeOK'
<1> SUFFICES ASSUME TypeOK, [Next]_vars PROVE TypeOK'
  OBVIOUS
<1> USE DEF TypeOK
<1>1. ASSUME NEW x \in Item, Insert(x) PROVE TypeOK'
  BY <1>1 DEF Insert, Goto, WriterState
<1>2. ASSUME NEW x \in Item, PushExists(x) PROVE TypeOK'
  BY <1>2 DEF PushExists, Goto, WriterState
<1>3. ASSUME NEW x \in Item, LPush(x) PROVE TypeOK'
  BY <1>3, PushFacts DEF LPush, Goto, WriterState
<1>4. ASSUME NEW x \in Item, LTrim(x) PROVE TypeOK'
  <2>1. list' \in Seq(Item) /\ (list # <<>> => list' # <<>>)
    BY <1>4, KeepFacts, LimitAssumption DEF LTrim
  <2> QED
    BY <1>4, <2>1 DEF LTrim, Goto, WriterState
<1>5. ASSUME NEW x \in Item, PushFails(x) PROVE TypeOK'
  BY <1>5 DEF PushFails, Goto, WriterState
<1>6. ASSUME NEW r \in Reader, Exists(r) PROVE TypeOK'
  BY <1>6 DEF Exists, Step, ReaderState
<1>7. ASSUME NEW r \in Reader, LRange(r) PROVE TypeOK'
  BY <1>7 DEF LRange, Step, Answer, ReaderState
<1>8. ASSUME NEW r \in Reader, Acquire(r) PROVE TypeOK'
  BY <1>8 DEF Acquire, Step, ReaderState
<1>9. ASSUME NEW r \in Reader, Recheck(r) PROVE TypeOK'
  BY <1>9 DEF Recheck, Step, ReaderState
<1>10. \A s \in LazyLoad(rows) : s \in Seq(Item)
  BY LazyLoadFacts
<1>11. ASSUME NEW r \in Reader, ReLRange(r) PROVE TypeOK'
  BY <1>11, <1>10 DEF ReLRange, Release, Answer, ReaderState
<1>12. ASSUME NEW r \in Reader, Snapshot(r) PROVE TypeOK'
  BY <1>12, <1>10 DEF Snapshot, Step, Answer, ReaderState
<1>13. ASSUME NEW r \in Reader, Install(r) PROVE TypeOK'
  BY <1>13 DEF Install, Step, ReaderState
<1>14. ASSUME NEW r \in Reader, Unlock(r) PROVE TypeOK'
  BY <1>14, <1>10 DEF Unlock, Release, Answer, ReaderState
<1>15. ASSUME NEW r \in Reader, LoadFails(r) PROVE TypeOK'
  BY <1>15, <1>10 DEF LoadFails, Answer, ReaderState
<1>16. ASSUME NEW r \in Reader, Crash(r) PROVE TypeOK'
  BY <1>16 DEF Crash, ReaderState
<1>17. CASE Expire
  <2>1. list' \in Seq(Item)
    BY <1>17 DEF Expire
  <2>2. ttl' \in BOOLEAN /\ ~ttl'
    BY <1>17, Zenon DEF Expire
  <2> QED
    BY <1>17, <2>1, <2>2 DEF Expire
<1>18. CASE LockTimeout
  BY <1>18 DEF LockTimeout
<1>19. CASE UNCHANGED vars
  BY <1>19 DEF vars
<1> QED
  BY <1>1, <1>2, <1>3, <1>4, <1>5, <1>6, <1>7, <1>8, <1>9, <1>11, <1>12, <1>13,
     <1>14, <1>15, <1>16, <1>17, <1>18, <1>19
  DEF Next, WriterStep, ReaderStep

(* Every variable keeps its type; a key without a list has no expiry.      *)
THEOREM Typed == Spec => []TypeOK
BY InitTyped, NextTyped, PTL DEF Spec

-----------------------------------------------------------------------------
(* OnlyCommitted is inductive once a writer past its INSERT is known to     *)
(* have committed.                                                         *)
CommittedInv ==
  /\ OnlyCommitted
  /\ \A x \in Item : wpc[x] # "insert" => x \in rows

(* A list that is hot at the start was built from committed rows.          *)
LEMMA InitCommitted == Init => CommittedInv
<1> SUFFICES ASSUME Init PROVE CommittedInv
  OBVIOUS
<1>1. Elements(list) \subseteq rows
  <2>1. list = <<>> \/ list \in LazyLoad(rows)
    BY DEF Init
  <2>2. Elements(<<>>) = {}
    BY DEF Elements
  <2> QED
    BY <2>1, <2>2, LazyLoadFacts
<1>2. \A r \in Reader : Elements(got[r]) \subseteq rows
  BY DEF Init, Elements
<1> QED
  BY <1>1, <1>2 DEF CommittedInv, OnlyCommitted, Init

(* No step of a writer, a reader or Redis brings in an uncommitted object. *)
LEMMA NextCommitted == TypeOK /\ CommittedInv /\ [Next]_vars => CommittedInv'
<1> SUFFICES ASSUME TypeOK, CommittedInv, [Next]_vars PROVE CommittedInv'
  OBVIOUS
<1> USE DEF CommittedInv, OnlyCommitted
<1> rows \in SUBSET Item /\ list \in Seq(Item)
  BY DEF TypeOK
<1> wpc \in [Item -> WriterState] /\ rpc \in [Reader -> ReaderState] /\ got \in [Reader -> Seq(Item)]
  BY DEF TypeOK
<1>1. ASSUME NEW x \in Item, Insert(x) PROVE CommittedInv'
  BY <1>1 DEF Insert, Goto
<1>2. ASSUME NEW x \in Item, PushExists(x) PROVE CommittedInv'
  BY <1>2 DEF PushExists, Goto
<1>3. ASSUME NEW x \in Item, LPush(x) PROVE CommittedInv'
  <2>1. Elements(<<x>> \o list) \subseteq Elements(list) \cup {x}
    BY DEF Elements
  <2> QED
    BY <1>3, <2>1 DEF LPush, Goto
<1>4. ASSUME NEW x \in Item, LTrim(x) PROVE CommittedInv'
  <2>1. Elements(Keep(list, Limit)) \subseteq Elements(list)
    <3>1. /\ Len(Keep(list, Limit)) <= Len(list)
          /\ Keep(list, Limit) \in Seq(Item)
          /\ \A i \in 1..Len(Keep(list, Limit)) : Keep(list, Limit)[i] = list[i]
      BY KeepFacts, LimitAssumption
    <3> QED
      BY <3>1 DEF Elements
  <2> QED
    BY <1>4, <2>1 DEF LTrim, Goto
<1>5. ASSUME NEW x \in Item, PushFails(x) PROVE CommittedInv'
  BY <1>5 DEF PushFails, Goto
<1>6. \A s \in LazyLoad(rows) : Elements(s) \subseteq rows
  BY LazyLoadFacts
<1>7. ASSUME NEW r \in Reader, ReaderStep(r) \/ LoadFails(r) \/ Crash(r) PROVE CommittedInv'
  <2>1. rows' = rows /\ wpc' = wpc
    BY <1>7 DEF ReaderStep, Exists, LRange, Acquire, Recheck, ReLRange, Snapshot,
                Install, Unlock, LoadFails, Crash
  <2>2. list' = list \/ list' = got[r]
    BY <1>7 DEF ReaderStep, Exists, LRange, Acquire, Recheck, ReLRange, Snapshot,
                Install, Unlock, LoadFails, Crash
  <2>3. \/ got' = got
        \/ got' = [got EXCEPT ![r] = list]
        \/ \E s \in LazyLoad(rows) : got' = [got EXCEPT ![r] = s]
    BY <1>7 DEF ReaderStep, Exists, LRange, Acquire, Recheck, ReLRange, Snapshot,
                Install, Unlock, LoadFails, Crash, Release, Answer
  <2>4. \A q \in Reader : Elements(got'[q]) \subseteq rows
    BY <2>3, <1>6
  <2> QED
    BY <2>1, <2>2, <2>4
<1>8. CASE Expire
  <2>1. Elements(<<>>) = {}
    BY DEF Elements
  <2> QED
    BY <1>8, <2>1 DEF Expire
<1>9. CASE LockTimeout \/ UNCHANGED vars
  BY <1>9 DEF LockTimeout, vars
<1> QED
  BY <1>1, <1>2, <1>3, <1>4, <1>5, <1>7, <1>8, <1>9 DEF Next, WriterStep

(* Neither the cached list nor an answer names an uncommitted object.      *)
THEOREM Committed == Spec => []OnlyCommitted
<1>1. CommittedInv => OnlyCommitted
  BY DEF CommittedInv
<1> QED
  BY InitCommitted, NextCommitted, Typed, <1>1, PTL DEF Spec

-----------------------------------------------------------------------------
(* NeverSpliced is inductive once the pushes in front of the snapshot are   *)
(* known to be those of writers past their LPUSH, and what a reader is      *)
(* about to install is known to be one snapshot.                           *)
PushedState == {"ltrim", "untrimmed", "done"}

ListShape ==
  \E k \in 0..Len(list) : SplitAt(list, k) /\ \A i \in 1..k : wpc[list[i]] \in PushedState

SnapshotShape(s) == SplitAt(s, 0) /\ Len(s) <= Limit

SplicedInv ==
  /\ ListShape
  /\ \A r \in Reader :
       /\ PushesOnSnapshot(got[r])
       /\ rpc[r] = "install" => SnapshotShape(got[r])

(* What the database returns is one snapshot, hence of the right shape.    *)
LEMMA LazyLoadShape ==
  ASSUME NEW S, NEW s \in LazyLoad(S)
  PROVE  SnapshotShape(s) /\ PushesOnSnapshot(s)
<1>1. SplitAt(s, 0) /\ Len(s) <= Limit /\ Len(s) \in Nat
  BY LazyLoadFacts DEF SplitAt
<1> QED
  BY <1>1 DEF SnapshotShape, PushesOnSnapshot

(* A list that is hot at the start is one snapshot.                        *)
LEMMA InitUnspliced == Init => SplicedInv
<1> SUFFICES ASSUME Init PROVE SplicedInv
  OBVIOUS
<1>1. SplitAt(<<>>, 0) /\ PushesOnSnapshot(<<>>)
  BY DEF SplitAt, PushesOnSnapshot
<1>2. SplitAt(list, 0) /\ Len(list) \in Nat
  <2>1. list = <<>> \/ list \in LazyLoad(rows)
    BY DEF Init
  <2> QED
    BY <1>1, <2>1, LazyLoadShape, LazyLoadFacts DEF SnapshotShape
<1>3. ListShape
  BY <1>2 DEF ListShape
<1> QED
  BY <1>1, <1>3 DEF Init, SplicedInv

(* The list keeps its shape under each way it changes.                     *)
LEMMA PushKeepsShape ==
  ASSUME TypeOK, ListShape, NEW x \in Item, LPush(x)
  PROVE  ListShape'
<1> DEFINE new == <<x>> \o list
<1>1. /\ list' = new
      /\ wpc[x] = "lpush"
      /\ wpc' = [wpc EXCEPT ![x] = "ltrim"]
      /\ wpc \in [Item -> WriterState]
      /\ list \in Seq(Item)
  BY DEF LPush, Goto, TypeOK
<1>2. PICK k \in 0..Len(list) : SplitAt(list, k) /\ \A i \in 1..k : wpc[list[i]] \in PushedState
  BY DEF ListShape
<1>3. /\ Len(new) = Len(list) + 1
      /\ new[1] = x
      /\ \A i \in 1..Len(list) : new[i + 1] = list[i]
  BY <1>1, PushFacts
<1>4. \A i \in 2..Len(new) : i - 1 \in 1..Len(list) /\ new[i] = list[i - 1]
  BY <1>1, <1>3
<1>5. \A i \in 1..k : list[i] \in Item /\ list[i] # x
  <2> TAKE i \in 1..k
  <2>1. i \in 1..Len(list)
    BY <1>1
  <2>2. list[i] \in Item
    BY <1>1, <2>1
  <2>3. wpc[list[i]] # "lpush"
    BY <1>2 DEF PushedState
  <2> QED
    BY <1>1, <2>2, <2>3
<1> HIDE DEF new
<1>6. SplitAt(new, k + 1)
  <2>1. \A i, j \in 1..(k + 1) : new[i] = new[j] => i = j
    <3> TAKE i, j \in 1..(k + 1)
    <3>1. CASE i = 1 /\ j = 1
      BY <3>1
    <3>2. CASE i = 1 /\ j # 1
      BY <3>2, <1>1, <1>3, <1>4, <1>5
    <3>3. CASE i # 1 /\ j = 1
      BY <3>3, <1>1, <1>3, <1>4, <1>5
    <3>4. CASE i # 1 /\ j # 1
      <4>1. i - 1 \in 1..k /\ j - 1 \in 1..k /\ new[i] = list[i - 1] /\ new[j] = list[j - 1]
        BY <3>4, <1>1, <1>3, <1>4
      <4>2. list[i - 1] = list[j - 1] => i - 1 = j - 1
        BY <4>1, <1>2 DEF SplitAt
      <4> QED
        BY <4>1, <4>2
    <3> QED
      BY <3>1, <3>2, <3>3, <3>4
  <2>2. \A i, j \in (k + 2)..Len(new) :
          /\ new[i] = new[j] => i = j
          /\ i < j => CreatedAt[new[i]] >= CreatedAt[new[j]]
    <3> TAKE i, j \in (k + 2)..Len(new)
    <3>1. /\ i - 1 \in (k + 1)..Len(list) /\ j - 1 \in (k + 1)..Len(list)
          /\ new[i] = list[i - 1] /\ new[j] = list[j - 1]
      BY <1>1, <1>3, <1>4
    <3>2. /\ list[i - 1] = list[j - 1] => i - 1 = j - 1
          /\ i - 1 < j - 1 => CreatedAt[list[i - 1]] >= CreatedAt[list[j - 1]]
      BY <3>1, <1>2 DEF SplitAt
    <3>3. i - 1 < j - 1 <=> i < j
      OBVIOUS
    <3> QED
      BY <3>1, <3>2, <3>3
  <2>3. k + 1 + 1 = k + 2
    OBVIOUS
  <2> QED
    BY <2>1, <2>2, <2>3 DEF SplitAt
<1>7. \A i \in 1..(k + 1) : wpc'[new[i]] \in PushedState
  <2> TAKE i \in 1..(k + 1)
  <2>1. CASE i = 1
    BY <2>1, <1>1, <1>3 DEF PushedState, new
  <2>2. CASE i # 1
    <3>1. i - 1 \in 1..k /\ new[i] = list[i - 1]
      BY <2>2, <1>1, <1>3, <1>4
    <3>2. wpc[new[i]] \in PushedState /\ new[i] # x /\ new[i] \in Item
      BY <3>1, <1>2, <1>5
    <3> QED
      BY <3>2, <1>1
  <2> QED
    BY <2>1, <2>2
<1>8. k + 1 \in 0..Len(list')
  BY <1>1, <1>3
<1>9. SplitAt(list', k + 1) /\ \A i \in 1..(k + 1) : wpc'[list'[i]] \in PushedState
  BY <1>1, <1>6, <1>7
<1> QED
  BY <1>8, <1>9 DEF ListShape

(* LTRIM only cuts off the old end: the list keeps its shape.              *)
LEMMA TrimKeepsShape ==
  ASSUME TypeOK, ListShape, NEW x \in Item, LTrim(x)
  PROVE  ListShape'
<1> DEFINE new == Keep(list, Limit)
<1>1. /\ list' = new
      /\ wpc[x] = "ltrim"
      /\ wpc' = [wpc EXCEPT ![x] = "done"]
      /\ wpc \in [Item -> WriterState]
      /\ list \in Seq(Item)
  BY DEF LTrim, Goto, TypeOK
<1>2. PICK k \in 0..Len(list) :
        SplitAt(list, k) /\ \A i \in 1..k : wpc[list[i]] \in PushedState
  BY DEF ListShape
<1>3. /\ Len(new) \in Nat
      /\ Len(new) <= Len(list)
      /\ \A i \in 1..Len(new) : new[i] = list[i]
  BY <1>1, KeepFacts, LimitAssumption
<1> HIDE DEF new
<1>4. PICK m \in 0..Len(new) : m <= k /\ (m = k \/ m = Len(new))
  <2>1. CASE k <= Len(new)
    BY <2>1, <1>3
  <2>2. CASE ~(k <= Len(new))
    BY <2>2, <1>3
  <2> QED
    BY <2>1, <2>2
<1>5. SplitAt(new, m)
  BY <1>1, <1>2, <1>3, <1>4 DEF SplitAt
<1>6. \A i \in 1..m : wpc'[new[i]] \in PushedState
  <2> TAKE i \in 1..m
  <2>1. i \in 1..k /\ i \in 1..Len(list) /\ new[i] = list[i]
    BY <1>1, <1>3, <1>4
  <2>2. new[i] \in Item /\ wpc[new[i]] \in PushedState
    BY <1>1, <1>2, <2>1
  <2> QED
    BY <1>1, <2>2 DEF PushedState
<1> QED
  BY <1>1, <1>5, <1>6 DEF ListShape

(* No step joins pushes or snapshots to a list in the wrong place.         *)
LEMMA NextUnspliced == TypeOK /\ SplicedInv /\ [Next]_vars => SplicedInv'
<1> SUFFICES ASSUME TypeOK, SplicedInv, [Next]_vars PROVE SplicedInv'
  OBVIOUS
<1> USE DEF SplicedInv
<1>1. \A s \in LazyLoad(rows) : SnapshotShape(s) /\ PushesOnSnapshot(s)
  BY LazyLoadShape
<1>2. PushesOnSnapshot(list)
  BY DEF ListShape, PushesOnSnapshot
<1>3. ASSUME NEW x \in Item, WriterStep(x) \/ PushFails(x) PROVE SplicedInv'
  <2>1. rpc' = rpc /\ got' = got
    BY <1>3 DEF WriterStep, Insert, PushExists, LPush, LTrim, PushFails
  <2>2. ASSUME Insert(x) \/ PushExists(x) \/ PushFails(x) PROVE ListShape'
    <3>1. /\ list' = list
          /\ \E next \in WriterState : wpc' = [wpc EXCEPT ![x] = next]
          /\ wpc[x] \in PushedState => wpc'[x] \in PushedState
      BY <2>2 DEF Insert, PushExists, PushFails, Goto, PushedState, WriterState, TypeOK
    <3>2. \A y \in Item : wpc[y] \in PushedState => wpc'[y] \in PushedState
      BY <3>1 DEF TypeOK
    <3>3. \A i \in 1..Len(list) : list[i] \in Item
      BY DEF TypeOK
    <3>4. PICK k \in 0..Len(list) :
            SplitAt(list, k) /\ \A i \in 1..k : wpc[list[i]] \in PushedState
      BY DEF ListShape
    <3>5. \A i \in 1..k : wpc'[list[i]] \in PushedState
      BY <3>2, <3>3, <3>4 DEF TypeOK
    <3> QED
      BY <3>1, <3>4, <3>5 DEF ListShape
  <2>3. ListShape'
    BY <1>3, <2>2, PushKeepsShape, TrimKeepsShape DEF WriterStep
  <2> QED
    BY <2>1, <2>3
<1>4. ASSUME NEW r \in Reader, ReaderStep(r) \/ LoadFails(r) \/ Crash(r) PROVE SplicedInv'
  <2>1. wpc' = wpc
    BY <1>4 DEF ReaderStep, Exists, LRange, Acquire, Recheck, ReLRange, Snapshot,
                Install, Unlock, LoadFails, Crash
  <2>2. ListShape'
    <3>1. CASE Install(r)
      <4>1. SplitAt(got[r], 0) /\ got[r] \in Seq(Item) /\ list' = got[r]
        BY <3>1 DEF Install, Step, SnapshotShape, TypeOK
      <4>2. 0 \in 0..Len(list')
        BY <4>1
      <4>3. SplitAt(list', 0)
        BY <4>1
      <4> QED
        BY <4>2, <4>3 DEF ListShape
    <3>2. CASE ~Install(r)
      <4>1. list' = list
        BY <1>4, <3>2 DEF ReaderStep, Exists, LRange, Acquire, Recheck, ReLRange, Snapshot,
                          Unlock, LoadFails, Crash
      <4> QED
        BY <2>1, <4>1 DEF ListShape
    <3> QED
      BY <3>1, <3>2
  <2>3. \A q \in Reader : PushesOnSnapshot(got'[q])
    <3>1. \/ got' = got
          \/ got' = [got EXCEPT ![r] = list]
          \/ \E s \in LazyLoad(rows) : got' = [got EXCEPT ![r] = s]
      BY <1>4 DEF ReaderStep, Exists, LRange, Acquire, Recheck, ReLRange, Snapshot,
                  Install, Unlock, LoadFails, Crash, Release, Answer, TypeOK
    <3> QED
      BY <1>1, <1>2, <3>1 DEF TypeOK
  <2>4. \A q \in Reader : rpc'[q] = "install" => SnapshotShape(got'[q])
    <3>1. CASE Snapshot(r)
      BY <1>1, <3>1 DEF Snapshot, Step, Answer, TypeOK
    <3>2. CASE ~Snapshot(r)
      <4>1. rpc'[r] # "install"
        BY <1>4, <3>2 DEF ReaderStep, Exists, LRange, Acquire, Recheck, ReLRange,
                          Install, Unlock, LoadFails, Crash, Release, Step, TypeOK
      <4>2. \A q \in Reader : q # r => rpc'[q] = rpc[q] /\ got'[q] = got[q]
        BY <1>4 DEF ReaderStep, Exists, LRange, Acquire, Recheck, ReLRange, Snapshot,
                    Install, Unlock, LoadFails, Crash, Release, Step, Answer, TypeOK
      <4> QED
        BY <4>1, <4>2
    <3> QED
      BY <3>1, <3>2
  <2> QED
    BY <2>2, <2>3, <2>4
<1>5. CASE Expire
  <2>1. list' = <<>>
    BY <1>5 DEF Expire
  <2>2. rpc' = rpc /\ got' = got
    BY <1>5 DEF Expire
  <2>3. SplitAt(<<>>, 0) /\ 0 \in 0..Len(<<>>)
    BY DEF SplitAt
  <2>4. ListShape'
    BY <2>1, <2>3 DEF ListShape
  <2> QED
    BY <2>2, <2>4
<1>6. CASE LockTimeout \/ UNCHANGED vars
  <2>1. list' = list /\ wpc' = wpc
    BY <1>6 DEF LockTimeout, vars
  <2>2. rpc' = rpc /\ got' = got
    BY <1>6 DEF LockTimeout, vars
  <2>3. ListShape'
    BY <2>1 DEF ListShape
  <2> QED
    BY <2>2, <2>3
<1> QED
  BY <1>3, <1>4, <1>5, <1>6 DEF Next

(* No interleaving, expiry, failure or slow rebuild splices two snapshots. *)
THEOREM Unspliced == Spec => []NeverSpliced
<1>1. SplicedInv => NeverSpliced
  BY DEF SplicedInv, NeverSpliced, ListShape, PushesOnSnapshot
<1> QED
  BY InitUnspliced, NextUnspliced, Typed, <1>1, PTL DEF Spec

-----------------------------------------------------------------------------
(* LengthBounded: only LPUSH lengthens the list, and it adds its writer to  *)
(* those that have not trimmed.                                            *)
Untrimmed == {x \in Item : wpc[x] \in {"ltrim", "untrimmed"}}

(* Each step that lengthens the list adds a writer that is yet to trim.    *)
LEMMA NextBounded ==
  TypeOK /\ SplicedInv /\ LengthBounded /\ [Next]_vars => LengthBounded'
<1> SUFFICES ASSUME TypeOK, SplicedInv, LengthBounded, [Next]_vars
             PROVE  Len(list') <= Limit + Cardinality(Untrimmed')
  BY DEF LengthBounded, Untrimmed
<1>1. Len(list) <= Limit + Cardinality(Untrimmed)
  BY DEF LengthBounded, Untrimmed
<1>2. /\ IsFiniteSet(Untrimmed) /\ Cardinality(Untrimmed) \in Nat
      /\ IsFiniteSet(Untrimmed') /\ Cardinality(Untrimmed') \in Nat
  BY ItemAssumption, FS_Subset, FS_CardinalityType DEF Untrimmed
<1>3. list \in Seq(Item) /\ wpc \in [Item -> WriterState] /\ Limit \in Nat
  BY LimitAssumption DEF TypeOK
<1>4. ASSUME NEW x \in Item, LPush(x) PROVE Len(list') <= Limit + Cardinality(Untrimmed')
  <2>1. Len(list') = Len(list) + 1
    BY <1>3, <1>4, PushFacts DEF LPush
  <2>2. Untrimmed' = Untrimmed \cup {x} /\ x \notin Untrimmed
    BY <1>3, <1>4 DEF LPush, Goto, Untrimmed
  <2>3. Cardinality(Untrimmed') = Cardinality(Untrimmed) + 1
    BY <1>2, <2>2, FS_AddElement
  <2> QED
    BY <1>1, <1>2, <1>3, <2>1, <2>3
<1>5. ASSUME Len(list') <= Limit PROVE Len(list') <= Limit + Cardinality(Untrimmed')
  <2>1. Len(list') \in Nat
    BY NextTyped DEF TypeOK
  <2> QED
    BY <1>2, <1>3, <1>5, <2>1
<1>6. ASSUME NEW x \in Item, LTrim(x) PROVE Len(list') <= Limit
  BY <1>3, <1>6, KeepFacts, LimitAssumption DEF LTrim
<1>7. ASSUME NEW r \in Reader, Install(r) PROVE Len(list') <= Limit
  BY <1>7 DEF Install, Step, SplicedInv, SnapshotShape
<1>8. CASE Expire
  <2>1. Len(list') = 0
    BY <1>8 DEF Expire
  <2> QED
    BY <1>3, <2>1, <1>5
<1>9. ASSUME list' = list, Untrimmed' = Untrimmed
      PROVE  Len(list') <= Limit + Cardinality(Untrimmed')
  BY <1>1, <1>9
<1>10. ASSUME NEW x \in Item, Insert(x) \/ PushExists(x) \/ PushFails(x)
       PROVE  list' = list /\ Untrimmed' = Untrimmed
  BY <1>3, <1>10 DEF Insert, PushExists, PushFails, Goto, Untrimmed
<1>11. ASSUME NEW r \in Reader, ReaderStep(r) \/ LoadFails(r) \/ Crash(r), ~Install(r)
       PROVE  list' = list /\ Untrimmed' = Untrimmed
  BY <1>11 DEF ReaderStep, Exists, LRange, Acquire, Recheck, ReLRange, Snapshot,
               Unlock, LoadFails, Crash, Untrimmed
<1>12. ASSUME LockTimeout \/ UNCHANGED vars PROVE list' = list /\ Untrimmed' = Untrimmed
  BY <1>12 DEF LockTimeout, vars, Untrimmed
<1> QED
  BY <1>4, <1>5, <1>6, <1>7, <1>8, <1>9, <1>10, <1>11, <1>12 DEF Next, WriterStep

(* The cached list outgrows its limit by at most the untrimmed pushes.     *)
THEOREM Bounded == Spec => []LengthBounded
<1>1. Init => LengthBounded
  <2> SUFFICES ASSUME Init PROVE Len(list) <= Limit + Cardinality(Untrimmed)
    BY DEF LengthBounded, Untrimmed
  <2>1. IsFiniteSet(Untrimmed) /\ Cardinality(Untrimmed) \in Nat
    BY ItemAssumption, FS_Subset, FS_CardinalityType DEF Untrimmed
  <2>2. list = <<>> \/ list \in LazyLoad(rows)
    BY DEF Init
  <2>3. Len(<<>>) = 0
    OBVIOUS
  <2>4. Len(list) \in Nat /\ Len(list) <= Limit
    BY <2>2, <2>3, LazyLoadFacts, LimitAssumption
  <2> QED
    BY <2>1, <2>4, LimitAssumption
<1> QED
  BY <1>1, InitUnspliced, NextUnspliced, NextBounded, Typed, PTL DEF Spec

-----------------------------------------------------------------------------
(* RebuildSerialized: a reader in its critical section holds the lock.     *)
LockInv == ~overrun => \A r \in Reader : rpc[r] \in Critical => lock = {r}

(* Until a lock times out under its holder, only the holder goes on.       *)
LEMMA NextLocked == TypeOK /\ LockInv /\ [Next]_vars => LockInv'
<1> SUFFICES ASSUME TypeOK, LockInv, [Next]_vars, ~overrun',
                    NEW q \in Reader, rpc'[q] \in Critical
             PROVE  lock' = {q}
  BY DEF LockInv
<1> USE DEF LockInv, Critical
<1> rpc \in [Reader -> ReaderState]
  BY DEF TypeOK
<1>1. ASSUME NEW x \in Item, WriterStep(x) \/ PushFails(x) PROVE lock' = {q}
  BY <1>1 DEF WriterStep, Insert, PushExists, LPush, LTrim, PushFails
<1>2. ASSUME NEW r \in Reader, ReaderStep(r) \/ LoadFails(r) \/ Crash(r) PROVE lock' = {q}
  <2>1. CASE Acquire(r)
    BY <2>1 DEF Acquire, Step
  <2>2. CASE Exists(r) \/ LRange(r) \/ Recheck(r) \/ Snapshot(r) \/ Install(r) \/ Crash(r)
    BY <2>2 DEF Exists, LRange, Recheck, Snapshot, Install, Crash, Step
  <2>3. CASE ReLRange(r) \/ Unlock(r) \/ LoadFails(r)
    <3>1. /\ rpc'[r] \in Returned
          /\ q # r => rpc'[q] = rpc[q]
          /\ lock' = lock \/ lock' = lock \ {r}
      BY <2>3 DEF ReLRange, Unlock, LoadFails, Release, Returned
    <3>2. q # r /\ lock = {q} /\ ~overrun
      <4>1. overrun' = overrun
        BY <2>3 DEF ReLRange, Unlock, LoadFails, Release
      <4> QED
        BY <3>1, <4>1 DEF Returned
    <3> QED
      BY <3>1, <3>2
  <2> QED
    BY <1>2, <2>1, <2>2, <2>3 DEF ReaderStep
<1>3. CASE Expire \/ UNCHANGED vars
  BY <1>3 DEF Expire, vars
<1>4. CASE LockTimeout
  BY <1>4 DEF LockTimeout
<1> QED
  BY <1>1, <1>2, <1>3, <1>4 DEF Next

(* No reader is in its critical section at the start.                      *)
LEMMA InitLocked == Init => LockInv
BY DEF Init, LockInv, Critical

(* A rebuild that does not outlive its lock is alone.                      *)
THEOREM Serialized == Spec => []RebuildSerialized
<1>1. LockInv => RebuildSerialized
  BY DEF LockInv, RebuildSerialized
<1> QED
  BY InitLocked, NextLocked, Typed, <1>1, PTL DEF Spec

-----------------------------------------------------------------------------
(* In steady state a list that was seen stays,                             *)
(* a rebuild in progress means the key is cold, and a snapshot misses only *)
(* what was committed after it was read.                                   *)
Unpushed == {"exists", "cold", "lost"}

SteadyInv ==
  Steady =>
    /\ \A x \in Item : wpc[x] = "lpush" => list # <<>>
    /\ \A r \in Reader :
         /\ rpc[r] \in {"lrange", "relrange"} => list # <<>>
         /\ rpc[r] \in {"snapshot", "install"} => list = <<>>
         /\ rpc[r] = "hit" => got[r] # <<>>
         /\ rpc[r] = "install" =>
              \A x \in rows \ Elements(got[r]) : wpc[x] \in Unpushed \/ Len(got[r]) >= Limit
    /\ MissingIsExplained

(* A list that is hot at the start lacks only what does not fit.           *)
LEMMA InitSteady == Init => SteadyInv
<1> SUFFICES ASSUME Init PROVE SteadyInv
  OBVIOUS
<1>1. list = <<>> \/ list \in LazyLoad(rows)
  BY DEF Init
<1>2. list # <<>> /\ Len(list) < Limit => Elements(list) = rows
  BY <1>1, LazyLoadFacts
<1>3. Len(list) \in Nat /\ Limit \in Nat
  BY <1>1, LazyLoadFacts, LimitAssumption
<1>4. MissingIsExplained
  BY <1>2, <1>3 DEF MissingIsExplained
<1> QED
  BY <1>4 DEF Init, SteadyInv

(* A writer keeps the invariant: it changes a hot list without emptying it *)
(* and a cold key not at all.                                              *)
LEMMA WriterSteady ==
  ASSUME TypeOK, SteadyInv, NEW x \in Item, WriterStep(x) \/ PushFails(x)
  PROVE  SteadyInv'
<1>0. Steady' = Steady
  BY DEF WriterStep, Insert, PushExists, LPush, LTrim, PushFails, Steady
<1> SUFFICES ASSUME Steady PROVE SteadyInv'
  BY <1>0 DEF SteadyInv
<1>1. /\ list \in Seq(Item) /\ wpc \in [Item -> WriterState]
      /\ rows \subseteq Item /\ Limit \in Nat
  BY LimitAssumption DEF TypeOK
<1>2. rpc' = rpc /\ got' = got
  BY DEF WriterStep, Insert, PushExists, LPush, LTrim, PushFails
<1>3. \A y \in Item : y # x => wpc'[y] = wpc[y]
  BY <1>1 DEF WriterStep, Insert, PushExists, LPush, LTrim, PushFails, Goto
<1>4. wpc[x] = "lpush" => list # <<>>
  BY DEF SteadyInv
<1>5. /\ list = <<>> => list' = <<>>
      /\ list # <<>> => list' # <<>>
  <2>1. CASE LPush(x)
    <3>1. Len(<<x>> \o list) = Len(list) + 1
      BY <1>1, PushFacts
    <3>2. <<x>> \o list # <<>>
      BY <1>1, <3>1
    <3> QED
      BY <2>1, <1>4, <3>2 DEF LPush, Goto
  <2>2. CASE LTrim(x)
    <3>1. Len(Keep(list, Limit)) = IF Len(list) < Limit THEN Len(list) ELSE Limit
      BY <1>1, KeepFacts, LimitAssumption
    <3>2. Keep(list, Limit) \in Seq(Item)
      BY <1>1, KeepFacts, LimitAssumption
    <3> QED
      BY <2>2, <1>1, <3>1, <3>2, LimitAssumption DEF LTrim
  <2>3. CASE ~LPush(x) /\ ~LTrim(x)
    BY <2>3 DEF WriterStep, Insert, PushExists, PushFails
  <2> QED
    BY <2>1, <2>2, <2>3
<1>6. \A y \in Item : wpc'[y] = "lpush" => list' # <<>>
  <2>1. wpc'[x] = "lpush" => list # <<>>
    BY <1>1 DEF WriterStep, Insert, PushExists, LPush, LTrim, PushFails, Goto
  <2> QED
    BY <1>3, <1>5, <2>1 DEF SteadyInv
<1>7. \A r \in Reader :
        rpc[r] = "install" =>
          \A y \in rows' \ Elements(got[r]) : wpc'[y] \in Unpushed \/ Len(got[r]) >= Limit
  <2> SUFFICES ASSUME NEW r \in Reader, rpc[r] = "install",
                      NEW y \in rows' \ Elements(got[r]), ~(Len(got[r]) >= Limit)
               PROVE  wpc'[y] \in Unpushed
    OBVIOUS
  <2>1. list = <<>>
    BY DEF SteadyInv
  <2>2. y \in Item /\ (y # x => y \in rows)
    BY <1>1 DEF WriterStep, Insert, PushExists, LPush, LTrim, PushFails
  <2>3. CASE y # x
    BY <2>2, <2>3, <1>3 DEF SteadyInv
  <2>4. CASE y = x /\ Insert(x)
    BY <2>4, <1>1 DEF Insert, Goto, Unpushed
  <2>5. CASE y = x /\ ~Insert(x)
    <3>1. y \in rows /\ wpc[y] \in Unpushed
      BY <2>5 DEF SteadyInv, WriterStep, PushExists, LPush, LTrim, PushFails
    <3> QED
      BY <2>1, <2>5, <3>1, <1>1, <1>4
      DEF WriterStep, PushExists, LPush, LTrim, PushFails, Goto, Unpushed
  <2> QED
    BY <2>3, <2>4, <2>5
<1>8. list # <<>> =>
         \A y \in rows \ Elements(list) :
           wpc[y] \in {"exists", "lpush", "cold", "lost"} \/ Len(list) >= Limit
  BY DEF SteadyInv, Steady, MissingIsExplained
<1>9. ASSUME list' # <<>>, NEW y \in rows' \ Elements(list'), ~(Len(list') >= Limit)
      PROVE  wpc'[y] \in {"exists", "lpush", "cold", "lost"}
  <2>1. list # <<>>
    BY <1>5, <1>9
  <2>2. y \in Item /\ (y # x => y \in rows)
    BY <1>1, <1>9 DEF WriterStep, Insert, PushExists, LPush, LTrim, PushFails
  <2>3. CASE LPush(x)
    <3>1. /\ Len(list') = Len(list) + 1
          /\ list'[1] = x
          /\ \A i \in 1..Len(list) : list'[i + 1] = list[i]
          /\ list' \in Seq(Item)
      BY <1>1, <2>3, PushFacts DEF LPush
    <3>2. x \in Elements(list') /\ Elements(list) \subseteq Elements(list')
      <4>1. \A i \in 1..Len(list) : i + 1 \in DOMAIN list' /\ list'[i + 1] = list[i]
        BY <1>1, <3>1
      <4>2. 1 \in DOMAIN list'
        BY <1>1, <3>1
      <4> QED
        BY <1>1, <3>1, <4>1, <4>2 DEF Elements
    <3>3. Len(list) < Limit /\ Len(list) \in Nat
      BY <1>1, <1>9, <3>1
    <3>4. y # x /\ y \in rows /\ y \notin Elements(list)
      BY <1>9, <2>2, <3>2
    <3>5. wpc[y] \in {"exists", "lpush", "cold", "lost"}
      BY <1>1, <1>8, <2>1, <3>3, <3>4
    <3> QED
      BY <1>3, <2>2, <3>4, <3>5
  <2>4. CASE ~LPush(x)
    <3>1. list' = list
      <4>1. CASE LTrim(x)
        <5>1. Len(list) < Limit /\ Keep(list, Limit) = SubSeq(list, 1, Len(list))
          BY <1>1, <1>9, <4>1, KeepFacts, LimitAssumption DEF LTrim, Keep
        <5>2. SubSeq(list, 1, Len(list)) = list
          BY <1>1
        <5> QED
          BY <4>1, <5>1, <5>2 DEF LTrim
      <4>2. CASE ~LTrim(x)
        BY <2>4, <4>2 DEF WriterStep, Insert, PushExists, PushFails
      <4> QED
        BY <4>1, <4>2
    <3>2. ASSUME y \in rows PROVE wpc[y] \in {"exists", "lpush", "cold", "lost"}
      <4>1. y \in rows \ Elements(list)
        BY <1>9, <3>1, <3>2
      <4>2. ~(Len(list) >= Limit)
        BY <1>9, <3>1
      <4> QED
        BY <1>8, <2>1, <4>1, <4>2
    <3>3. CASE y # x
      BY <1>3, <2>2, <3>2, <3>3
    <3>4. CASE y = x /\ Insert(x)
      BY <1>1, <3>4 DEF Insert, Goto
    <3>5. CASE y = x /\ ~Insert(x)
      <4>1. y \in rows
        BY <1>9, <3>5 DEF WriterStep, PushExists, LPush, LTrim, PushFails
      <4> QED
        BY <1>1, <2>4, <3>2, <3>5, <4>1 DEF WriterStep, PushExists, LTrim, PushFails, Goto
    <3> QED
      BY <3>3, <3>4, <3>5
  <2> QED
    BY <2>3, <2>4
<1>10. MissingIsExplained'
  BY <1>9 DEF MissingIsExplained
<1> QED
  BY <1>2, <1>5, <1>6, <1>7, <1>10 DEF SteadyInv

(* A reader keeps the invariant: only the lock's holder installs, on a cold *)
(* key, a snapshot that misses nothing but later commits.                  *)
LEMMA ReaderSteady ==
  ASSUME TypeOK, LockInv, SteadyInv,
         NEW r \in Reader, ReaderStep(r) \/ LoadFails(r) \/ Crash(r)
  PROVE  SteadyInv'
<1>0. Steady' = Steady
  BY DEF ReaderStep, Exists, LRange, Acquire, Recheck, ReLRange, Snapshot, Install,
         Unlock, LoadFails, Crash, Release, Steady
<1> SUFFICES ASSUME Steady PROVE SteadyInv'
  BY <1>0 DEF SteadyInv
<1>1. /\ rpc \in [Reader -> ReaderState] /\ got \in [Reader -> Seq(Item)]
      /\ Limit \in Nat
  BY LimitAssumption DEF TypeOK
<1>2. wpc' = wpc /\ rows' = rows
  BY DEF ReaderStep, Exists, LRange, Acquire, Recheck, ReLRange, Snapshot,
         Install, Unlock, LoadFails, Crash
<1>3. \A q \in Reader : q # r => rpc'[q] = rpc[q] /\ got'[q] = got[q]
  BY <1>1 DEF ReaderStep, Exists, LRange, Acquire, Recheck, ReLRange, Snapshot,
              Install, Unlock, LoadFails, Crash, Release, Step, Answer
<1>4. CASE Install(r)
  <2>1. /\ list = <<>> /\ list' = got[r] /\ got' = got
        /\ rpc[r] = "install" /\ rpc'[r] = "unlock"
    BY <1>1, <1>4 DEF Install, Step, SteadyInv
  <2>2. \A q \in Reader : rpc'[q] \notin {"lrange", "relrange", "snapshot", "install"}
    <3>1. \A q \in Reader : q # r => rpc[q] \notin {"snapshot", "install"}
      BY <2>1 DEF LockInv, Critical, Steady
    <3>2. \A q \in Reader : rpc[q] \notin {"lrange", "relrange"}
      BY <2>1 DEF SteadyInv
    <3> QED
      BY <1>3, <2>1, <3>1, <3>2
  <2>3. \A x \in Item : wpc'[x] # "lpush"
    BY <1>2, <2>1 DEF SteadyInv
  <2>4. \A q \in Reader : rpc'[q] = "hit" => got'[q] # <<>>
    <3>1. \A q \in Reader : rpc[q] = "hit" => got[q] # <<>>
      BY DEF SteadyInv
    <3> QED
      BY <1>3, <2>1, <3>1
  <2>5. \A x \in rows \ Elements(got[r]) : wpc[x] \in Unpushed \/ Len(got[r]) >= Limit
    BY <2>1 DEF SteadyInv
  <2>6. MissingIsExplained'
    BY <1>2, <2>1, <2>5 DEF MissingIsExplained, Unpushed
  <2> QED
    BY <2>2, <2>3, <2>4, <2>6 DEF SteadyInv
<1>5. CASE ~Install(r)
  <2>1. list' = list
    BY <1>5 DEF ReaderStep, Exists, LRange, Acquire, Recheck, ReLRange, Snapshot,
                Unlock, LoadFails, Crash
  <2>2. MissingIsExplained'
    BY <1>2, <2>1 DEF SteadyInv, MissingIsExplained
  <2>3. \A x \in Item : wpc'[x] = "lpush" => list' # <<>>
    BY <1>2, <2>1 DEF SteadyInv
  <2>4. \A s \in LazyLoad(rows) : Len(s) \in Nat /\ (Len(s) < Limit => Elements(s) = rows)
    BY LazyLoadFacts
  <2>5. /\ rpc'[r] \in {"lrange", "relrange"} => list # <<>>
        /\ rpc'[r] \in {"snapshot", "install"} => list = <<>>
        /\ rpc'[r] = "hit" => got'[r] # <<>>
        /\ rpc'[r] = "install" =>
             \A x \in rows \ Elements(got'[r]) : wpc[x] \in Unpushed \/ Len(got'[r]) >= Limit
    <3>1. CASE Exists(r) \/ Recheck(r) \/ Acquire(r)
      BY <1>1, <3>1 DEF Exists, Recheck, Acquire, Step
    <3>2. CASE LRange(r)
      BY <1>1, <3>2 DEF LRange, Step, Answer, SteadyInv
    <3>3. CASE ReLRange(r)
      BY <1>1, <3>3 DEF ReLRange, Release, Answer, SteadyInv
    <3>4. CASE Snapshot(r)
      <4>1. list = <<>>
        BY <3>4 DEF Snapshot, Step, SteadyInv
      <4>2. rpc'[r] = "install"
        BY <1>1, <3>4 DEF Snapshot, Step
      <4>3. got'[r] \in LazyLoad(rows)
        BY <1>1, <3>4 DEF Snapshot, Answer
      <4> QED
        BY <1>1, <2>4, <4>1, <4>2, <4>3
    <3>5. CASE Unlock(r) \/ LoadFails(r) \/ Crash(r)
      BY <1>1, <3>5 DEF Unlock, LoadFails, Crash, Release
    <3> QED
      BY <1>5, <3>1, <3>2, <3>3, <3>4, <3>5 DEF ReaderStep
  <2>6. \A q \in Reader :
          /\ rpc'[q] \in {"lrange", "relrange"} => list # <<>>
          /\ rpc'[q] \in {"snapshot", "install"} => list = <<>>
          /\ rpc'[q] = "hit" => got'[q] # <<>>
          /\ rpc'[q] = "install" =>
               \A x \in rows \ Elements(got'[q]) : wpc[x] \in Unpushed \/ Len(got'[q]) >= Limit
    <3> SUFFICES ASSUME NEW q \in Reader, q # r
                 PROVE  /\ rpc'[q] \in {"lrange", "relrange"} => list # <<>>
                        /\ rpc'[q] \in {"snapshot", "install"} => list = <<>>
                        /\ rpc'[q] = "hit" => got'[q] # <<>>
                        /\ rpc'[q] = "install" =>
                             \A x \in rows \ Elements(got'[q]) :
                               wpc[x] \in Unpushed \/ Len(got'[q]) >= Limit
      BY <2>5
    <3>1. rpc'[q] = rpc[q] /\ got'[q] = got[q]
      BY <1>3
    <3> QED
      BY <3>1 DEF SteadyInv
  <2> QED
    BY <1>2, <2>1, <2>2, <2>3, <2>6 DEF SteadyInv
<1> QED
  BY <1>4, <1>5

(* Every step keeps it: writers and readers by the two lemmas above, Expire*)
(* and LockTimeout because they end the steady state or change nothing.    *)
LEMMA NextSteady == TypeOK /\ LockInv /\ SteadyInv /\ [Next]_vars => SteadyInv'
<1> SUFFICES ASSUME TypeOK, LockInv, SteadyInv, [Next]_vars PROVE SteadyInv'
  OBVIOUS
<1>1. CASE Expire
  BY <1>1 DEF Expire, SteadyInv, Steady
<1>2. CASE LockTimeout \/ UNCHANGED vars
  <2>1. list' = list /\ rows' = rows /\ wpc' = wpc /\ rpc' = rpc /\ got' = got
    BY <1>2 DEF LockTimeout, vars
  <2>2. Steady' => Steady
    BY <1>2 DEF LockTimeout, vars, Steady
  <2>3. MissingIsExplained => MissingIsExplained'
    BY <2>1, <2>2 DEF MissingIsExplained
  <2> QED
    BY <2>1, <2>2, <2>3 DEF SteadyInv
<1> QED
  BY <1>1, <1>2, WriterSteady, ReaderSteady DEF Next

(* Types, the lock and the steady state's invariant, together.             *)
LEMMA AlwaysSteady == Spec => [](TypeOK /\ LockInv /\ SteadyInv)
BY InitTyped, NextTyped, InitLocked, NextLocked, InitSteady, NextSteady, PTL DEF Spec

(* In steady state the only committed objects a hot list can lack are those *)
(* not pushed to it and those pushed out of it.                            *)
THEOREM Explained == Spec => []MissingIsExplained
<1>1. SteadyInv => MissingIsExplained
  BY DEF SteadyInv, Steady, MissingIsExplained
<1> QED
  BY AlwaysSteady, <1>1, PTL

(* In steady state a cache hit is never empty.                             *)
THEOREM HitServes == Spec => []HitIsNotEmpty
<1>1. SteadyInv => HitIsNotEmpty
  BY DEF SteadyInv, Steady, HitIsNotEmpty
<1> QED
  BY AlwaysSteady, <1>1, PTL

(* In steady state a rebuild never replaces a live list.                   *)
THEOREM InstallsCold == Spec => InstallsOnCold
<1>1. SteadyInv =>
        [Steady /\ (\E r \in Reader : Install(r)) => list = <<>>]_vars
  BY DEF SteadyInv, Steady, Install, Step
<1> QED
  BY AlwaysSteady, <1>1, PTL DEF InstallsOnCold
=============================================================================
