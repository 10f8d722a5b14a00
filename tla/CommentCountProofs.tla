------------------------- MODULE CommentCountProofs -------------------------
(* Proofs about CommentCount, for any comments, requests and viewers.       *)
EXTENDS CommentCount, TLAPS, FiniteSetTheorems

-----------------------------------------------------------------------------
(* Every step keeps the types.                                              *)
LEMMA TypeStep == TypeOK /\ [Next]_vars => TypeOK'
<1> SUFFICES ASSUME TypeOK, [Next]_vars PROVE TypeOK'
  OBVIOUS
<1>0. raced' \in SUBSET (Writer \cup Viewer)
  BY DEF TypeOK, Next, OpenTogether, Open, vars
<1> USE <1>0, RequestAssumption
    DEF TypeOK, RedisTypeOK, redis, Step, Writer, Ended, PlacesOf
<1>1. ASSUME NEW p \in Writer, Insert(p) PROVE TypeOK'
  BY <1>1 DEF Insert
<1>2. ASSUME NEW p \in Writer, Select(p) PROVE TypeOK'
  BY <1>2 DEF Select
<1>3. ASSUME NEW p \in Writer, Save(p) PROVE TypeOK'
  BY <1>3 DEF Save
<1>4. ASSUME NEW p \in Writer, Update(p) PROVE TypeOK'
  BY <1>4 DEF Update
<1>5. ASSUME NEW p \in Writer, Exists(p) PROVE TypeOK'
  BY <1>5 DEF Exists
<1>6. ASSUME NEW p \in Writer, AddKey(p) PROVE TypeOK'
  BY <1>6 DEF AddKey, Add, Delta, After
<1>7. ASSUME NEW p \in Writer \cup Viewer, Refresh(p) PROVE TypeOK'
  BY <1>7 DEF Refresh
<1>8. ASSUME NEW p \in Writer \cup Viewer, SetKey(p) PROVE TypeOK'
  BY <1>8 DEF SetKey, Set, After
<1>9. ASSUME NEW p \in Writer, Delete(p) PROVE TypeOK'
  BY <1>9 DEF Delete
<1>10. ASSUME NEW p \in Writer \cup Viewer, RedisFails(p) PROVE TypeOK'
  BY <1>10 DEF RedisFails, After
<1>11. ASSUME NEW p \in Writer, Crash(p) PROVE TypeOK'
  BY <1>11 DEF Crash
<1>12. ASSUME NEW v \in Viewer, View(v) PROVE TypeOK'
  BY <1>12 DEF View
<1>13. CASE Expire
  <2>1. hot' = FALSE /\ value' = 0 /\ ttl' = FALSE
    BY <1>13 DEF Expire, Lapse
  <2>2. 0 \in Int
    OBVIOUS
  <2>3. RedisTypeOK'
    BY <2>1, <2>2, Zenon
  <2> QED
    BY <1>13, <2>3 DEF Expire
<1>14. CASE UNCHANGED vars
  BY <1>14 DEF vars
<1> QED
  BY <1>1, <1>2, <1>3, <1>4, <1>5, <1>6, <1>7, <1>8, <1>9, <1>10, <1>11, <1>12, <1>13,
     <1>14 DEF Next, WriterStep

LEMMA InitTypes == Init => TypeOK
<1> SUFFICES ASSUME Init PROVE TypeOK
  OBVIOUS
<1>1. comments \subseteq Comment /\ IsFiniteSet(comments)
  BY RequestAssumption, FS_Subset DEF Init
<1>2. count \in Int /\ 0 \in Int
  BY <1>1, FS_CardinalityType DEF Init
<1>3. RedisTypeOK
  BY <1>2, Zenon DEF Init, RedisInit, RedisTypeOK
<1>4. \A p \in Writer \cup Viewer : pc[p] \in PlacesOf(p) \cup Ended
  BY RequestAssumption DEF Init, Writer, PlacesOf
<1> QED
  BY <1>1, <1>2, <1>3, <1>4 DEF Init, TypeOK

(* Every request is at a place of its own kind, and a counter key that does *)
(* not exist has no value and no expiry.                                    *)
THEOREM CommentTypes == Spec => []TypeOK
BY InitTypes, TypeStep, PTL DEF Spec

-----------------------------------------------------------------------------
(* Until a comment is created it has no row, and nobody edits it.           *)
Fresh ==
  \A p \in Creator : pc[p] = "insert" =>
    /\ CommentOf[p] \notin comments
    /\ \A e \in Editor : CommentOf[e] = CommentOf[p] => pc[e] # "save"

Behind == Uncounted \cup DeletedTwice

LagInv == Fresh /\ CountLagsByUncounted

(* What a step does to rows, count and the requests behind: nothing, or one *)
(* more row and one more behind, one more counted, or one less of a count   *)
(* with one row less or one more behind.                                    *)
Outcome ==
  \/ UNCHANGED <<comments, count>> /\ Behind' = Behind
  \/ \E c \in Comment \ comments, p \in Writer \ Behind :
       comments' = comments \cup {c} /\ Behind' = Behind \cup {p} /\ count' = count
  \/ \E p \in Behind : Behind' = Behind \ {p} /\ count' = count + 1 /\ comments' = comments
  \/ \E c \in comments : comments' = comments \ {c} /\ count' = count - 1 /\ Behind' = Behind
  \/ \E p \in Writer \ Behind :
       Behind' = Behind \cup {p} /\ count' = count - 1 /\ comments' = comments

LEMMA OutcomeOfStep == TypeOK /\ Fresh /\ [Next]_vars => Outcome
<1> SUFFICES ASSUME TypeOK, Fresh, [Next]_vars PROVE Outcome
  OBVIOUS
<1> USE RequestAssumption DEF Outcome, Behind, Uncounted, DeletedTwice, Writer
<1>0. /\ DOMAIN pc = Writer \cup Viewer
      /\ \A p \in Writer \cup Viewer : pc[p] \in PlacesOf(p) \cup Ended
      /\ comments \subseteq Comment /\ count \in Int
  BY DEF TypeOK
<1>1. ASSUME NEW p \in Writer, Insert(p) PROVE Outcome
  <2>1. p \in Creator /\ pc[p] = "insert" /\ CommentOf[p] \in Comment \ comments
    BY <1>0, <1>1 DEF Insert, Step, PlacesOf, Ended, Fresh
  <2>2. /\ comments' = comments \cup {CommentOf[p]} /\ count' = count
        /\ pc' = [pc EXCEPT ![p] = "update"]
    BY <1>1 DEF Insert, Step
  <2>3. Behind' = Behind \cup {p} /\ p \notin Behind
    BY <1>0, <2>1, <2>2
  <2> QED
    BY <2>1, <2>2, <2>3
<1>2. ASSUME NEW p \in Writer, Save(p) PROVE Outcome
  <2>1. p \in Editor /\ pc[p] = "save" /\ CommentOf[p] \in Comment
    BY <1>0, <1>2 DEF Save, Step, PlacesOf, Ended
  <2>2. CASE CommentOf[p] \in comments
    <3>1. comments' = comments /\ count' = count /\ pc' = [pc EXCEPT ![p] = "done"]
      BY <1>2, <2>2 DEF Save, Step
    <3> QED
      BY <1>0, <2>1, <3>1
  <2>3. CASE CommentOf[p] \notin comments
    <3>1. /\ comments' = comments \cup {CommentOf[p]} /\ count' = count
          /\ pc' = [pc EXCEPT ![p] = "update"]
      BY <1>2, <2>3 DEF Save, Step
    <3>2. Behind' = Behind \cup {p} /\ p \notin Behind
      BY <1>0, <2>1, <3>1
    <3> QED
      BY <2>1, <2>3, <3>1, <3>2
  <2> QED
    BY <2>2, <2>3
<1>3. ASSUME NEW p \in Writer, Update(p) PROVE Outcome
  <2>1. pc[p] = "update" /\ pc' = [pc EXCEPT ![p] = "exists"] /\ comments' = comments
    BY <1>3 DEF Update, Step
  <2>2. CASE p \in Destroyer
    BY <1>0, <1>3, <2>1, <2>2 DEF Update
  <2>3. CASE p \notin Destroyer
    <3>1. count' = count + 1
      BY <1>3, <2>3 DEF Update
    <3>2. p \in Behind /\ Behind' = Behind \ {p}
      BY <1>0, <2>1, <2>3
    <3> QED
      BY <2>1, <3>1, <3>2
  <2> QED
    BY <2>2, <2>3
<1>4. ASSUME NEW p \in Writer, Delete(p) PROVE Outcome
  <2>1. p \in Destroyer /\ pc[p] = "delete"
    BY <1>0, <1>4 DEF Delete, Step, PlacesOf, Ended
  <2>2. CASE CommentOf[p] \in comments
    <3>1. /\ comments' = comments \ {CommentOf[p]} /\ count' = count - 1
          /\ pc' = [pc EXCEPT ![p] = "done"]
      BY <1>4, <2>2 DEF Delete, Step
    <3>2. Behind' = Behind
      BY <1>0, <2>1, <3>1
    <3> QED
      BY <2>2, <3>1, <3>2
  <2>3. CASE CommentOf[p] \notin comments
    <3>1. comments' = comments /\ count' = count - 1 /\ pc' = [pc EXCEPT ![p] = "vain"]
      BY <1>4, <2>3 DEF Delete, Step
    <3>2. p \notin Behind /\ Behind' = Behind \cup {p}
      BY <1>0, <2>1, <3>1
    <3> QED
      BY <3>1, <3>2
  <2> QED
    BY <2>2, <2>3
<1>5. ASSUME NEW p \in Writer, Crash(p) PROVE Outcome
  <2>1. pc[p] \notin Ended /\ comments' = comments /\ count' = count
    BY <1>5 DEF Crash
  <2>2. pc' = [pc EXCEPT ![p] = IF pc[p] = "update" /\ p \notin Destroyer
                                THEN "uncounted" ELSE "failed"]
    BY <1>5 DEF Crash
  <2>3. Behind' = Behind
    BY <1>0, <2>1, <2>2 DEF Ended
  <2> QED
    BY <2>1, <2>3
<1>6. ASSUME NEW p \in Writer \cup Viewer,
             \/ Select(p) \/ Exists(p) \/ AddKey(p) \/ Refresh(p) \/ SetKey(p)
             \/ RedisFails(p) \/ View(p)
      PROVE  Outcome
  <2>1. comments' = comments /\ count' = count
    BY <1>6 DEF Select, Exists, AddKey, Refresh, SetKey, RedisFails, View
  <2>2. /\ \A q \in Writer \ {p} : pc'[q] = pc[q]
        /\ pc[p] \notin {"update", "uncounted", "vain"}
        /\ pc'[p] \in {"update", "uncounted", "vain"} => p \in Destroyer \cup Viewer
                                                       /\ pc'[p] = "update"
    BY <1>0, <1>6
    DEF Select, Exists, AddKey, Refresh, SetKey, RedisFails, View, Step, After, PlacesOf, Ended
  <2>3. Behind' = Behind
    BY <2>2
  <2> QED
    BY <2>1, <2>3
<1>7. CASE Expire \/ UNCHANGED vars
  BY <1>7 DEF Expire, vars
<1> QED
  BY <1>1, <1>2, <1>3, <1>4, <1>5, <1>6, <1>7 DEF Next, WriterStep

LEMMA FreshStep == TypeOK /\ Fresh /\ [Next]_vars => Fresh'
<1> SUFFICES ASSUME TypeOK, Fresh, [Next]_vars,
                    NEW q \in Creator, pc'[q] = "insert"
             PROVE  /\ CommentOf[q] \notin comments'
                    /\ \A e \in Editor : CommentOf[e] = CommentOf[q] => pc'[e] # "save"
  BY DEF Fresh
<1> USE RequestAssumption DEF Writer
<1>0. /\ DOMAIN pc = Writer \cup Viewer
      /\ \A p \in Writer \cup Viewer : pc[p] \in PlacesOf(p) \cup Ended
  BY DEF TypeOK
<1>1. pc[q] = "insert"
  BY <1>0 DEF Next, WriterStep, Insert, Select, Save, Update, Exists, AddKey, Refresh, SetKey,
       Delete, RedisFails, Crash, View, Expire, After, Step, vars
<1>2. /\ CommentOf[q] \notin comments
      /\ \A e \in Editor : CommentOf[e] = CommentOf[q] => pc[e] # "save"
  BY <1>1 DEF Fresh
<1>3. ASSUME NEW p \in Writer, Insert(p)
      PROVE  /\ CommentOf[q] \notin comments'
             /\ \A e \in Editor : CommentOf[e] = CommentOf[q] => pc'[e] # "save"
  <2>1. p \in Creator /\ p # q
    BY <1>0, <1>3 DEF Insert, Step, PlacesOf, Ended
  <2> QED
    BY <1>0, <1>2, <1>3, <2>1 DEF Insert, Step
<1>4. ASSUME NEW p \in Writer, Save(p)
      PROVE  /\ CommentOf[q] \notin comments'
             /\ \A e \in Editor : CommentOf[e] = CommentOf[q] => pc'[e] # "save"
  <2>1. p \in Editor /\ CommentOf[p] # CommentOf[q]
    BY <1>0, <1>2, <1>4 DEF Save, Step, PlacesOf, Ended
  <2> QED
    BY <1>0, <1>2, <1>4, <2>1 DEF Save, Step
<1>5. ASSUME NEW p \in Writer, Select(p)
      PROVE  /\ CommentOf[q] \notin comments'
             /\ \A e \in Editor : CommentOf[e] = CommentOf[q] => pc'[e] # "save"
  BY <1>0, <1>2, <1>5 DEF Select, Step
<1>6. ASSUME comments' \subseteq comments, \A e \in Editor : pc'[e] = "save" => pc[e] = "save"
      PROVE  /\ CommentOf[q] \notin comments'
             /\ \A e \in Editor : CommentOf[e] = CommentOf[q] => pc'[e] # "save"
  BY <1>2, <1>6
<1>7. ASSUME NEW p \in Writer \cup Viewer,
             \/ Update(p) \/ Exists(p) \/ AddKey(p) \/ Refresh(p) \/ SetKey(p) \/ Delete(p)
             \/ RedisFails(p) \/ Crash(p) \/ View(p)
      PROVE  comments' \subseteq comments /\ \A e \in Editor : pc'[e] = "save" => pc[e] = "save"
  BY <1>0, <1>7 DEF Update, Exists, AddKey, Refresh, SetKey, Delete, RedisFails, Crash, View,
       Step, After
<1>8. CASE Expire \/ UNCHANGED vars
  BY <1>6, <1>8 DEF Expire, vars
<1> QED
  BY <1>3, <1>4, <1>5, <1>6, <1>7, <1>8 DEF Next, WriterStep

LEMMA LagStep == TypeOK /\ LagInv /\ [Next]_vars => LagInv'
<1> SUFFICES ASSUME TypeOK, LagInv, [Next]_vars PROVE CountLagsByUncounted'
  BY FreshStep DEF LagInv
<1>1. /\ IsFiniteSet(comments) /\ IsFiniteSet(Behind)
      /\ Cardinality(comments) \in Nat /\ Cardinality(Behind) \in Nat
      /\ count \in Int /\ count + Cardinality(Behind) = Cardinality(comments)
  <2>1. IsFiniteSet(comments) /\ IsFiniteSet(Behind)
    BY RequestAssumption, FS_Subset DEF TypeOK, Behind, Uncounted, DeletedTwice, Writer
  <2> QED
    BY <2>1, FS_CardinalityType DEF TypeOK, LagInv, CountLagsByUncounted, Behind
<1>2. Outcome
  BY OutcomeOfStep DEF LagInv
<1>3. count' + Cardinality(Behind') = Cardinality(comments')
  <2>1. CASE UNCHANGED <<comments, count>> /\ Behind' = Behind
    BY <1>1, <2>1
  <2>2. ASSUME NEW c \in Comment \ comments, NEW p \in Writer \ Behind,
               comments' = comments \cup {c}, Behind' = Behind \cup {p}, count' = count
        PROVE  count' + Cardinality(Behind') = Cardinality(comments')
    <3>1. Cardinality(comments \cup {c}) = Cardinality(comments) + 1
      BY <1>1, FS_AddElement
    <3>2. Cardinality(Behind \cup {p}) = Cardinality(Behind) + 1
      BY <1>1, FS_AddElement
    <3> QED
      BY <1>1, <2>2, <3>1, <3>2
  <2>3. ASSUME NEW p \in Behind, Behind' = Behind \ {p}, count' = count + 1, comments' = comments
        PROVE  count' + Cardinality(Behind') = Cardinality(comments')
    <3>1. Cardinality(Behind \ {p}) = Cardinality(Behind) - 1
      BY <1>1, FS_RemoveElement
    <3> QED
      BY <1>1, <2>3, <3>1
  <2>4. ASSUME NEW c \in comments, comments' = comments \ {c}, count' = count - 1, Behind' = Behind
        PROVE  count' + Cardinality(Behind') = Cardinality(comments')
    <3>1. Cardinality(comments \ {c}) = Cardinality(comments) - 1
      BY <1>1, FS_RemoveElement
    <3> QED
      BY <1>1, <2>4, <3>1
  <2>5. ASSUME NEW p \in Writer \ Behind, Behind' = Behind \cup {p}, count' = count - 1,
               comments' = comments
        PROVE  count' + Cardinality(Behind') = Cardinality(comments')
    <3>1. Cardinality(Behind \cup {p}) = Cardinality(Behind) + 1
      BY <1>1, FS_AddElement
    <3> QED
      BY <1>1, <2>5, <3>1
  <2> QED
    BY <1>2, <2>1, <2>2, <2>3, <2>4, <2>5 DEF Outcome
<1> QED
  BY <1>3 DEF CountLagsByUncounted, Behind

(* tweets.comments_count is the number of Comment rows but for the comments *)
(* not counted yet, or never after a crash, and the deletes that found no   *)
(* row, for any number of comments and requests, with failures and crashes. *)
THEOREM CountLags == Spec => []CountLagsByUncounted
<1>1. Init => LagInv
  <2> SUFFICES ASSUME Init PROVE LagInv
    OBVIOUS
  <2>1. Uncounted \cup DeletedTwice = {}
    BY RequestAssumption DEF Init, Uncounted, DeletedTwice, Writer
  <2>2. Cardinality(comments) \in Nat /\ Cardinality({}) = 0
    BY RequestAssumption, FS_Subset, FS_CardinalityType, FS_EmptySet DEF Init
  <2>3. Fresh
    BY RequestAssumption DEF Init, Fresh, Writer
  <2> QED
    <3>1. count = Cardinality(comments)
      BY DEF Init
    <3>2. Cardinality(Uncounted \cup DeletedTwice) = 0
      BY <2>1, <2>2
    <3> QED
      BY <2>2, <2>3, <3>1, <3>2 DEF LagInv, CountLagsByUncounted
<1>2. LagInv => CountLagsByUncounted
  BY DEF LagInv
<1> QED
  BY <1>1, <1>2, InitTypes, TypeStep, LagStep, PTL DEF Spec

-----------------------------------------------------------------------------
OpenAt(place) ==
  {p \in Writer \cup Viewer : place[p] \in {"exists", "add", "refresh", "set", "delete"}}

(* Where the error of a cached number n comes from, until the key expires or*)
(* something fails, with the count c and the requests at their places: each *)
(* request in over makes n one too high, since its comment counts twice or  *)
(* its delete is missing; each one in under makes it one too low, since its *)
(* comment is not in n, or its delete is in n and not yet committed.        *)
MayBeOver(place) == {p \in Writer : place[p] \in {"done", "vain"}}

MayBeUnder(place) ==
  {p \in Writer \ Destroyer : place[p] \in {"exists", "add", "refresh", "set", "done"}}
    \cup {p \in Destroyer : place[p] = "delete"}

Off(n, c, place, over, under) ==
  /\ over \subseteq MayBeOver(place) /\ under \subseteq MayBeUnder(place)
  /\ n - c = Cardinality(over) - Cardinality(under)

(* Before the first SET just the requests under way are not in the number.  *)
NotSet(place, over, under) ==
  over = {} /\ \A p \in MayBeUnder(place) : p \in under <=> place[p] # "done"

(* After it, the last request to SET is not among those in error, but for a *)
(* delete that it is still to commit; and a request that is done and in     *)
(* error, or is open and will be since the number holds its comment, was    *)
(* open at once with it.                                                    *)
MetBy(b, place, met, over, under) ==
  /\ \A p \in over \cup under : p \notin OpenAt(place) => p \in met /\ b \in met
  /\ \A p \in MayBeUnder(place) \cap OpenAt(place) : p \notin under => p \in met /\ b \in met

SetBy(b, place, met, over, under) ==
  /\ b \in Writer \cup Viewer /\ b \notin over
  /\ MetBy(b, place, met, over, under)
  /\ \/ place[b] \in {"done", "vain", "shown"} /\ b \notin under
     \/ b \in Destroyer /\ place[b] = "delete" /\ b \in under

ValueOff(n, c, place, met) ==
  \E over, under \in SUBSET Writer :
    /\ Off(n, c, place, over, under)
    /\ \/ NotSet(place, over, under)
       \/ \E b \in Writer \cup Viewer : SetBy(b, place, met, over, under)

(* What a request read for its SET; a delete has taken itself off already.  *)
Committed(r, n) == IF r \in Destroyer THEN n + 1 ELSE n

ReadOff(r, n, c, place, met) ==
  \E over, under \in SUBSET (Writer \ {r}) :
    /\ Off(Committed(r, n), c, place, over, under)
    /\ \A q \in over \cup under : q \in met /\ r \in met

(* Requests that are open at once have raced.                               *)
RacedInv == OpenTogether \subseteq raced

DriftInv ==
  ~disturbed =>
    /\ \A p \in Writer : pc[p] = "add" => hot
    /\ hot => ValueOff(value, count, pc, raced)
    /\ \A r \in Writer \cup Viewer : pc[r] = "set" => ReadOff(r, read[r], count, pc, raced)

LEMMA Sizes ==
  ASSUME NEW S \in SUBSET Writer, NEW p \in Writer
  PROVE  /\ Cardinality(S) \in Nat
         /\ p \notin S => Cardinality(S \cup {p}) = Cardinality(S) + 1
         /\ p \in S => Cardinality(S \ {p}) = Cardinality(S) - 1
<1>1. IsFiniteSet(S)
  BY RequestAssumption, FS_Subset
<1> QED
  BY <1>1, FS_CardinalityType, FS_AddElement, FS_RemoveElement

(* A request moves on and stays where it may be in error.                   *)
LEMMA OffStays ==
  ASSUME NEW n, NEW c, NEW place, NEW after, NEW over, NEW under,
         Off(n, c, place, over, under),
         MayBeOver(place) \subseteq MayBeOver(after),
         MayBeUnder(place) \subseteq MayBeUnder(after)
  PROVE  Off(n, c, after, over, under)
BY DEF Off

(* The UPDATE of a create: all numbers read before lack it.                 *)
LEMMA OffUpdate ==
  ASSUME NEW n \in Int, NEW c \in Int, NEW place, NEW after,
         NEW over \in SUBSET Writer, NEW under \in SUBSET Writer,
         NEW p \in Writer, p \notin MayBeUnder(place), p \in MayBeUnder(after),
         Off(n, c, place, over, under),
         MayBeOver(place) \subseteq MayBeOver(after),
         MayBeUnder(place) \subseteq MayBeUnder(after)
  PROVE  Off(n, c + 1, after, over, under \cup {p})
<1>1. p \notin under
  BY DEF Off
<1>2. Cardinality(over) \in Nat /\ Cardinality(under) \in Nat
  BY Sizes
<1>3. Cardinality(under \cup {p}) = Cardinality(under) + 1
  BY <1>1, Sizes
<1> QED
  BY <1>2, <1>3 DEF Off

(* The COMMIT of a delete: a number that it is in is right again, and all   *)
(* others lack it.                                                          *)
LEMMA OffDelete ==
  ASSUME NEW n \in Int, NEW c \in Int, NEW place, NEW after,
         NEW over \in SUBSET Writer, NEW under \in SUBSET Writer,
         NEW p \in Writer, p \notin MayBeOver(place), p \in MayBeOver(after),
         Off(n, c, place, over, under),
         MayBeOver(place) \subseteq MayBeOver(after),
         MayBeUnder(place) \ {p} \subseteq MayBeUnder(after)
  PROVE  /\ p \notin over
         /\ p \in under => Off(n, c - 1, after, over, under \ {p})
         /\ p \notin under => Off(n, c - 1, after, over \cup {p}, under)
<1>1. p \notin over
  BY DEF Off
<1>2. Cardinality(over) \in Nat /\ Cardinality(under) \in Nat
  BY Sizes
<1>3. ASSUME p \in under PROVE Off(n, c - 1, after, over, under \ {p})
  <2>1. Cardinality(under \ {p}) = Cardinality(under) - 1
    BY <1>3, Sizes
  <2> QED
    BY <1>2, <2>1 DEF Off
<1>4. ASSUME p \notin under PROVE Off(n, c - 1, after, over \cup {p}, under)
  <2>1. Cardinality(over \cup {p}) = Cardinality(over) + 1
    BY <1>1, Sizes
  <2> QED
    BY <1>2, <1>4, <2>1 DEF Off
<1> QED
  BY <1>1, <1>3, <1>4

-----------------------------------------------------------------------------
(* Every step records the requests that are open at once.                   *)
LEMMA RacedStep ==
  ASSUME TypeOK, RacedInv, [Next]_vars PROVE RacedInv' /\ raced \subseteq raced'
<1>1. CASE UNCHANGED vars
  BY <1>1 DEF vars, RacedInv, OpenTogether, Open
<1> QED
  BY <1>1 DEF Next, RacedInv

LEMMA MetInOpen ==
  ASSUME RacedInv, NEW p \in OpenAt(pc), NEW q \in OpenAt(pc), p # q
  PROVE  p \in raced /\ q \in raced
BY DEF RacedInv, OpenTogether, Open, OpenAt

(* The steps.  Most change neither count nor key.                           *)
LEMMA QuietStep ==
  ASSUME TypeOK, DriftInv, RacedInv, RacedInv', raced \subseteq raced', ~disturbed,
         NEW p \in Writer \cup Viewer, NEW next, pc' = [pc EXCEPT ![p] = next],
         UNCHANGED <<hot, value, count>>,
         pc[p] \notin {"done", "vain", "shown", "delete"},
         next = "add" => hot,
         p \in MayBeUnder(pc) => p \in MayBeUnder(pc') /\ next # "done",
         p \in MayBeUnder(pc') => p \in MayBeUnder(pc) \/ next = "done",
         p \in OpenAt(pc) => p \in OpenAt(pc'),
         \A r \in (Writer \cup Viewer) \ {p} : read'[r] = read[r],
         next = "set" => Committed(p, read'[p]) = count
  PROVE  DriftInv'
<1>0. DOMAIN pc = Writer \cup Viewer
  BY DEF TypeOK
<1>1. /\ \A q \in (Writer \cup Viewer) \ {p} : pc'[q] = pc[q]
      /\ pc'[p] = next
  BY <1>0
<1>2. /\ MayBeOver(pc) \subseteq MayBeOver(pc')
      /\ MayBeUnder(pc) \subseteq MayBeUnder(pc')
      /\ \A q \in MayBeUnder(pc') : q \in MayBeUnder(pc) \/ q = p
  <2>1. p \notin MayBeOver(pc)
    BY DEF MayBeOver
  <2>2. \A q \in Writer : q # p => (q \in MayBeOver(pc) <=> q \in MayBeOver(pc'))
    BY <1>1 DEF MayBeOver
  <2>3. \A q \in Writer : q # p => (q \in MayBeUnder(pc) <=> q \in MayBeUnder(pc'))
    BY <1>1 DEF MayBeUnder
  <2>4. MayBeOver(pc) \subseteq Writer /\ MayBeUnder(pc) \subseteq Writer /\ MayBeUnder(pc') \subseteq Writer
    BY DEF MayBeOver, MayBeUnder, Writer
  <2> QED
    BY <2>1, <2>2, <2>3, <2>4
<1>3. hot => ValueOff(value, count, pc', raced')
  <2> SUFFICES ASSUME hot PROVE ValueOff(value, count, pc', raced')
    OBVIOUS
  <2>1. PICK over \in SUBSET Writer, under \in SUBSET Writer :
          /\ Off(value, count, pc, over, under)
          /\ \/ NotSet(pc, over, under)
             \/ \E b \in Writer \cup Viewer : SetBy(b, pc, raced, over, under)
    BY DEF DriftInv, ValueOff
  <2>2. Off(value, count, pc', over, under)
    BY <1>2, <2>1, OffStays
  <2>3. ASSUME NotSet(pc, over, under) PROVE NotSet(pc', over, under)
    <3>1. over = {} /\ under \subseteq MayBeUnder(pc)
      BY <2>1, <2>3 DEF NotSet, Off
    <3>2. ASSUME NEW q \in MayBeUnder(pc'), q # p PROVE q \in under <=> pc'[q] # "done"
      <4>1. q \in MayBeUnder(pc) /\ pc'[q] = pc[q]
        BY <1>1, <1>2, <3>2 DEF MayBeUnder, Writer
      <4> QED
        BY <2>3, <4>1 DEF NotSet
    <3>3. ASSUME p \in MayBeUnder(pc') PROVE p \in under <=> pc'[p] # "done"
      <4>1. CASE p \in MayBeUnder(pc)
        BY <1>1, <2>3, <4>1 DEF NotSet
      <4>2. CASE p \notin MayBeUnder(pc)
        BY <1>1, <3>1, <3>3, <4>2
      <4> QED
        BY <4>1, <4>2
    <3> QED
      BY <3>1, <3>2, <3>3 DEF NotSet
  <2>4. ASSUME NEW b \in Writer \cup Viewer, SetBy(b, pc, raced, over, under)
        PROVE  SetBy(b, pc', raced', over, under)
    <3>1. b # p /\ pc'[b] = pc[b]
      BY <1>1, <2>4 DEF SetBy
    <3>2. ASSUME NEW q \in over \cup under, q \notin OpenAt(pc')
          PROVE  q \in raced' /\ b \in raced'
      <4>1. q \notin OpenAt(pc)
        BY <1>1, <3>2 DEF OpenAt
      <4> QED
        BY <2>4, <4>1 DEF SetBy, MetBy
    <3>3. ASSUME NEW q \in MayBeUnder(pc') \cap OpenAt(pc'), q \notin under
          PROVE  q \in raced' /\ b \in raced'
      <4>1. q \in MayBeUnder(pc)
        BY <1>1, <1>2, <3>3 DEF OpenAt
      <4>2. q \in OpenAt(pc)
        BY <1>1, <3>3, <4>1 DEF OpenAt, MayBeUnder, Writer
      <4> QED
        BY <2>4, <3>3, <4>1, <4>2 DEF SetBy, MetBy
    <3> QED
      BY <2>4, <3>1, <3>2, <3>3 DEF SetBy, MetBy
  <2> QED
    BY <2>1, <2>2, <2>3, <2>4 DEF ValueOff
<1>4. ASSUME NEW r \in Writer \cup Viewer, pc'[r] = "set" PROVE ReadOff(r, read'[r], count, pc', raced')
  <2>1. CASE r # p
    <3>1. pc[r] = "set" /\ read'[r] = read[r]
      BY <1>1, <1>4, <2>1
    <3>2. PICK over \in SUBSET (Writer \ {r}), under \in SUBSET (Writer \ {r}) :
            /\ Off(Committed(r, read[r]), count, pc, over, under)
            /\ \A q \in over \cup under : q \in raced /\ r \in raced
      BY <3>1 DEF DriftInv, ReadOff
    <3>3. Off(Committed(r, read[r]), count, pc', over, under)
      BY <1>2, <3>2, OffStays
    <3> QED
      BY <3>1, <3>2, <3>3 DEF ReadOff
  <2>2. CASE r = p
    <3>1. Committed(p, read'[p]) = count /\ count \in Int
      BY <1>1, <1>4, <2>2 DEF TypeOK
    <3>2. Off(Committed(p, read'[p]), count, pc', {}, {})
      BY <3>1, FS_EmptySet DEF Off
    <3> QED
      BY <2>2, <3>2 DEF ReadOff
  <2> QED
    BY <2>1, <2>2
<1>5. \A q \in Writer : pc'[q] = "add" => hot'
  BY <1>1 DEF DriftInv
<1> QED
  BY <1>3, <1>4, <1>5 DEF DriftInv


LEMMA UpdateStep ==
  ASSUME TypeOK, DriftInv, RacedInv, RacedInv', raced \subseteq raced', ~disturbed,
         NEW p \in Writer \ Destroyer, Update(p)
  PROVE  DriftInv'
<1>0. DOMAIN pc = Writer \cup Viewer /\ value \in Int /\ count \in Int
      /\ read \in [Writer \cup Viewer -> Int]
  BY DEF TypeOK, RedisTypeOK
<1>1. /\ pc[p] = "update" /\ pc'[p] = "exists" /\ DOMAIN pc' = Writer \cup Viewer
      /\ \A q \in (Writer \cup Viewer) \ {p} : pc'[q] = pc[q]
      /\ count' = count + 1 /\ UNCHANGED <<hot, value, read>>
  BY <1>0 DEF Update, Step, redis
<1>2. /\ p \notin MayBeUnder(pc) /\ p \in MayBeUnder(pc')
      /\ MayBeOver(pc) \subseteq MayBeOver(pc')
      /\ MayBeUnder(pc) \subseteq MayBeUnder(pc')
      /\ \A q \in MayBeUnder(pc') : q \in MayBeUnder(pc) \/ q = p
  BY <1>1 DEF MayBeUnder, MayBeOver, Writer
<1>3. hot => ValueOff(value, count + 1, pc', raced')
  <2> SUFFICES ASSUME hot PROVE ValueOff(value, count + 1, pc', raced')
    OBVIOUS
  <2>1. PICK over \in SUBSET Writer, under \in SUBSET Writer :
          /\ Off(value, count, pc, over, under)
          /\ \/ NotSet(pc, over, under)
             \/ \E b \in Writer \cup Viewer : SetBy(b, pc, raced, over, under)
    BY DEF DriftInv, ValueOff
  <2> DEFINE more == under \cup {p}
  <2>2. Off(value, count + 1, pc', over, more) /\ more \in SUBSET Writer
    BY <1>0, <1>2, <2>1, OffUpdate
  <2>3. ASSUME NotSet(pc, over, under) PROVE NotSet(pc', over, more)
    <3>1. ASSUME NEW q \in MayBeUnder(pc') PROVE q \in more <=> pc'[q] # "done"
      <4>1. CASE q = p
        BY <1>1, <4>1
      <4>2. CASE q # p
        <5>1. q \in MayBeUnder(pc) /\ pc'[q] = pc[q]
          BY <1>1, <1>2, <3>1, <4>2 DEF MayBeUnder, Writer
        <5> QED
          BY <2>3, <4>2, <5>1 DEF NotSet
      <4> QED
        BY <4>1, <4>2
    <3> QED
      BY <2>3, <3>1 DEF NotSet
  <2>4. ASSUME NEW b \in Writer \cup Viewer, SetBy(b, pc, raced, over, under)
        PROVE  SetBy(b, pc', raced', over, more)
    <3>1. b # p /\ pc'[b] = pc[b] /\ p \in OpenAt(pc')
      BY <1>1, <2>4 DEF SetBy, OpenAt
    <3>2. \A q \in Writer : q # p => (q \in OpenAt(pc') <=> q \in OpenAt(pc))
      BY <1>1 DEF OpenAt
    <3>3. MayBeUnder(pc') \subseteq Writer
      BY DEF MayBeUnder, Writer
    <3>4. MetBy(b, pc', raced', over, more)
      BY <1>2, <2>1, <2>4, <3>1, <3>2, <3>3 DEF SetBy, MetBy
    <3> QED
      BY <2>4, <3>1, <3>4 DEF SetBy
  <2> HIDE DEF more
  <2> QED
    BY <2>1, <2>2, <2>3, <2>4 DEF ValueOff
<1>4. ASSUME NEW r \in Writer \cup Viewer, pc'[r] = "set"
      PROVE  ReadOff(r, read[r], count + 1, pc', raced')
  <2>1. r # p /\ pc[r] = "set"
    BY <1>1, <1>4
  <2>2. PICK over \in SUBSET (Writer \ {r}), under \in SUBSET (Writer \ {r}) :
          /\ Off(Committed(r, read[r]), count, pc, over, under)
          /\ \A q \in over \cup under : q \in raced /\ r \in raced
    BY <2>1 DEF DriftInv, ReadOff
  <2>3. Committed(r, read[r]) \in Int
    BY <1>0 DEF Committed
  <2>4. Off(Committed(r, read[r]), count + 1, pc', over, under \cup {p})
    BY <1>0, <1>2, <2>2, <2>3, OffUpdate
  <2>5. under \cup {p} \in SUBSET (Writer \ {r})
    BY <2>1
  <2>6. p \in OpenAt(pc)' /\ r \in OpenAt(pc)'
    BY <1>1, <1>4 DEF OpenAt
  <2>7. p \in raced' /\ r \in raced'
    BY <2>1, <2>6 DEF RacedInv, OpenTogether, Open, OpenAt
  <2> QED
    BY <2>2, <2>4, <2>5, <2>7 DEF ReadOff
<1>5. \A q \in Writer : pc'[q] = "add" => hot
  BY <1>1 DEF DriftInv
<1> QED
  BY <1>1, <1>3, <1>4, <1>5 DEF DriftInv

LEMMA DeleteStep ==
  ASSUME TypeOK, DriftInv, RacedInv, RacedInv', raced \subseteq raced', ~disturbed,
         NEW p \in Writer, Delete(p)
  PROVE  DriftInv'
<1>0. DOMAIN pc = Writer \cup Viewer /\ value \in Int /\ count \in Int
      /\ read \in [Writer \cup Viewer -> Int]
  BY DEF TypeOK, RedisTypeOK
<1>1. /\ pc[p] = "delete" /\ pc'[p] \in {"done", "vain"}
      /\ \A q \in (Writer \cup Viewer) \ {p} : pc'[q] = pc[q]
      /\ count' = count - 1 /\ UNCHANGED <<hot, value, read>>
  BY <1>0 DEF Delete, Step, redis
<1>2. p \in Destroyer
  BY <1>1, RequestAssumption DEF TypeOK, PlacesOf, Ended, Writer
<1>3. /\ p \notin MayBeOver(pc) /\ p \in MayBeOver(pc')
      /\ MayBeOver(pc) \subseteq MayBeOver(pc')
      /\ MayBeUnder(pc) \ {p} \subseteq MayBeUnder(pc')
      /\ p \in MayBeUnder(pc) /\ p \notin MayBeUnder(pc')
      /\ \A q \in MayBeUnder(pc') : q \in MayBeUnder(pc) /\ q # p
  BY <1>1, <1>2 DEF MayBeUnder, MayBeOver, Writer
<1>7. /\ p \in OpenAt(pc) /\ p \notin OpenAt(pc')
      /\ \A q \in Writer : q # p => (q \in OpenAt(pc') <=> q \in OpenAt(pc))
      /\ MayBeUnder(pc) \subseteq Writer
  BY <1>1 DEF OpenAt, MayBeUnder, Writer
<1>4. hot => ValueOff(value, count - 1, pc', raced')
  <2> SUFFICES ASSUME hot PROVE ValueOff(value, count - 1, pc', raced')
    OBVIOUS
  <2>1. PICK over \in SUBSET Writer, under \in SUBSET Writer :
          /\ Off(value, count, pc, over, under)
          /\ \/ NotSet(pc, over, under)
             \/ \E b \in Writer \cup Viewer : SetBy(b, pc, raced, over, under)
    BY DEF DriftInv, ValueOff
  <2>2. CASE p \in under
    <3> DEFINE less == under \ {p}
    <3>1. Off(value, count - 1, pc', over, less) /\ less \in SUBSET Writer /\ p \notin over
      BY <1>0, <1>3, <2>1, <2>2, OffDelete
    <3>2. ASSUME NotSet(pc, over, under) PROVE NotSet(pc', over, less)
      <4>1. ASSUME NEW q \in MayBeUnder(pc') PROVE q \in less <=> pc'[q] # "done"
        <5>1. q \in MayBeUnder(pc) /\ q # p /\ pc'[q] = pc[q]
          BY <1>1, <1>3, <4>1 DEF MayBeUnder, Writer
        <5> QED
          BY <3>2, <5>1 DEF NotSet
      <4> QED
        BY <3>2, <4>1 DEF NotSet
    <3>3. ASSUME NEW b \in Writer \cup Viewer, SetBy(b, pc, raced, over, under)
          PROVE  SetBy(b, pc', raced', over, less)
      <4>3. MetBy(b, pc', raced', over, less)
        BY <1>3, <1>7, <2>1, <3>1, <3>3 DEF SetBy, MetBy
      <4>1. CASE b = p
        BY <1>1, <3>1, <3>3, <4>1, <4>3 DEF SetBy
      <4>2. CASE b # p
        BY <1>1, <3>3, <4>2, <4>3 DEF SetBy
      <4> QED
        BY <4>1, <4>2
    <3> HIDE DEF less
    <3> QED
      BY <2>1, <3>1, <3>2, <3>3 DEF ValueOff
  <2>3. CASE p \notin under
    <3> DEFINE more == over \cup {p}
    <3>1. Off(value, count - 1, pc', more, under) /\ more \in SUBSET Writer
      BY <1>0, <1>3, <2>1, <2>3, OffDelete
    <3>2. ~ NotSet(pc, over, under)
      BY <1>1, <1>3, <2>3 DEF NotSet
    <3>3. ASSUME NEW b \in Writer \cup Viewer, SetBy(b, pc, raced, over, under)
          PROVE  SetBy(b, pc', raced', more, under)
      <4>1. b # p
        BY <1>1, <2>3, <3>3 DEF SetBy
      <4>2. p \in raced /\ b \in raced
        BY <1>3, <1>7, <2>3, <3>3 DEF SetBy, MetBy
      <4>3. MetBy(b, pc', raced', more, under)
        BY <1>3, <1>7, <2>1, <2>3, <3>3, <4>2 DEF SetBy, MetBy
      <4> QED
        BY <1>1, <3>3, <4>1, <4>3 DEF SetBy
    <3> HIDE DEF more
    <3> QED
      BY <2>1, <3>1, <3>2, <3>3 DEF ValueOff
  <2> QED
    BY <2>2, <2>3
<1>5. ASSUME NEW r \in Writer \cup Viewer, pc'[r] = "set"
      PROVE  ReadOff(r, read[r], count - 1, pc', raced')
  <2>1. r # p /\ pc[r] = "set"
    BY <1>1, <1>5
  <2>2. PICK over \in SUBSET (Writer \ {r}), under \in SUBSET (Writer \ {r}) :
          /\ Off(Committed(r, read[r]), count, pc, over, under)
          /\ \A q \in over \cup under : q \in raced /\ r \in raced
    BY <2>1 DEF DriftInv, ReadOff
  <2>3. Committed(r, read[r]) \in Int
    BY <1>0 DEF Committed
  <2>4. /\ p \in under => Off(Committed(r, read[r]), count - 1, pc', over, under \ {p})
        /\ p \notin under => Off(Committed(r, read[r]), count - 1, pc', over \cup {p}, under)
    BY <1>0, <1>3, <2>2, <2>3, OffDelete
  <2>5. under \ {p} \in SUBSET (Writer \ {r}) /\ over \cup {p} \in SUBSET (Writer \ {r})
    BY <2>1
  <2>6. r \in OpenAt(pc)
    BY <2>1 DEF OpenAt
  <2>7. p \in raced /\ r \in raced
    BY <1>7, <2>1, <2>6, MetInOpen
  <2>8. CASE p \in under
    BY <2>2, <2>4, <2>5, <2>8 DEF ReadOff
  <2>9. CASE p \notin under
    BY <2>2, <2>4, <2>5, <2>7, <2>9 DEF ReadOff
  <2> QED
    BY <2>8, <2>9
<1>6. \A q \in Writer : pc'[q] = "add" => hot
  BY <1>1 DEF DriftInv
<1> QED
  BY <1>1, <1>4, <1>5, <1>6 DEF DriftInv


(* What the others read for a SET is no better or worse for an INCR or SET. *)
LEMMA ReadsStay ==
  ASSUME DriftInv, raced \subseteq raced', ~disturbed, NEW p \in Writer \cup Viewer,
         pc'[p] # "set", \A q \in (Writer \cup Viewer) \ {p} : pc'[q] = pc[q],
         MayBeOver(pc) \subseteq MayBeOver(pc'), MayBeUnder(pc) \subseteq MayBeUnder(pc')
  PROVE  \A r \in Writer \cup Viewer : pc'[r] = "set" => ReadOff(r, read[r], count, pc', raced')
<1> SUFFICES ASSUME NEW r \in Writer \cup Viewer, pc'[r] = "set"
             PROVE  ReadOff(r, read[r], count, pc', raced')
  OBVIOUS
<1>1. r # p /\ pc[r] = "set"
  OBVIOUS
<1>2. PICK over \in SUBSET (Writer \ {r}), under \in SUBSET (Writer \ {r}) :
        /\ Off(Committed(r, read[r]), count, pc, over, under)
        /\ \A q \in over \cup under : q \in raced /\ r \in raced
  BY <1>1 DEF DriftInv, ReadOff
<1>3. Off(Committed(r, read[r]), count, pc', over, under)
  BY <1>2, OffStays
<1> QED
  BY <1>2, <1>3 DEF ReadOff

LEMMA AddStep ==
  ASSUME TypeOK, DriftInv, RacedInv, RacedInv', raced \subseteq raced', ~disturbed,
         NEW p \in Writer, AddKey(p)
  PROVE  DriftInv'
<1>0. DOMAIN pc = Writer \cup Viewer /\ value \in Int /\ count \in Int
  BY DEF TypeOK, RedisTypeOK
<1>1. /\ pc[p] = "add" /\ pc'[p] = After(p)
      /\ \A q \in (Writer \cup Viewer) \ {p} : pc'[q] = pc[q]
      /\ hot' = TRUE /\ value' = value + Delta(p) /\ UNCHANGED <<count, read, disturbed>>
  BY <1>0 DEF AddKey, Add, Step
<1>2. /\ MayBeOver(pc) \subseteq MayBeOver(pc')
      /\ MayBeUnder(pc) \subseteq MayBeUnder(pc')
      /\ p \notin MayBeOver(pc) /\ p \in MayBeUnder(pc')
      /\ p \in MayBeUnder(pc) <=> p \notin Destroyer
      /\ \A q \in MayBeUnder(pc') : q \in MayBeUnder(pc) \/ q = p
      /\ p \notin Destroyer => p \in MayBeOver(pc')
  BY <1>1 DEF MayBeUnder, MayBeOver, Writer, After
<1>3. PICK over \in SUBSET Writer, under \in SUBSET Writer :
        /\ Off(value, count, pc, over, under)
        /\ \/ NotSet(pc, over, under)
           \/ \E b \in Writer \cup Viewer : SetBy(b, pc, raced, over, under)
  BY <1>1 DEF DriftInv, ValueOff
<1>4. /\ over \subseteq MayBeOver(pc') /\ under \subseteq MayBeUnder(pc') /\ p \notin over
      /\ value - count = Cardinality(over) - Cardinality(under)
      /\ Cardinality(over) \in Nat /\ Cardinality(under) \in Nat
  BY <1>2, <1>3, Sizes DEF Off
<1>5. ASSUME NEW b \in Writer \cup Viewer, SetBy(b, pc, raced, over, under)
      PROVE  b # p /\ pc'[b] = pc[b]
  BY <1>1, <1>5 DEF SetBy
<1>6. ASSUME NEW q \in MayBeUnder(pc'), q # p, NotSet(pc, over, under)
      PROVE  q \in under <=> pc'[q] # "done"
  <2>1. q \in MayBeUnder(pc) /\ pc'[q] = pc[q]
    BY <1>1, <1>2, <1>6 DEF MayBeUnder, Writer
  <2> QED
    BY <1>6, <2>1 DEF NotSet
<1>10. /\ p \in OpenAt(pc)
       /\ p \in Destroyer <=> p \in OpenAt(pc')
       /\ \A q \in Writer : q # p => (q \in OpenAt(pc') <=> q \in OpenAt(pc))
       /\ MayBeUnder(pc') \subseteq Writer
  BY <1>1 DEF OpenAt, MayBeUnder, Writer, After
<1>7. ValueOff(value', count, pc', raced')
  <2>1. CASE p \in Destroyer
    <3> DEFINE more == under \cup {p}
    <3>1. p \notin under /\ pc'[p] = "delete" /\ value' = value - 1
      BY <1>1, <1>2, <1>3, <1>0, <2>1 DEF Off, After, Delta
    <3>2. Cardinality(more) = Cardinality(under) + 1
      BY <3>1, Sizes
    <3>3. Off(value', count, pc', over, more) /\ more \in SUBSET Writer
      BY <1>0, <1>2, <1>4, <3>1, <3>2 DEF Off
    <3>4. ASSUME NotSet(pc, over, under) PROVE NotSet(pc', over, more)
      BY <1>6, <3>1, <3>4 DEF NotSet
    <3>5. ASSUME NEW b \in Writer \cup Viewer, SetBy(b, pc, raced, over, under)
          PROVE  SetBy(b, pc', raced', over, more)
      <4>1. MetBy(b, pc', raced', over, more)
        BY <1>2, <1>10, <2>1, <3>5 DEF SetBy, MetBy
      <4> QED
        BY <1>5, <3>5, <4>1 DEF SetBy
    <3> HIDE DEF more
    <3> QED
      BY <1>3, <3>3, <3>4, <3>5 DEF ValueOff
  <2>2. CASE p \notin Destroyer /\ p \in under
    <3> DEFINE less == under \ {p}
    <3>1. pc'[p] = "done" /\ value' = value + 1
      BY <1>1, <2>2 DEF After, Delta
    <3>2. Cardinality(less) = Cardinality(under) - 1
      BY <2>2, Sizes
    <3>3. Off(value', count, pc', over, less) /\ less \in SUBSET Writer
      BY <1>0, <1>4, <3>1, <3>2 DEF Off
    <3>4. ASSUME NotSet(pc, over, under) PROVE NotSet(pc', over, less)
      BY <1>6, <3>1, <3>4 DEF NotSet
    <3>5. ASSUME NEW b \in Writer \cup Viewer, SetBy(b, pc, raced, over, under)
          PROVE  SetBy(b, pc', raced', over, less)
      <4>1. MetBy(b, pc', raced', over, less)
        BY <1>2, <1>4, <1>10, <2>2, <3>5 DEF SetBy, MetBy
      <4> QED
        BY <1>5, <3>5, <4>1 DEF SetBy
    <3> HIDE DEF less
    <3> QED
      BY <1>3, <3>3, <3>4, <3>5 DEF ValueOff
  <2>3. CASE p \notin Destroyer /\ p \notin under
    <3> DEFINE more == over \cup {p}
    <3>1. pc'[p] = "done" /\ value' = value + 1
      BY <1>1, <2>3 DEF After, Delta
    <3>2. Cardinality(more) = Cardinality(over) + 1
      BY <1>4, Sizes
    <3>3. Off(value', count, pc', more, under) /\ more \in SUBSET Writer
      BY <1>0, <1>2, <1>4, <2>3, <3>1, <3>2 DEF Off
    <3>4. ~ NotSet(pc, over, under)
      BY <1>1, <1>2, <2>3 DEF NotSet
    <3>5. ASSUME NEW b \in Writer \cup Viewer, SetBy(b, pc, raced, over, under)
          PROVE  SetBy(b, pc', raced', more, under)
      <4>1. p \in raced /\ b \in raced
        BY <1>2, <1>10, <2>3, <3>5 DEF SetBy, MetBy
      <4>2. MetBy(b, pc', raced', more, under)
        BY <1>2, <1>10, <2>3, <3>5, <4>1 DEF SetBy, MetBy
      <4> QED
        BY <1>5, <2>3, <3>5, <4>2 DEF SetBy
    <3> HIDE DEF more
    <3> QED
      BY <1>3, <3>3, <3>4, <3>5 DEF ValueOff
  <2> QED
    BY <2>1, <2>2, <2>3
<1>8. pc'[p] # "set"
  BY <1>1 DEF After
<1>9. \A r \in Writer \cup Viewer : pc'[r] = "set" => ReadOff(r, read[r], count, pc', raced')
  BY <1>1, <1>2, <1>8, ReadsStay
<1> QED
  BY <1>1, <1>7, <1>9 DEF DriftInv

LEMMA SetStep ==
  ASSUME TypeOK, DriftInv, RacedInv, RacedInv', raced \subseteq raced', ~disturbed,
         NEW p \in Writer \cup Viewer, SetKey(p)
  PROVE  DriftInv'
<1>0. DOMAIN pc = Writer \cup Viewer /\ count \in Int /\ read \in [Writer \cup Viewer -> Int]
  BY DEF TypeOK
<1>1. /\ pc[p] = "set" /\ pc'[p] = IF p \in Viewer THEN "shown" ELSE After(p)
      /\ \A q \in (Writer \cup Viewer) \ {p} : pc'[q] = pc[q]
      /\ hot' = TRUE /\ value' = read[p] /\ UNCHANGED <<count, read, disturbed>>
  BY <1>0 DEF SetKey, Set, Step
<1>2. p \in Viewer => p \notin Writer
  BY RequestAssumption
<1>3. /\ MayBeOver(pc) \subseteq MayBeOver(pc')
      /\ MayBeUnder(pc) \subseteq MayBeUnder(pc')
      /\ p \in Destroyer => p \in MayBeUnder(pc')
  BY <1>1, <1>2 DEF MayBeUnder, MayBeOver, Writer, After
<1>4. PICK over \in SUBSET (Writer \ {p}), under \in SUBSET (Writer \ {p}) :
        /\ Off(Committed(p, read[p]), count, pc, over, under)
        /\ \A q \in over \cup under : q \in raced /\ p \in raced
  BY <1>1 DEF DriftInv, ReadOff
<1>5. Off(Committed(p, read[p]), count, pc', over, under)
  BY <1>3, <1>4, OffStays
<1>9. \A q \in OpenAt(pc') : q # p => q \in raced /\ p \in raced
  <2>1. p \in OpenAt(pc)
    BY <1>1 DEF OpenAt
  <2>2. \A q \in OpenAt(pc') : q # p => q \in OpenAt(pc)
    BY <1>1 DEF OpenAt
  <2> QED
    BY <2>1, <2>2, MetInOpen
<1>6. ValueOff(value', count, pc', raced')
  <2>1. CASE p \in Destroyer
    <3> DEFINE more == under \cup {p}
    <3>1. pc'[p] = "delete" /\ p \in Writer
      BY <1>1, <1>2, <2>1 DEF After, Writer
    <3>2. Cardinality(more) = Cardinality(under) + 1 /\ more \in SUBSET Writer
          /\ Cardinality(under) \in Nat /\ Cardinality(over) \in Nat
      BY <1>4, <3>1, Sizes
    <3>3. Off(value', count, pc', over, more)
      BY <1>0, <1>1, <1>3, <1>5, <2>1, <3>2 DEF Off, Committed
    <3>5. p \in OpenAt(pc')
      BY <3>1 DEF OpenAt
    <3>6. MetBy(p, pc', raced', over, more)
      BY <1>4, <1>9, <3>5 DEF MetBy
    <3>4. SetBy(p, pc', raced', over, more)
      BY <1>4, <2>1, <3>1, <3>6 DEF SetBy
    <3> HIDE DEF more
    <3> QED
      BY <3>2, <3>3, <3>4 DEF ValueOff
  <2>2. CASE p \notin Destroyer
    <3>1. Off(value', count, pc', over, under)
      BY <1>1, <1>5, <2>2 DEF Committed
    <3>3. p \notin OpenAt(pc')
      BY <1>1, <2>2 DEF OpenAt, After
    <3>4. MetBy(p, pc', raced', over, under)
      BY <1>4, <1>9, <3>3 DEF MetBy
    <3>2. SetBy(p, pc', raced', over, under)
      BY <1>1, <1>4, <2>2, <3>4 DEF SetBy, After
    <3> QED
      BY <3>1, <3>2 DEF ValueOff
  <2> QED
    BY <2>1, <2>2
<1>7. pc'[p] # "set"
  BY <1>1 DEF After
<1>8. \A r \in Writer \cup Viewer : pc'[r] = "set" => ReadOff(r, read[r], count, pc', raced')
  BY <1>1, <1>3, <1>7, ReadsStay
<1> QED
  BY <1>1, <1>6, <1>8 DEF DriftInv

LEMMA DriftStep == TypeOK /\ DriftInv /\ RacedInv /\ [Next]_vars => DriftInv'
<1> SUFFICES ASSUME TypeOK, DriftInv, RacedInv, [Next]_vars, ~disturbed' PROVE DriftInv'
  BY DEF DriftInv
<1>0. /\ DOMAIN pc = Writer \cup Viewer /\ count \in Int
      /\ read \in [Writer \cup Viewer -> Int]
      /\ \A p \in Writer \cup Viewer : pc[p] \in PlacesOf(p) \cup Ended
  BY DEF TypeOK
<1>b. RacedInv' /\ raced \subseteq raced'
  BY RacedStep
<1>a. ~disturbed
  BY DEF Next, WriterStep, Insert, Select, Save, Update, Exists, AddKey, Refresh, SetKey, Delete,
         RedisFails, Crash, View, Expire, vars
<1>1. ASSUME NEW p \in Writer, Insert(p) PROVE DriftInv'
  <2>1. /\ pc[p] = "insert" /\ pc' = [pc EXCEPT ![p] = "update"]
        /\ UNCHANGED <<hot, value, count, read>>
    BY <1>1 DEF Insert, Step, redis
  <2>2. /\ p \notin MayBeUnder(pc) /\ p \notin MayBeUnder(pc')
        /\ p \in OpenAt(pc) => p \in OpenAt(pc')
    BY <1>0, <2>1 DEF MayBeUnder, OpenAt, Writer
  <2> QED
    BY <1>a, <1>b, <2>1, <2>2, QuietStep
<1>2. ASSUME NEW p \in Writer, Select(p) PROVE DriftInv'
  <2>1. PICK next \in {"notFound", "save", "update"} :
          /\ pc[p] = "select" /\ pc' = [pc EXCEPT ![p] = next]
          /\ UNCHANGED <<hot, value, count, read>>
    BY <1>2 DEF Select, Step, redis
  <2>2. /\ p \notin MayBeUnder(pc) /\ p \notin MayBeUnder(pc')
        /\ p \in OpenAt(pc) => p \in OpenAt(pc')
    BY <1>0, <2>1 DEF MayBeUnder, OpenAt, Writer
  <2> QED
    BY <1>a, <1>b, <2>1, <2>2, QuietStep
<1>3. ASSUME NEW p \in Writer, Save(p) PROVE DriftInv'
  <2>1. PICK next \in {"done", "update"} :
          /\ pc[p] = "save" /\ pc' = [pc EXCEPT ![p] = next]
          /\ UNCHANGED <<hot, value, count, read>>
    BY <1>3 DEF Save, Step, redis
  <2>2. /\ p \notin MayBeUnder(pc)
        /\ p \in MayBeUnder(pc') => next = "done"
        /\ p \in OpenAt(pc) => p \in OpenAt(pc')
    BY <1>0, <2>1 DEF MayBeUnder, OpenAt, Writer
  <2> QED
    BY <1>a, <1>b, <2>1, <2>2, QuietStep
<1>4. ASSUME NEW p \in Writer, Update(p) PROVE DriftInv'
  <2>1. CASE p \in Destroyer
    <3>1. /\ pc[p] = "update" /\ pc' = [pc EXCEPT ![p] = "exists"]
          /\ UNCHANGED <<hot, value, count, read>>
      BY <1>4, <2>1 DEF Update, Step, redis
    <3>2. /\ p \notin MayBeUnder(pc) /\ p \notin MayBeUnder(pc')
          /\ p \in OpenAt(pc) => p \in OpenAt(pc')
      BY <1>0, <2>1, <3>1 DEF MayBeUnder, OpenAt, Writer
    <3> QED
      BY <1>a, <1>b, <3>1, <3>2, QuietStep
  <2>2. CASE p \notin Destroyer
    BY <1>a, <1>b, <1>4, <2>2, UpdateStep
  <2> QED
    BY <2>1, <2>2
<1>5. ASSUME NEW p \in Writer, Exists(p) PROVE DriftInv'
  <2>1. PICK next \in {"add", "refresh"} :
          /\ pc[p] = "exists" /\ pc' = [pc EXCEPT ![p] = next]
          /\ UNCHANGED <<hot, value, count, read>>
          /\ next = "add" => hot
    BY <1>5 DEF Exists, Step, redis
  <2>2. /\ p \in MayBeUnder(pc) <=> p \in MayBeUnder(pc')
        /\ p \in OpenAt(pc) => p \in OpenAt(pc')
    BY <1>0, <2>1 DEF MayBeUnder, OpenAt, Writer
  <2> QED
    BY <1>a, <1>b, <2>1, <2>2, QuietStep
<1>6. ASSUME NEW p \in Writer \cup Viewer, Refresh(p) PROVE DriftInv'
  <2>1. /\ pc[p] = "refresh" /\ pc' = [pc EXCEPT ![p] = "set"]
        /\ UNCHANGED <<hot, value, count>>
        /\ read' = [read EXCEPT ![p] = IF p \in Destroyer THEN count - 1 ELSE count]
    BY <1>6 DEF Refresh, Step, redis
  <2>2. /\ p \in MayBeUnder(pc) <=> p \in MayBeUnder(pc')
        /\ p \in OpenAt(pc) => p \in OpenAt(pc')
    BY <1>0, <2>1 DEF MayBeUnder, OpenAt, Writer
  <2>3. /\ Committed(p, read'[p]) = count
        /\ \A r \in (Writer \cup Viewer) \ {p} : read'[r] = read[r]
    BY <1>0, <2>1 DEF Committed
  <2>4. /\ pc[p] \notin {"done", "vain", "shown", "delete"}
        /\ p \in MayBeUnder(pc) => p \in MayBeUnder(pc') /\ "set" # "done"
        /\ p \in MayBeUnder(pc') => p \in MayBeUnder(pc) \/ "set" = "done"
        /\ "set" = "add" => hot
        /\ "set" = "set" => Committed(p, read'[p]) = count
        /\ p \in OpenAt(pc) => p \in OpenAt(pc')
    BY <2>1, <2>2, <2>3
  <2> QED
    BY <1>a, <1>b, <2>1, <2>3, <2>4, QuietStep, Zenon
<1>7. ASSUME NEW v \in Viewer, View(v) PROVE DriftInv'
  <2>1. PICK next \in {"shown", "refresh"} :
          /\ pc[v] = "view" /\ pc' = [pc EXCEPT ![v] = next]
          /\ UNCHANGED <<hot, value, count, read>>
    BY <1>7 DEF View, Step, redis
  <2>2. /\ v \notin MayBeUnder(pc) /\ v \notin MayBeUnder(pc')
        /\ v \in OpenAt(pc) => v \in OpenAt(pc')
    BY <2>1, RequestAssumption DEF MayBeUnder, OpenAt, Writer
  <2> QED
    BY <1>a, <1>b, <2>1, <2>2, QuietStep
<1>8. ASSUME NEW p \in Writer \cup Viewer, RedisFails(p) PROVE FALSE
  BY <1>8 DEF RedisFails
<1>9. ASSUME NEW p \in Writer, Crash(p) PROVE FALSE
  BY <1>9 DEF Crash
<1>10. CASE UNCHANGED vars
  BY <1>10 DEF vars, redis, DriftInv
<1>11. ASSUME Expire PROVE FALSE
  BY <1>11 DEF Expire
<1> QED
  BY <1>a, <1>b, <1>1, <1>2, <1>3, <1>4, <1>5, <1>6, <1>7, <1>8, <1>9, <1>10, <1>11,
     AddStep, SetStep, DeleteStep DEF Next, WriterStep

(* Until the key expires or something fails, the error of the cached count  *)
(* is smaller than the number of requests that were open while another was, *)
(* however many there are; requests one after another leave none.           *)
THEOREM DriftIsBounded == Spec => []DriftBounded
<1>1. Init => DriftInv /\ RacedInv
  <2> SUFFICES ASSUME Init PROVE DriftInv /\ RacedInv
    OBVIOUS
  <2>1. TypeOK
    BY InitTypes
  <2>2. \A p \in Writer \cup Viewer : pc[p] \in {"insert", "view", "select"}
    BY DEF Init
  <2>3. MayBeUnder(pc) = {}
    BY <2>2 DEF MayBeUnder, Writer
  <2>4. ASSUME hot PROVE ValueOff(value, count, pc, raced)
    <3>1. value = count /\ count \in Int
      BY <2>1, <2>4 DEF Init, RedisInit, TypeOK
    <3>2. Off(value, count, pc, {}, {}) /\ NotSet(pc, {}, {})
      BY <2>3, <3>1, FS_EmptySet DEF Off, NotSet
    <3> QED
      BY <3>2 DEF ValueOff
  <2>5. RacedInv
    BY <2>2 DEF RacedInv, OpenTogether, Open
  <2> QED
    BY <2>2, <2>4, <2>5 DEF DriftInv
<1>2. TypeOK /\ DriftInv => DriftBounded
  <2> SUFFICES ASSUME TypeOK, DriftInv, ~disturbed, Idle, hot, value # count
               PROVE  value - count \in (1 - Cardinality(raced))..(Cardinality(raced) - 1)
    BY DEF DriftBounded
  <2>1. PICK over \in SUBSET Writer, under \in SUBSET Writer :
          /\ Off(value, count, pc, over, under)
          /\ \/ NotSet(pc, over, under)
             \/ \E b \in Writer \cup Viewer : SetBy(b, pc, raced, over, under)
    BY DEF DriftInv, ValueOff
  <2>2. \A p \in Writer \cup Viewer : pc[p] \in Ended \cup {"insert", "select", "view"}
    BY DEF Idle
  <2>3. OpenAt(pc) = {} /\ \A p \in under : pc[p] = "done"
    BY <2>1, <2>2 DEF Off, MayBeUnder, OpenAt, Ended, Writer
  <2>4. ~ NotSet(pc, over, under)
    <3> SUFFICES ASSUME NotSet(pc, over, under) PROVE FALSE
      OBVIOUS
    <3>1. over = {} /\ under = {}
      BY <2>1, <2>3 DEF NotSet, Off, MayBeUnder
    <3>2. value \in Int /\ count \in Int
      BY DEF TypeOK, RedisTypeOK
    <3>3. Cardinality(over) = 0 /\ Cardinality(under) = 0
      BY <3>1, FS_EmptySet
    <3>4. value - count = 0 - 0
      BY <2>1, <3>3 DEF Off
    <3> QED
      BY <3>2, <3>4
  <2>5. PICK b \in Writer \cup Viewer : SetBy(b, pc, raced, over, under)
    BY <2>1, <2>4
  <2>6. b \notin over /\ b \notin under /\ \A p \in over \cup under : p \in raced /\ b \in raced
    BY <2>2, <2>3, <2>5 DEF SetBy, MetBy, Ended
  <2>7. IsFiniteSet(raced)
    <3>1. IsFiniteSet(Writer \cup Viewer)
      BY RequestAssumption, FS_Union
    <3> QED
      BY <3>1, FS_Subset DEF TypeOK
  <2>13. b \in raced
    <3> SUFFICES ASSUME b \notin raced PROVE FALSE
      OBVIOUS
    <3>1. over = {} /\ under = {}
      BY <2>6
    <3>2. Cardinality(over) = 0 /\ Cardinality(under) = 0
      BY <3>1, FS_EmptySet
    <3>3. value - count = 0 - 0
      BY <2>1, <3>2 DEF Off
    <3>4. value \in Int /\ count \in Int
      BY DEF TypeOK, RedisTypeOK
    <3> QED
      BY <3>3, <3>4
  <2>8. IsFiniteSet(raced \ {b}) /\ Cardinality(raced \ {b}) = Cardinality(raced) - 1
    BY <2>7, <2>13, FS_RemoveElement
  <2>9. over \in SUBSET (raced \ {b}) /\ under \in SUBSET (raced \ {b})
    BY <2>6
  <2>10. /\ Cardinality(over) \in Nat /\ Cardinality(over) <= Cardinality(raced) - 1
         /\ Cardinality(under) \in Nat /\ Cardinality(under) <= Cardinality(raced) - 1
    BY <2>8, <2>9, FS_Subset, FS_CardinalityType
  <2>11. Cardinality(raced) \in Nat /\ value - count = Cardinality(over) - Cardinality(under)
    BY <2>1, <2>7, FS_CardinalityType DEF Off
  <2> QED
    BY <2>10, <2>11
<1> QED
  BY <1>1, <1>2, InitTypes, TypeStep, DriftStep, RacedStep, PTL DEF Spec
=============================================================================
