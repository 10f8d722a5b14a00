--------------------------- MODULE TimelineProofs ---------------------------
(* Proofs about Timeline, for any rows, created_at, limit and page size.    *)
EXTENDS Timeline, TLAPS, WellFoundedInduction

-----------------------------------------------------------------------------
(* The helpers on lists.                                                    *)
LEMMA NewestFacts ==
  ASSUME NEW S, S \subseteq Item, NEW n \in Nat, NEW s \in NewestRows(S, n)
  PROVE  s \in Seq(Item) /\ Elements(s) \subseteq S /\ NewestFirst(s) /\ Len(s) <= n
<1>1. PICK k \in 0..n : s \in [1..k -> S]
  BY DEF NewestRows
<1>2. s \in Seq(Item) /\ Len(s) = k
  BY <1>1
<1> QED
  BY <1>1, <1>2 DEF NewestRows, Elements

LEMMA SubFacts ==
  ASSUME NEW s \in Seq(Item), NEW m \in 1..(Len(s) + 1), NEW n \in 0..Len(s),
         NEW part, part = SubSeq(s, m, n)
  PROVE  /\ part \in Seq(Item)
         /\ Len(part) = IF m <= n THEN n - m + 1 ELSE 0
         /\ \A i \in 1..Len(part) : part[i] = s[m + i - 1] /\ m + i - 1 \in m..n
         /\ NewestFirst(s) => NewestFirst(part)
<1>1. /\ part \in Seq(Item)
      /\ Len(part) = IF m <= n THEN n - m + 1 ELSE 0
      /\ \A i \in 1..Len(part) : part[i] = s[m + i - 1]
  OBVIOUS
<1>2. \A i \in 1..Len(part) : m + i - 1 \in m..n /\ m + i - 1 \in 1..Len(s)
  BY <1>1
<1>3. ASSUME NewestFirst(s) PROVE NewestFirst(part)
  <2>0. DOMAIN part = 1..Len(part)
    BY <1>1
  <2> SUFFICES ASSUME NEW i \in 1..Len(part), NEW j \in 1..Len(part), i < j
               PROVE  CreatedAt[part[i]] >= CreatedAt[part[j]]
    BY <2>0 DEF NewestFirst
  <2>1. m + i - 1 \in DOMAIN s /\ m + j - 1 \in DOMAIN s /\ m + i - 1 < m + j - 1
    BY <1>1, <1>2, <2>0
  <2>2. CreatedAt[s[m + i - 1]] >= CreatedAt[s[m + j - 1]]
    BY <1>3, <2>1 DEF NewestFirst
  <2> QED
    BY <1>1, <2>2
<1> QED
  BY <1>1, <1>2, <1>3

LEMMA KeepFacts ==
  ASSUME NEW s \in Seq(Item), NEW n \in Nat
  PROVE  /\ Keep(s, n) \in Seq(Item)
         /\ Len(Keep(s, n)) = IF Len(s) < n THEN Len(s) ELSE n
         /\ Elements(Keep(s, n)) \subseteq Elements(s)
         /\ NewestFirst(s) => NewestFirst(Keep(s, n))
<1> DEFINE m == IF Len(s) < n THEN Len(s) ELSE n
<1>1. m \in 0..Len(s) /\ 1 \in 1..(Len(s) + 1)
  OBVIOUS
<1>2. Keep(s, n) = SubSeq(s, 1, m)
  BY DEF Keep
<1> HIDE DEF m
<1>3. /\ Keep(s, n) \in Seq(Item)
      /\ Len(Keep(s, n)) = m
      /\ \A i \in 1..Len(Keep(s, n)) : Keep(s, n)[i] = s[i] /\ i \in 1..m
      /\ NewestFirst(s) => NewestFirst(Keep(s, n))
  <2>1. /\ Keep(s, n) \in Seq(Item)
        /\ Len(Keep(s, n)) = IF 1 <= m THEN m - 1 + 1 ELSE 0
        /\ \A i \in 1..Len(Keep(s, n)) : Keep(s, n)[i] = s[1 + i - 1] /\ 1 + i - 1 \in 1..m
        /\ NewestFirst(s) => NewestFirst(Keep(s, n))
    BY <1>1, <1>2, SubFacts, Zenon
  <2> QED
    BY <1>1, <2>1
<1>4. Elements(Keep(s, n)) \subseteq Elements(s)
  BY <1>1, <1>3 DEF Elements
<1> QED
  BY <1>3, <1>4 DEF m

LEMMA LeastIndex ==
  ASSUME NEW I, I \subseteq Nat, I # {} PROVE \E i \in I : \A j \in I : i <= j
<1> DEFINE R == OpToRel(<, Nat)
<1>1. IsWellFoundedOn(R, Nat)
  BY NatLessThanWellFounded
<1> HIDE DEF R
<1>2. PICK i \in I : \A j \in I : ~ (<<j, i>> \in R)
  BY <1>1, WFMin
<1>3. \A a, b \in Nat : a < b => <<a, b>> \in R
  BY DEF R, OpToRel
<1>4. \A j \in I : ~ (j < i)
  BY <1>2, <1>3
<1>5. \A j \in I : i <= j
  BY <1>4
<1> QED
  BY <1>5

LEMMA StartingFacts ==
  ASSUME NEW s \in Seq(Item), NEW S
  PROVE  /\ StartingIn(s, S) \in Seq(Item)
         /\ NewestFirst(s) => /\ NewestFirst(StartingIn(s, S))
                             /\ \A y \in Elements(StartingIn(s, S)) :
                                  \E x \in S \cap Item : CreatedAt[x] >= CreatedAt[y]
<1>1. CASE Elements(s) \cap S = {}
  <2>1. StartingIn(s, S) = <<>>
    BY <1>1 DEF StartingIn
  <2> QED
    BY <2>1 DEF NewestFirst, Elements
<1>2. CASE Elements(s) \cap S # {}
  <2> DEFINE First(i) == s[i] \in S /\ \A j \in 1..(i - 1) : s[j] \notin S
             f == CHOOSE i \in DOMAIN s : First(i)
             rest == SubSeq(s, f, Len(s))
  <2>1. \E i \in DOMAIN s : First(i)
    <3> DEFINE I == {i \in DOMAIN s : s[i] \in S}
    <3>1. I \subseteq Nat /\ I # {}
      BY <1>2 DEF Elements
    <3>2. PICK i \in I : \A j \in I : i <= j
      BY <3>1, LeastIndex
    <3> QED
      BY <3>2
  <2>2. f \in 1..Len(s) /\ s[f] \in S
    BY <2>1
  <2>3. StartingIn(s, S) = rest
    BY <1>2 DEF StartingIn
  <2> HIDE DEF f
  <2>4. /\ rest \in Seq(Item)
        /\ \A i \in 1..Len(rest) : rest[i] = s[f + i - 1] /\ f + i - 1 \in f..Len(s)
        /\ NewestFirst(s) => NewestFirst(rest)
    <3>1. f \in 1..(Len(s) + 1) /\ Len(s) \in 0..Len(s)
      BY <2>2
    <3> QED
      BY <3>1, SubFacts, Zenon
  <2>5. ASSUME NewestFirst(s), NEW y \in Elements(rest)
        PROVE  \E x \in S \cap Item : CreatedAt[x] >= CreatedAt[y]
    <3>1. PICK i \in 1..Len(rest) : y = rest[i]
      BY <2>4 DEF Elements
    <3>2. PICK k \in f..Len(s) : y = s[k]
      BY <2>4, <3>1
    <3>3. s[f] \in S \cap Item /\ CreatedAt[s[f]] \in Nat
      BY <2>2, TimeAssumption
    <3>4. CreatedAt[s[f]] >= CreatedAt[y]
      BY <2>2, <2>5, <3>2, <3>3 DEF NewestFirst
    <3> QED
      BY <3>3, <3>4
  <2> QED
    BY <2>3, <2>4, <2>5
<1> QED
  BY <1>1, <1>2

LEMMA WhileCut ==
  ASSUME NEW s \in Seq(Item), NEW S
  PROVE  \E n \in 0..Len(s) : /\ WhileIn(s, S) = Keep(s, n)
                              /\ \A i \in 1..n : s[i] \in S
                              /\ n < Len(s) => s[n + 1] \notin S
<1> DEFINE Fits(n) == (\A i \in 1..n : s[i] \in S) /\ (n < Len(s) => s[n + 1] \notin S)
           I == {i \in DOMAIN s : s[i] \notin S}
<1>1. \E n \in 0..Len(s) : Fits(n)
  <2>1. CASE I = {}
    BY <2>1
  <2>2. CASE I # {}
    <3>a. I \subseteq Nat
      OBVIOUS
    <3>1. PICK i \in I : \A j \in I : i <= j
      BY <2>2, <3>a, LeastIndex
    <3>2. i - 1 \in 0..Len(s) /\ Fits(i - 1)
      BY <3>1
    <3> QED
      BY <3>2
  <2> QED
    BY <2>1, <2>2
<1> DEFINE n == CHOOSE n \in 0..Len(s) : Fits(n)
<1>2. n \in 0..Len(s) /\ Fits(n)
  BY <1>1
<1>3. WhileIn(s, S) = Keep(s, n)
  BY DEF WhileIn
<1> HIDE DEF n
<1> QED
  BY <1>2, <1>3

LEMMA WhileType ==
  ASSUME NEW s \in Seq(Item), NEW S PROVE WhileIn(s, S) \in Seq(Item)
<1>1. PICK n \in 0..Len(s) : WhileIn(s, S) = Keep(s, n)
  BY WhileCut
<1> QED
  BY <1>1, KeepFacts

-----------------------------------------------------------------------------
(* Types.                                                                   *)
Scrolling == {"scroll", "install", "database"}

LEMMA ServeType ==
  ASSUME TypeOK, NEW rest \in Seq(Item), Serve(rest)
  PROVE  /\ page' \in Seq(Item) /\ Len(page') <= PageSize /\ shown' \in SUBSET Item
         /\ top' \in Nat /\ due' = due /\ phase' \in {"scroll", "end"}
<1>1. page' \in Seq(Item) /\ Len(page') <= PageSize
  <2>1. PageSize \in Nat /\ page' = Keep(rest, PageSize)
    BY SizeAssumption DEF Serve, Slice
  <2> QED
    BY <2>1, KeepFacts
<1>2. Elements(page') \subseteq Item
  BY <1>1 DEF Elements
<1>3. top' \in Nat
  <2>1. page' # <<>> => page'[1] \in Item
    BY <1>1
  <2> QED
    BY <2>1, TimeAssumption DEF Serve, TypeOK
<1> QED
  BY <1>1, <1>2, <1>3 DEF Serve, TypeOK

LEMMA AnswerType ==
  ASSUME TypeOK, NEW s \in Seq(Item), Answer(s),
         phase \in {"scroll", "install", "pull", "install_pull"}
  PROVE  /\ page' \in Seq(Item) /\ shown' \in SUBSET Item /\ top' \in Nat /\ due' = due
         /\ \/ phase' = "pulled" /\ phase \in {"pull", "install_pull"}
            \/ phase' \in {"scroll", "end", "database"} /\ Len(page') <= PageSize
<1>1. CASE phase \in {"scroll", "install"}
  <2> DEFINE rest == StartingIn(s, Older(Item))
  <2>1. rest \in Seq(Item)
    BY StartingFacts
  <2>2. \/ Serve(rest)
        \/ phase' = "database" /\ UNCHANGED <<page, shown, top, due>>
    BY <1>1 DEF Answer, ServeFrom
  <2> HIDE DEF rest
  <2> QED
    BY <1>1, <2>1, <2>2, ServeType DEF TypeOK
<1>2. CASE phase \in {"pull", "install_pull"}
  <2>1. ServePull(s)
    BY <1>2 DEF Answer
  <2>2. page' \in Seq(Item)
    BY <2>1, WhileType DEF ServePull
  <2>3. Elements(page') \subseteq Item
    BY <2>2 DEF Elements
  <2> QED
    BY <1>2, <2>1, <2>2, <2>3 DEF ServePull, TypeOK
<1> QED
  BY <1>1, <1>2

LEMMA RowsType == ASSUME TypeOK, NEW s \in NewestRows(rows, Limit) PROVE s \in Seq(Item)
<1>1. rows \subseteq Item /\ Limit \in Nat
  BY SizeAssumption DEF TypeOK
<1> QED
  BY <1>1, NewestFacts

LEMMA SettledType == ASSUME TypeOK PROVE Settled \in SUBSET Item /\ Settled \subseteq rows
BY DEF Settled, TypeOK

LEMMA TypeStep == TypeOK /\ [Next]_vars => TypeOK'
<1> SUFFICES ASSUME TypeOK, [Next]_vars PROVE TypeOK'
  OBVIOUS
<1>0. <<>> \in Seq(Item)
  OBVIOUS
<1>s. CASE Start
  BY <1>s, SettledType DEF Start, cache, TypeOK
<1>1. CASE Hit
  <2>1. list \in Seq(Item) /\ Answer(list) /\ phase \in {"scroll", "pull"}
    BY <1>1 DEF Hit, TypeOK
  <2>2. UNCHANGED <<rows, writer, unpushed, overtaken, list, loading, snapshot>>
    BY <1>1 DEF Hit, cache
  <2>3. anew' = anew
    BY <1>1 DEF Hit, cache
  <2> QED
    BY <2>1, <2>2, <2>3, AnswerType DEF TypeOK
<1>2. CASE LoadFails
  <2>1. PICK s \in NewestRows(rows, Limit) : Answer(s)
    BY <1>2 DEF LoadFails
  <2>2. s \in Seq(Item) /\ phase \in {"scroll", "install", "pull", "install_pull"}
    BY <1>2, RowsType DEF LoadFails
  <2>3. UNCHANGED <<rows, writer, overtaken, list, anew, loading>>
        /\ snapshot' \in Seq(Item) /\ unpushed' \in SUBSET Item
    BY <1>0, <1>2 DEF LoadFails, TypeOK
  <2> QED
    BY <2>1, <2>2, <2>3, AnswerType DEF TypeOK
<1>3. CASE Snapshot
  <2>1. snapshot' \in Seq(Item)
    BY <1>3, RowsType DEF Snapshot
  <2> QED
    BY <1>3, <2>1 DEF Snapshot, TypeOK
<1>4. CASE Install
  <2>1. snapshot \in Seq(Item) /\ Answer(snapshot) /\ phase \in {"install", "install_pull"}
    BY <1>4 DEF Install, TypeOK
  <2> QED
    BY <1>0, <1>4, <2>1, AnswerType DEF Install, TypeOK
<1>5. CASE PageFromDatabase
  <2>1. PICK rest \in NewestRows(Older(rows), PageSize + 1) : Serve(rest)
    BY <1>5 DEF PageFromDatabase
  <2>2. Older(rows) \subseteq Item /\ PageSize + 1 \in Nat
    BY SizeAssumption DEF Older, TypeOK
  <2>3. rest \in Seq(Item)
    BY <2>1, <2>2, NewestFacts
  <2> QED
    BY <1>5, <2>1, <2>3, ServeType DEF PageFromDatabase, cache, TypeOK
<1>6. CASE Pull
  <2>1. Newer(Settled) \in SUBSET Item
    BY SettledType DEF Newer
  <2> QED
    BY <1>6, <2>1 DEF Pull, cache, TypeOK
<1>7. ASSUME NEW x \in Item, Insert(x) \/ PushSkipped(x) PROVE TypeOK'
  BY <1>7 DEF Insert, PushSkipped, cache, client, TypeOK
<1>n. ASSUME NEW x \in Item, PushAnew(x) PROVE TypeOK'
  <2>1. <<x>> \in Seq(Item) /\ unpushed' \subseteq Item
    BY <1>n DEF PushAnew, TypeOK
  <2> QED
    BY <1>n, <2>1 DEF PushAnew, client, TypeOK
<1>8. ASSUME NEW x \in Item, Push(x) PROVE TypeOK'
  <2>1. <<x>> \o list \in Seq(Item) /\ Limit \in Nat
    BY SizeAssumption DEF TypeOK
  <2>2. Keep(<<x>> \o list, Limit) \in Seq(Item)
    BY <2>1, KeepFacts
  <2>3. Elements(list) \cup Settled \subseteq Item
    BY SettledType DEF Elements, TypeOK
  <2>4. overtaken' \in SUBSET Item
    BY <1>8, <2>3 DEF Push, TypeOK
  <2> QED
    BY <1>8, <2>2, <2>4 DEF Push, client, TypeOK
<1>9. CASE OtherSnapshot
  <2>1. snapshot' \in Seq(Item)
    BY <1>9, RowsType DEF OtherSnapshot
  <2> QED
    BY <1>9, <2>1 DEF OtherSnapshot, client, TypeOK
<1>10. CASE OtherInstall \/ OtherLoadFails \/ Expire
  BY <1>0, <1>10 DEF OtherInstall, OtherLoadFails, Expire, client, TypeOK
<1>11. CASE UNCHANGED vars
  BY <1>11 DEF vars, cache, client, TypeOK
<1> QED
  BY <1>s, <1>1, <1>2, <1>3, <1>4, <1>5, <1>6, <1>7, <1>n, <1>8, <1>9, <1>10, <1>11
  DEF Next, ClientStep

LEMMA InitTypes == Init => TypeOK
<1>1. <<>> \in Seq(Item) /\ Len(<<>>) = 0 /\ PageSize \in Nat
  BY SizeAssumption
<1>2. [x \in Item |-> "insert"] \in [Item -> {"insert", "push", "late", "done"}]
  OBVIOUS
<1> SUFFICES ASSUME Init PROVE TypeOK
  OBVIOUS
<1>3. rows \in SUBSET Item /\ shown \in SUBSET Item /\ due \in SUBSET Item
      /\ unpushed \in SUBSET Item /\ overtaken \in SUBSET Item /\ top \in Nat
  BY DEF Init
<1>4. list \in Seq(Item) /\ snapshot \in Seq(Item) /\ page \in Seq(Item) /\ Len(page) <= PageSize
  BY <1>1 DEF Init
<1>5. loading \in BOOLEAN /\ anew \in BOOLEAN
  BY DEF Init
<1>6. writer \in [Item -> {"insert", "push", "late", "done"}] /\ phase = "out"
  BY <1>2 DEF Init
<1> QED
  BY <1>3, <1>4, <1>5, <1>6 DEF TypeOK

(* Lists, snapshots and pages are sequences of rows, and a page of a scroll *)
(* has at most PageSize of them, wherever it comes from.                    *)
THEOREM TimelineTypes == Spec => []TypeOK
BY InitTypes, TypeStep, PTL DEF Spec

-----------------------------------------------------------------------------
(* As long as rows are pushed in order, the list is ordered, and all that a *)
(* scrolling client has got is at least as new as the last row of its page. *)
Behind ==
  phase \in Scrolling =>
    /\ page = <<>> => shown = {}
    /\ page # <<>> => \A y \in shown : CreatedAt[y] >= CreatedAt[page[Len(page)]]

StartsEmpty == phase = "out" => page = <<>> /\ shown = {}

OrderInv ==
  /\ StartsEmpty
  /\ NewestFirst(snapshot)
  /\ overtaken = {} => NewestFirst(list) /\ Behind

(* What comes from an ordered rest of older rows.                           *)
LEMMA ServeOrder ==
  ASSUME TypeOK, Behind, phase \in Scrolling, NEW rest \in Seq(Item), Serve(rest),
         NewestFirst(rest), Elements(rest) \subseteq Older(Item)
  PROVE  Elements(page') \cap shown = {} /\ Behind'
<1>1. /\ page' \in Seq(Item) /\ Elements(page') \subseteq Older(Item) /\ NewestFirst(page')
      /\ Len(page') = IF Len(rest) < PageSize THEN Len(rest) ELSE PageSize
  <2>1. PageSize \in Nat /\ page' = Keep(rest, PageSize)
    BY SizeAssumption DEF Serve, Slice
  <2> QED
    BY <2>1, KeepFacts
<1>2. page \in Seq(Item) /\ shown \subseteq Item
  BY DEF TypeOK
<1>3. ASSUME NEW x \in Elements(page'), NEW y \in shown
      PROVE  CreatedAt[x] < CreatedAt[y] /\ CreatedAt[x] \in Nat /\ CreatedAt[y] \in Nat
  <2>1. page # <<>> /\ CreatedAt[y] >= CreatedAt[page[Len(page)]]
    BY <1>3 DEF Behind
  <2>2. x \in Item /\ CreatedAt[x] < CreatedAt[page[Len(page)]]
    BY <1>1, <1>3, <2>1 DEF Older
  <2>3. page[Len(page)] \in Item
    BY <1>2, <2>1
  <2> QED
    BY <1>2, <2>1, <2>2, <2>3, TimeAssumption
<1>4. Elements(page') \cap shown = {}
  BY <1>3
<1>5. ASSUME phase' = "scroll" PROVE Behind'
  <2>1. Len(rest) > PageSize
    BY <1>5 DEF Serve, HasNextPage
  <2>2. Len(page') \in DOMAIN page' /\ page' # <<>>
    BY <1>1, <2>1, SizeAssumption
  <2> DEFINE last == page'[Len(page')]
  <2>3. last \in Elements(page') /\ last \in Item
    BY <1>1, <2>2 DEF Elements
  <2>4. \A y \in shown : CreatedAt[y] >= CreatedAt[last]
    BY <1>3, <2>3
  <2>5. \A y \in Elements(page') : CreatedAt[y] >= CreatedAt[last]
    <3> SUFFICES ASSUME NEW i \in DOMAIN page'
                 PROVE  CreatedAt[page'[i]] >= CreatedAt[last]
      BY DEF Elements
    <3>1. CASE i = Len(page')
      BY <2>3, <3>1, TimeAssumption
    <3>2. CASE i < Len(page')
      BY <1>1, <2>2, <3>2 DEF NewestFirst
    <3> QED
      BY <1>1, <3>1, <3>2
  <2>6. shown' = shown \cup Elements(page')
    BY DEF Serve
  <2> QED
    BY <2>2, <2>4, <2>5, <2>6 DEF Behind
<1>6. phase' # "scroll" => phase' \notin Scrolling
  BY DEF Serve, Scrolling
<1> QED
  BY <1>4, <1>5, <1>6 DEF Behind

(* The list may hold newer rows and starts the page at an older one; all    *)
(* after that one are older too.                                            *)
LEMMA AnswerOrder ==
  ASSUME TypeOK, Behind, NEW s \in Seq(Item), NewestFirst(s), Answer(s),
         phase \in {"scroll", "install", "pull", "install_pull"}
  PROVE  /\ Elements(page') \cap shown = {} \/ page' = page \/ phase' = "pulled"
         /\ Behind'
<1>1. CASE phase \in {"scroll", "install"}
  <2> DEFINE rest == StartingIn(s, Older(Item))
  <2>1. /\ rest \in Seq(Item) /\ NewestFirst(rest)
        /\ \A y \in Elements(rest) : \E x \in Older(Item) \cap Item : CreatedAt[x] >= CreatedAt[y]
    BY StartingFacts
  <2>2. \/ Serve(rest)
        \/ phase' = "database" /\ UNCHANGED <<page, shown, top, due>>
    BY <1>1 DEF Answer, ServeFrom
  <2> HIDE DEF rest
  <2>3. Elements(rest) \subseteq Older(Item)
    <3> SUFFICES ASSUME NEW y \in Elements(rest) PROVE y \in Older(Item)
      OBVIOUS
    <3>1. y \in Item
      BY <2>1 DEF Elements
    <3>2. PICK x \in Older(Item) \cap Item : CreatedAt[x] >= CreatedAt[y]
      BY <2>1
    <3>3. page # <<>> => page[Len(page)] \in Item
      BY DEF TypeOK
    <3> QED
      BY <3>1, <3>2, <3>3, TimeAssumption DEF Older
  <2>4. CASE Serve(rest)
    BY <1>1, <2>1, <2>3, <2>4, ServeOrder DEF Scrolling
  <2>5. CASE phase' = "database" /\ UNCHANGED <<page, shown, top, due>>
    BY <1>1, <2>5 DEF Behind, Scrolling
  <2> QED
    BY <2>2, <2>4, <2>5
<1>2. CASE phase \in {"pull", "install_pull"}
  BY <1>2 DEF Answer, ServePull, Behind, Scrolling
<1> QED
  BY <1>1, <1>2

LEMMA DatabaseOrder ==
  ASSUME TypeOK, Behind, PageFromDatabase PROVE Elements(page') \cap shown = {} /\ Behind'
<1>1. PICK rest \in NewestRows(Older(rows), PageSize + 1) : Serve(rest)
  BY DEF PageFromDatabase
<1>2. Older(rows) \subseteq Item /\ Older(rows) \subseteq Older(Item) /\ PageSize + 1 \in Nat
  BY SizeAssumption DEF Older, TypeOK
<1>3. rest \in Seq(Item) /\ Elements(rest) \subseteq Older(rows) /\ NewestFirst(rest)
  BY <1>1, <1>2, NewestFacts
<1> QED
  BY <1>1, <1>2, <1>3, ServeOrder DEF PageFromDatabase, Scrolling

LEMMA RowsOrder == ASSUME TypeOK, NEW s \in NewestRows(rows, Limit) PROVE NewestFirst(s)
BY DEF NewestRows

LEMMA EmptyOrder == NewestFirst(<<>>)
BY DEF NewestFirst

LEMMA OrderStep == TypeOK /\ OrderInv /\ [Next]_vars => OrderInv'
<1> SUFFICES ASSUME TypeOK, OrderInv, [Next]_vars PROVE OrderInv'
  OBVIOUS
<1>s. CASE Start
  BY <1>s DEF Start, cache, OrderInv, StartsEmpty, Behind, Scrolling, NewestFirst
<1>1. CASE Hit
  <2>1. list \in Seq(Item) /\ Answer(list) /\ phase \in {"scroll", "pull"}
    BY <1>1 DEF Hit, TypeOK
  <2>2. UNCHANGED <<overtaken, list, snapshot>> /\ phase' # "out"
    BY <1>1, <2>1 DEF Hit, cache, Answer, ServeFrom, Serve, ServePull
  <2> QED
    BY <2>1, <2>2, AnswerOrder DEF OrderInv, StartsEmpty, NewestFirst
<1>2. CASE LoadFails
  <2>1. PICK s \in NewestRows(rows, Limit) : Answer(s)
    BY <1>2 DEF LoadFails
  <2>2. s \in Seq(Item) /\ NewestFirst(s) /\ phase \in {"scroll", "install", "pull", "install_pull"}
    BY <1>2, RowsType, RowsOrder DEF LoadFails
  <2>3. overtaken = {} => Behind'
    BY <2>1, <2>2, AnswerOrder DEF OrderInv
  <2>4. UNCHANGED <<overtaken, list>> /\ snapshot' \in {<<>>, snapshot} /\ phase' # "out"
    BY <1>2, <2>1, <2>2 DEF LoadFails, Answer, ServeFrom, Serve, ServePull
  <2> QED
    BY <2>3, <2>4, EmptyOrder DEF OrderInv, StartsEmpty, NewestFirst
<1>3. CASE Snapshot
  <2>1. NewestFirst(snapshot)'
    BY <1>3, RowsOrder DEF Snapshot, NewestFirst
  <2> QED
    BY <1>3, <2>1 DEF Snapshot, OrderInv, StartsEmpty, Behind, Scrolling, NewestFirst
<1>4. CASE Install
  <2>1. snapshot \in Seq(Item) /\ Answer(snapshot) /\ phase \in {"install", "install_pull"}
    BY <1>4 DEF Install, TypeOK
  <2>2. overtaken = {} => Behind'
    BY <2>1, AnswerOrder DEF OrderInv
  <2>3. phase' # "out"
    BY <2>1 DEF Answer, ServeFrom, Serve, ServePull
  <2> QED
    BY <1>4, <2>2, <2>3, EmptyOrder DEF Install, OrderInv, StartsEmpty, NewestFirst
<1>5. CASE PageFromDatabase
  <2>1. UNCHANGED <<overtaken, list, snapshot>> /\ phase' # "out" /\ phase = "database"
    BY <1>5 DEF PageFromDatabase, cache, Serve
  <2> QED
    BY <1>5, <2>1, DatabaseOrder DEF OrderInv, StartsEmpty, NewestFirst
<1>6. CASE Pull
  BY <1>6 DEF Pull, cache, OrderInv, StartsEmpty, Behind, Scrolling, NewestFirst
<1>7. ASSUME NEW x \in Item, Insert(x) \/ PushSkipped(x) PROVE OrderInv'
  BY <1>7 DEF Insert, PushSkipped, cache, client, OrderInv, StartsEmpty, Behind, NewestFirst
<1>n. ASSUME NEW x \in Item, PushAnew(x) PROVE OrderInv'
  <2>1. UNCHANGED <<snapshot, phase, page, shown>> /\ overtaken \subseteq overtaken'
    BY <1>n DEF PushAnew, client
  <2>2. NewestFirst(<<x>>) /\ list' = <<x>>
    BY <1>n DEF PushAnew, NewestFirst
  <2>3. overtaken' = {} => Behind'
    BY <2>1 DEF OrderInv, Behind
  <2> QED
    BY <2>1, <2>2, <2>3 DEF OrderInv, StartsEmpty, NewestFirst
<1>8. ASSUME NEW x \in Item, Push(x) PROVE OrderInv'
  <2>1. UNCHANGED <<snapshot, phase, page, shown>> /\ overtaken \subseteq overtaken'
    BY <1>8 DEF Push, client
  <2>2. ASSUME overtaken' = {} PROVE NewestFirst(list')
    <3> DEFINE new == <<x>> \o list
    <3>1. /\ list' = Keep(new, Limit) /\ NewestFirst(list)
          /\ \A y \in Elements(list) : ~ (CreatedAt[y] > CreatedAt[x])
      BY <1>8, <2>1, <2>2 DEF Push, OrderInv
    <3>2. /\ list \in Seq(Item) /\ new \in Seq(Item) /\ Len(new) = Len(list) + 1
          /\ new[1] = x /\ \A i \in 2..Len(new) : new[i] = list[i - 1] /\ i - 1 \in DOMAIN list
      BY DEF TypeOK
    <3> HIDE DEF new
    <3>3. NewestFirst(new)
      <4> SUFFICES ASSUME NEW i \in 1..Len(new), NEW j \in 1..Len(new), i < j
                   PROVE  CreatedAt[new[i]] >= CreatedAt[new[j]]
        BY <3>2 DEF NewestFirst
      <4>1. j \in 2..Len(new)
        BY <3>2
      <4>2. CASE i = 1
        <5>1. new[j] \in Elements(list) /\ new[j] \in Item
          BY <3>2, <4>1 DEF Elements
        <5> QED
          BY <3>1, <3>2, <4>2, <5>1, TimeAssumption
      <4>3. CASE i # 1
        <5>1. i \in 2..Len(new)
          BY <3>2, <4>3
        <5>2. /\ new[i] = list[i - 1] /\ i - 1 \in DOMAIN list
              /\ new[j] = list[j - 1] /\ j - 1 \in DOMAIN list /\ i - 1 < j - 1
          BY <3>2, <4>1, <5>1
        <5> QED
          BY <3>1, <5>2 DEF NewestFirst
      <4> QED
        BY <4>2, <4>3
    <3> QED
      BY <3>1, <3>2, <3>3, KeepFacts, SizeAssumption
  <2> QED
    BY <2>1, <2>2 DEF OrderInv, StartsEmpty, Behind, NewestFirst
<1>9. CASE OtherSnapshot
  <2>1. NewestFirst(snapshot') /\ UNCHANGED <<list, phase, page, shown, overtaken>>
    BY <1>9, RowsOrder DEF OtherSnapshot, client
  <2> QED
    BY <2>1 DEF OrderInv, StartsEmpty, Behind, NewestFirst
<1>10. CASE OtherInstall \/ OtherLoadFails
  <2>1. /\ snapshot' = <<>>
        /\ list' = snapshot \/ list' = list
        /\ UNCHANGED <<phase, page, shown, overtaken>>
    BY <1>10 DEF OtherInstall, OtherLoadFails, client
  <2>2. NewestFirst(snapshot')
    BY <2>1, EmptyOrder
  <2>3. overtaken = {} => NewestFirst(list')
    BY <2>1 DEF OrderInv
  <2>4. StartsEmpty' /\ (overtaken = {} => Behind')
    BY <2>1 DEF OrderInv, StartsEmpty, Behind
  <2> QED
    BY <2>1, <2>2, <2>3, <2>4 DEF OrderInv, NewestFirst
<1>11. CASE Expire
  <2>1. list' = <<>> /\ UNCHANGED <<snapshot, phase, page, shown>>
    BY <1>11 DEF Expire, client
  <2>2. overtaken' = {} => Behind'
    BY <1>11, <2>1 DEF Expire, OrderInv, Behind, Scrolling
  <2> QED
    BY <2>1, <2>2, EmptyOrder DEF OrderInv, StartsEmpty, NewestFirst
<1>12. CASE UNCHANGED vars
  BY <1>12 DEF vars, cache, client, OrderInv, StartsEmpty, Behind, NewestFirst
<1> QED
  BY <1>s, <1>1, <1>2, <1>3, <1>4, <1>5, <1>6, <1>7, <1>n, <1>8, <1>9, <1>10, <1>11, <1>12
  DEF Next, ClientStep

LEMMA NewPages ==
  TypeOK /\ OrderInv /\ [Next]_vars =>
    [page' # page /\ phase' \in {"scroll", "end"} /\ overtaken = {}
       => Elements(page') \cap shown = {}]_vars
<1> SUFFICES ASSUME TypeOK, OrderInv, Next, page' # page, phase' \in {"scroll", "end"}, overtaken = {}
             PROVE  Elements(page') \cap shown = {}
  OBVIOUS
<1>1. CASE Hit
  <2>1. list \in Seq(Item) /\ Answer(list) /\ phase \in {"scroll", "pull"}
    BY <1>1 DEF Hit, TypeOK
  <2> QED
    BY <2>1, AnswerOrder DEF OrderInv
<1>2. CASE LoadFails
  <2>1. PICK s \in NewestRows(rows, Limit) : Answer(s)
    BY <1>2 DEF LoadFails
  <2>2. s \in Seq(Item) /\ NewestFirst(s) /\ phase \in {"scroll", "install", "pull", "install_pull"}
    BY <1>2, RowsType, RowsOrder DEF LoadFails
  <2> QED
    BY <2>1, <2>2, AnswerOrder DEF OrderInv
<1>3. CASE Install
  <2>1. snapshot \in Seq(Item) /\ Answer(snapshot) /\ phase \in {"install", "install_pull"}
    BY <1>3 DEF Install, TypeOK
  <2> QED
    BY <2>1, AnswerOrder DEF OrderInv
<1>4. CASE PageFromDatabase
  BY <1>4, DatabaseOrder DEF OrderInv
<1> QED
  BY <1>1, <1>2, <1>3, <1>4
  DEF Next, ClientStep, Start, Snapshot, Pull, Insert, Push, PushAnew, PushSkipped, OtherSnapshot,
      OtherInstall, OtherLoadFails, Expire, client

(* As long as rows are pushed in order, no scrolled page repeats a row of an*)
(* earlier one, for any rows, limit and page size: not over a push, a trim, *)
(* an expiry, a rebuild, or the switch from the list to the database.       *)
THEOREM PagesDoNotRepeat == Spec => NoRepeat
<1>1. Init => OrderInv
  BY EmptyOrder DEF Init, OrderInv, StartsEmpty, Behind, Scrolling
<1> QED
  BY <1>1, InitTypes, TypeStep, OrderStep, NewPages, PTL DEF Spec, NoRepeat

-----------------------------------------------------------------------------
(* Where a list keeps a row: only newer ones are before it, or the list is  *)
(* full of newer ones.                                                      *)
Holds(s, x, n) ==
  \/ \E i \in DOMAIN s : s[i] = x /\ \A j \in 1..(i - 1) : CreatedAt[s[j]] > CreatedAt[x]
  \/ Len(s) >= n /\ \A i \in DOMAIN s : CreatedAt[s[i]] > CreatedAt[x]

(* One reader loads at a time, into a cold key, and what it installs, or    *)
(* the list that is there, holds every settled row, if no older row was     *)
(* pushed after it.                                                         *)
HoldInv ==
  /\ Loading => list = <<>>
  /\ ~ Loading => snapshot = <<>>
  /\ loading => phase \notin {"install", "install_pull"}
  /\ list # <<>> => \A x \in Untied(Settled \cup Elements(list)) \ overtaken : Holds(list, x, Limit)
  /\ Loading => \A x \in Untied(Settled) : Holds(snapshot, x, Limit)

(* What a scroll may not miss: the client has it, or will still ask for it. *)
Needed == Untied(due) \ overtaken

Ahead(x) ==
  \/ x \in shown
  \/ phase # "end" /\ (page # <<>> => CreatedAt[x] < CreatedAt[page[Len(page)]])

SkipInv ==
  phase \in Scrolling \cup {"end"} =>
    due \ overtaken \subseteq Settled /\ \A x \in Needed : Ahead(x)

LEMMA RowsHold ==
  ASSUME NEW S, S \subseteq Item, NEW n \in Nat, NEW s \in NewestRows(S, n),
         NEW x \in S, x \in Untied(S)
  PROVE  Holds(s, x, n)
<1>1. /\ s \in Seq(Item) /\ Distinct(s) /\ NewestFirst(s)
      /\ Len(s) < n => Elements(s) = S
      /\ x \notin Elements(s) => \A i \in DOMAIN s : CreatedAt[x] <= CreatedAt[s[i]]
  BY NewestFacts DEF NewestRows
<1>2. ASSUME NEW y \in Item, y # x, CreatedAt[y] >= CreatedAt[x]
      PROVE  CreatedAt[y] > CreatedAt[x]
  <2>1. x \in Item /\ CreatedAt[x] # CreatedAt[y]
    BY <1>2 DEF Untied
  <2> QED
    BY <1>2, <2>1, TimeAssumption
<1>3. CASE x \in Elements(s)
  <2>1. PICK i \in DOMAIN s : s[i] = x
    BY <1>3 DEF Elements
  <2>2. ASSUME NEW j \in 1..(i - 1) PROVE CreatedAt[s[j]] > CreatedAt[x]
    <3>1. j \in DOMAIN s /\ j < i /\ s[j] \in Item
      BY <1>1, <2>1
    <3>2. s[j] # x /\ CreatedAt[s[j]] >= CreatedAt[x]
      BY <1>1, <2>1, <3>1 DEF Distinct, NewestFirst
    <3> QED
      BY <1>2, <3>1, <3>2
  <2> QED
    BY <2>1, <2>2 DEF Holds
<1>4. CASE x \notin Elements(s)
  <2>1. Len(s) >= n
    BY <1>1, <1>4
  <2>2. ASSUME NEW i \in DOMAIN s PROVE CreatedAt[s[i]] > CreatedAt[x]
    <3>1. s[i] \in Item /\ s[i] # x
      BY <1>1, <1>4 DEF Elements
    <3>2. CreatedAt[s[i]] >= CreatedAt[x]
      BY <1>1, <1>4, <3>1, TimeAssumption
    <3> QED
      BY <1>2, <3>1, <3>2
  <2> QED
    BY <2>1, <2>2 DEF Holds
<1> QED
  BY <1>3, <1>4

LEMMA KeepAt ==
  ASSUME NEW s \in Seq(Item), NEW n \in Nat
  PROVE  \A i \in 1..Len(Keep(s, n)) : Keep(s, n)[i] = s[i] /\ i \in 1..Len(s)
BY DEF Keep

(* The page that is cut from rows that hold x has it, or leaves it ahead.   *)
LEMMA PageLeavesAhead ==
  ASSUME TypeOK, NEW rest \in Seq(Item), NEW x \in Item, Serve(rest),
         Holds(rest, x, PageSize + 1)
  PROVE  Ahead(x)'
<1>1. /\ PageSize \in Nat \ {0} /\ page' \in Seq(Item)
      /\ Len(page') = IF Len(rest) < PageSize THEN Len(rest) ELSE PageSize
      /\ \A i \in 1..Len(page') : page'[i] = rest[i] /\ i \in 1..Len(rest)
  <2>1. PageSize \in Nat /\ page' = Keep(rest, PageSize)
    BY SizeAssumption DEF Serve, Slice
  <2> QED
    BY <2>1, SizeAssumption, KeepFacts, KeepAt
<1>2. shown' = shown \cup Elements(page')
  BY DEF Serve
<1>3. ASSUME Len(rest) > PageSize, CreatedAt[rest[PageSize]] > CreatedAt[x] PROVE Ahead(x)'
  <2>1. phase' = "scroll" /\ Len(page') = PageSize /\ page'[PageSize] = rest[PageSize]
    BY <1>1, <1>3 DEF Serve, HasNextPage
  <2>2. CreatedAt[rest[PageSize]] \in Nat /\ CreatedAt[x] \in Nat
    BY <1>1, <1>3, TimeAssumption
  <2> QED
    BY <1>3, <2>1, <2>2 DEF Ahead
<1>4. ASSUME NEW i \in DOMAIN rest, rest[i] = x,
             \A j \in 1..(i - 1) : CreatedAt[rest[j]] > CreatedAt[x]
      PROVE  Ahead(x)'
  <2>1. CASE i <= PageSize
    <3>1. i \in DOMAIN page' /\ page'[i] = x
      BY <1>1, <1>4, <2>1
    <3> QED
      BY <1>2, <3>1 DEF Ahead, Elements
  <2>2. CASE i > PageSize
    <3>1. Len(rest) > PageSize /\ PageSize \in 1..(i - 1)
      BY <1>1, <1>4, <2>2
    <3> QED
      BY <1>3, <1>4, <3>1
  <2> QED
    BY <1>1, <1>4, <2>1, <2>2
<1>5. ASSUME Len(rest) >= PageSize + 1, \A i \in DOMAIN rest : CreatedAt[rest[i]] > CreatedAt[x]
      PROVE  Ahead(x)'
  <2>1. Len(rest) > PageSize /\ PageSize \in DOMAIN rest
    BY <1>1, <1>5
  <2> QED
    BY <1>3, <1>5, <2>1
<1> QED
  BY <1>4, <1>5 DEF Holds

(* The cut at the cursor keeps what the list holds of older rows.           *)
LEMMA StartingAt ==
  ASSUME NEW s \in Seq(Item), NEW S, NEW i \in DOMAIN s, s[i] \in S
  PROVE  \E f \in 1..i : StartingIn(s, S) = SubSeq(s, f, Len(s))
<1> DEFINE First(k) == s[k] \in S /\ \A j \in 1..(k - 1) : s[j] \notin S
           f == CHOOSE k \in DOMAIN s : First(k)
           I == {k \in DOMAIN s : s[k] \in S}
<1>1. PICK k \in I : \A j \in I : k <= j
  <2>1. I \subseteq Nat /\ I # {}
    OBVIOUS
  <2> QED
    BY <2>1, LeastIndex
<1>2. k \in DOMAIN s /\ First(k)
  BY <1>1
<1>3. f \in DOMAIN s /\ First(f)
  BY <1>2
<1>4. StartingIn(s, S) = SubSeq(s, f, Len(s))
  BY DEF StartingIn, Elements
<1> HIDE DEF f
<1>5. f \in 1..i
  BY <1>3
<1> QED
  BY <1>4, <1>5

LEMMA StartingWithin ==
  ASSUME NEW s \in Seq(Item), NEW S
  PROVE  Elements(StartingIn(s, S)) \subseteq Elements(s)
<1>1. CASE Elements(s) \cap S = {}
  BY <1>1 DEF StartingIn, Elements
<1>2. CASE Elements(s) \cap S # {}
  <2>1. PICK i \in DOMAIN s : s[i] \in S
    BY <1>2 DEF Elements
  <2>2. PICK f \in 1..i : StartingIn(s, S) = SubSeq(s, f, Len(s))
    BY <2>1, StartingAt
  <2> DEFINE rest == SubSeq(s, f, Len(s))
  <2>3. f \in 1..(Len(s) + 1) /\ Len(s) \in 0..Len(s)
    BY <2>1, <2>2
  <2>4. \A k \in 1..Len(rest) : rest[k] = s[f + k - 1] /\ f + k - 1 \in f..Len(s)
    BY <2>3, SubFacts, Zenon
  <2>5. rest \in Seq(Item)
    BY <2>3, SubFacts, Zenon
  <2> HIDE DEF rest
  <2>6. ASSUME NEW k \in 1..Len(rest) PROVE rest[k] \in Elements(s)
    <3>1. f + k - 1 \in DOMAIN s
      BY <2>2, <2>4
    <3> QED
      BY <2>4, <3>1 DEF Elements
  <2>7. Elements(rest) \subseteq Elements(s)
    BY <2>5, <2>6 DEF Elements
  <2> QED
    BY <2>2, <2>7 DEF rest
<1> QED
  BY <1>1, <1>2

LEMMA AnswerLeavesAhead ==
  ASSUME TypeOK, NEW s \in Seq(Item), NEW x \in Item, Holds(s, x, Limit), Ahead(x),
         phase \in {"scroll", "install"}, Answer(s)
  PROVE  Ahead(x)'
<1> DEFINE rest == StartingIn(s, Older(Item))
<1>0. rest \in Seq(Item)
  BY StartingFacts
<1>1. \/ ListSuffices(s, rest) /\ Serve(rest)
      \/ phase' = "database" /\ UNCHANGED <<page, shown, top, due>>
  BY DEF Answer, ServeFrom
<1>2. CASE x \in shown
  BY <1>1, <1>2 DEF Serve, Ahead
<1>3. CASE phase' = "database" /\ UNCHANGED <<page, shown, top, due>>
  BY <1>3 DEF Ahead
<1>4. CASE x \notin shown /\ ListSuffices(s, rest) /\ Serve(rest)
  <2>1. x \in Older(Item)
    BY <1>4 DEF Ahead, Older
  <2>2. ASSUME NEW i \in DOMAIN s, s[i] = x,
               \A j \in 1..(i - 1) : CreatedAt[s[j]] > CreatedAt[x]
        PROVE  Holds(rest, x, PageSize + 1)
    <3>1. PICK f \in 1..i : rest = SubSeq(s, f, Len(s))
      BY <2>1, <2>2, StartingAt
    <3>2. f \in 1..(Len(s) + 1) /\ Len(s) \in 0..Len(s) /\ f \in Nat /\ i \in Nat /\ i <= Len(s)
      BY <2>2, <3>1
    <3> DEFINE part == SubSeq(s, f, Len(s))
    <3>3. /\ \A k \in 1..Len(part) : part[k] = s[f + k - 1] /\ f + k - 1 \in f..Len(s)
          /\ Len(part) = IF f <= Len(s) THEN Len(s) - f + 1 ELSE 0
      BY <3>2, SubFacts, Zenon
    <3>4. rest = part
      BY <3>1
    <3> HIDE DEF part, rest
    <3>5. /\ \A k \in 1..Len(rest) : rest[k] = s[f + k - 1]
          /\ Len(rest) = IF f <= Len(s) THEN Len(s) - f + 1 ELSE 0
      BY <3>3, <3>4
    <3>6. i - f + 1 \in 1..Len(rest) /\ rest[i - f + 1] = x
      BY <2>2, <3>1, <3>2, <3>5
    <3>7. \A j \in 1..(i - f + 1 - 1) : CreatedAt[rest[j]] > CreatedAt[x]
      <4> SUFFICES ASSUME NEW j \in 1..(i - f + 1 - 1) PROVE CreatedAt[rest[j]] > CreatedAt[x]
        OBVIOUS
      <4>1. f + j - 1 \in 1..(i - 1) /\ j \in 1..Len(rest)
        BY <3>1, <3>2, <3>5
      <4> QED
        BY <2>2, <3>5, <4>1
    <3> QED
      BY <1>0, <3>6, <3>7 DEF Holds
  <2>3. ASSUME Len(s) >= Limit, \A i \in DOMAIN s : CreatedAt[s[i]] > CreatedAt[x]
        PROVE  Holds(rest, x, PageSize + 1)
    <3>1. Len(rest) > PageSize
      BY <1>4, <2>3, SizeAssumption DEF ListSuffices, HasNextPage
    <3>2. Elements(rest) \subseteq Elements(s)
      BY StartingWithin
    <3> HIDE DEF rest
    <3>3. \A i \in DOMAIN rest : CreatedAt[rest[i]] > CreatedAt[x]
      BY <2>3, <3>2 DEF Elements
    <3> QED
      BY <1>0, <3>1, <3>3, SizeAssumption DEF Holds
  <2>4. Holds(rest, x, PageSize + 1)
    BY <2>2, <2>3 DEF Holds
  <2> HIDE DEF rest
  <2> QED
    BY <1>0, <1>4, <2>4, PageLeavesAhead
<1> QED
  BY <1>1, <1>2, <1>3, <1>4

LEMMA SortedHolds ==
  ASSUME NEW s \in Seq(Item), NewestFirst(s), NEW x \in Elements(s), x \in Untied(Item),
         NEW n \in Nat
  PROVE  Holds(s, x, n)
<1> DEFINE I == {i \in DOMAIN s : s[i] = x}
<1>1. I \subseteq Nat /\ I # {}
  BY DEF Elements
<1>2. PICK i \in I : \A j \in I : i <= j
  BY <1>1, LeastIndex
<1>3. ASSUME NEW j \in 1..(i - 1) PROVE CreatedAt[s[j]] > CreatedAt[x]
  <2>1. j \in DOMAIN s /\ j < i /\ i \in DOMAIN s /\ s[i] = x /\ s[j] \in Item
    BY <1>2
  <2>2. s[j] # x
    BY <1>2, <2>1
  <2>3. CreatedAt[s[j]] # CreatedAt[x] /\ CreatedAt[s[j]] >= CreatedAt[x]
    BY <2>1, <2>2 DEF Untied, NewestFirst
  <2> QED
    BY <2>1, <2>3, TimeAssumption DEF Untied
<1> QED
  BY <1>2, <1>3 DEF Holds

(* A push in order moves what the list holds, or cuts it off a full list.   *)
LEMMA PushHolds ==
  ASSUME TypeOK, NEW y \in Item, Push(y), NEW x \in Item, x \in Untied(Item), x \notin overtaken',
         x = y \/ (x \in Settled \cup Elements(list) /\ Holds(list, x, Limit))
  PROVE  Holds(list', x, Limit)
<1> DEFINE new == <<y>> \o list
<1>2. x # y => CreatedAt[y] > CreatedAt[x]
  <2>1. x # y => ~ (CreatedAt[x] > CreatedAt[y])
    BY DEF Push
  <2>2. x # y => CreatedAt[x] # CreatedAt[y]
    BY DEF Untied
  <2> QED
    BY <2>1, <2>2, TimeAssumption
<1>3. /\ list \in Seq(Item) /\ new \in Seq(Item) /\ Len(new) = Len(list) + 1
      /\ new[1] = y /\ \A i \in 1..Len(list) : new[i + 1] = list[i]
  BY DEF TypeOK
<1>4. list' = Keep(new, Limit)
  BY DEF Push
<1> HIDE DEF new
<1>5. /\ Limit \in Nat \ {0} /\ list' \in Seq(Item)
      /\ Len(list') = IF Len(new) < Limit THEN Len(new) ELSE Limit
      /\ \A i \in 1..Len(list') : list'[i] = new[i] /\ i \in 1..Len(new)
  BY <1>3, <1>4, SizeAssumption, KeepFacts, KeepAt
<1>6. CASE x = y
  <2>1. 1 \in DOMAIN list' /\ list'[1] = x
    BY <1>3, <1>5, <1>6
  <2> QED
    BY <2>1 DEF Holds
<1>7. ASSUME x # y, NEW i \in DOMAIN list, list[i] = x,
             \A j \in 1..(i - 1) : CreatedAt[list[j]] > CreatedAt[x]
      PROVE  Holds(list', x, Limit)
  <2>1. ASSUME NEW j \in 1..i PROVE CreatedAt[new[j]] > CreatedAt[x]
    <3>1. CASE j = 1
      BY <1>2, <1>3, <1>7, <3>1
    <3>2. CASE j # 1
      <4>1. j - 1 \in 1..(i - 1) /\ j - 1 \in 1..Len(list) /\ new[(j - 1) + 1] = list[j - 1]
        BY <1>3, <1>7, <2>1, <3>2
      <4>2. (j - 1) + 1 = j
        BY <2>1
      <4> QED
        BY <1>7, <4>1, <4>2
    <3> QED
      BY <3>1, <3>2
  <2>2. CASE i + 1 <= Len(list')
    <3>1. i + 1 \in DOMAIN list' /\ list'[i + 1] = x
      BY <1>3, <1>5, <1>7, <2>2
    <3>2. ASSUME NEW j \in 1..i PROVE CreatedAt[list'[j]] > CreatedAt[x]
      <4>1. j \in 1..Len(list')
        BY <1>3, <1>5, <1>7, <2>2
      <4>2. list'[j] = new[j]
        BY <1>5, <4>1
      <4>3. CreatedAt[new[j]] > CreatedAt[x]
        BY <2>1
      <4> QED
        BY <4>2, <4>3
    <3> DEFINE k == i + 1
    <3>3. k \in DOMAIN list' /\ list'[k] = x
      BY <3>1
    <3>4. k - 1 = i
      <4>1. i \in Nat
        BY <1>3, <1>7
      <4> QED
        BY <4>1
    <3> HIDE DEF k
    <3>5. \A j \in 1..(k - 1) : CreatedAt[list'[j]] > CreatedAt[x]
      BY <3>2, <3>4
    <3> QED
      BY <3>3, <3>5 DEF Holds
  <2>3. CASE ~ (i + 1 <= Len(list'))
    <3>1. Len(list') >= Limit /\ Len(list') <= i
      BY <1>3, <1>5, <1>7, <2>3
    <3>2. \A j \in DOMAIN list' : CreatedAt[list'[j]] > CreatedAt[x]
      <4> SUFFICES ASSUME NEW j \in DOMAIN list' PROVE CreatedAt[list'[j]] > CreatedAt[x]
        OBVIOUS
      <4>1. j \in 1..i /\ j \in 1..Len(list')
        BY <1>5, <1>7, <3>1
      <4> QED
        BY <1>5, <2>1, <4>1
    <3> QED
      BY <3>1, <3>2 DEF Holds
  <2> QED
    BY <2>2, <2>3
<1>8. ASSUME x # y, Len(list) >= Limit, \A i \in DOMAIN list : CreatedAt[list[i]] > CreatedAt[x]
      PROVE  Holds(list', x, Limit)
  <2>1. Len(list') >= Limit
    BY <1>3, <1>5, <1>8
  <2>2. ASSUME NEW j \in DOMAIN list' PROVE CreatedAt[list'[j]] > CreatedAt[x]
    <3>1. j \in 1..Len(new) /\ list'[j] = new[j]
      BY <1>5
    <3>2. CASE j = 1
      BY <1>2, <1>3, <1>8, <3>1, <3>2
    <3>3. CASE j # 1
      <4>1. j - 1 \in 1..Len(list) /\ new[(j - 1) + 1] = list[j - 1] /\ (j - 1) + 1 = j
        BY <1>3, <3>1, <3>3
      <4> QED
        BY <1>3, <1>8, <3>1, <4>1
    <3> QED
      BY <3>2, <3>3
  <2> QED
    BY <2>1, <2>2 DEF Holds
<1> QED
  BY <1>6, <1>7, <1>8 DEF Holds

LEMMA CacheHolds ==
  ASSUME TypeOK, NEW s \in NewestRows(rows, Limit), NEW x \in Untied(Settled)
  PROVE  Holds(s, x, Limit)
<1>1. rows \subseteq Item /\ Limit \in Nat /\ x \in rows /\ x \in Untied(rows)
  BY SizeAssumption, SettledType DEF TypeOK, Untied
<1> QED
  BY <1>1, RowsHold

LEMMA AnswerEnds ==
  ASSUME NEW s, Answer(s), phase \in {"scroll", "install", "pull", "install_pull"}
  PROVE  phase' \in {"scroll", "database", "end", "pulled"} /\ due' = due
BY DEF Answer, ServeFrom, Serve, ServePull

(* Steps that neither touch the cache nor settle a row.                     *)
LEMMA HoldQuiet ==
  ASSUME HoldInv, UNCHANGED <<rows, writer, unpushed, overtaken, cache>>,
         phase \notin {"install", "install_pull"}, phase' \notin {"install", "install_pull"}
  PROVE  HoldInv'
BY DEF HoldInv, Loading, Settled, cache, Holds, Elements, Untied

LEMMA HoldInit == Init => HoldInv
BY DEF Init, HoldInv, Loading

(* What an end of a load leaves: the key cold, or the snapshot in it.       *)
LEMMA LoadEnds ==
  ASSUME TypeOK, OrderInv, HoldInv, Loading, UNCHANGED <<rows, writer, overtaken>>, ~ Loading',
         snapshot' = <<>>, (list' = snapshot /\ unpushed' = unpushed) \/ list' = list
  PROVE  HoldInv'
<1>1. CASE list' = list
  BY <1>1 DEF HoldInv, Loading
<1>2. CASE list' = snapshot /\ unpushed' = unpushed
  <2>1. Settled' = Settled
    BY <1>2 DEF Settled
  <2>2. ASSUME NEW x \in Untied(Settled \cup Elements(snapshot)) PROVE Holds(snapshot, x, Limit)
    <3>1. snapshot \in Seq(Item) /\ NewestFirst(snapshot) /\ Limit \in Nat
      BY SizeAssumption DEF OrderInv, TypeOK
    <3>2. x \in Item /\ x \in Untied(Item)
      BY <3>1, SettledType DEF Untied, Elements
    <3>3. CASE x \in Settled
      BY <3>2, <3>3 DEF HoldInv, Untied
    <3>4. CASE x \in Elements(snapshot)
      BY <3>1, <3>2, <3>4, SortedHolds
    <3> QED
      BY <2>2, <3>3, <3>4 DEF Untied
  <2> QED
    BY <1>2, <2>1, <2>2 DEF HoldInv, Loading, Untied, Elements, Holds
<1> QED
  BY <1>1, <1>2

LEMMA LoadStarts ==
  ASSUME TypeOK, UNCHANGED <<rows, writer, unpushed, list>>, list = <<>>, Loading',
         snapshot' \in NewestRows(rows, Limit), loading' => phase' \notin {"install", "install_pull"}
  PROVE  HoldInv'
<1>1. Settled' = Settled
  BY DEF Settled
<1>2. \A x \in Untied(Settled) : Holds(snapshot', x, Limit)
  BY CacheHolds
<1> QED
  BY <1>1, <1>2 DEF HoldInv, Loading, Untied, Holds

LEMMA HoldStep == TypeOK /\ OrderInv /\ HoldInv /\ [Next]_vars => HoldInv'
<1> SUFFICES ASSUME TypeOK, OrderInv, HoldInv, [Next]_vars PROVE HoldInv'
  OBVIOUS
<1>0. Limit \in Nat /\ list \in Seq(Item) /\ snapshot \in Seq(Item)
  BY SizeAssumption DEF TypeOK
<1>1. CASE Start \/ Pull
  BY <1>1, HoldQuiet DEF Start, Pull
<1>2. CASE Hit
  <2>1. phase' \in {"scroll", "database", "end", "pulled"}
    BY <1>2, AnswerEnds DEF Hit
  <2> QED
    BY <1>2, <2>1, HoldQuiet DEF Hit
<1>3. CASE LoadFails
  <2>1. phase' \in {"scroll", "database", "end", "pulled"}
    BY <1>3, AnswerEnds DEF LoadFails
  <2>2. CASE phase \in {"install", "install_pull"}
    <3>1. Loading /\ ~ Loading'
      BY <1>3, <2>1, <2>2 DEF LoadFails, HoldInv, Loading
    <3> QED
      BY <1>3, <2>2, <3>1, LoadEnds DEF LoadFails
  <2>3. CASE phase \notin {"install", "install_pull"}
    BY <1>3, <2>1, <2>3, HoldQuiet DEF LoadFails, cache
  <2> QED
    BY <2>2, <2>3
<1>4. CASE Snapshot
  BY <1>4, LoadStarts DEF Snapshot, Loading
<1>5. CASE Install
  <2>1. phase' \in {"scroll", "database", "end", "pulled"}
    BY <1>5, AnswerEnds DEF Install
  <2>2. Loading /\ ~ Loading'
    BY <1>5, <2>1 DEF Install, HoldInv, Loading
  <2> QED
    BY <1>5, <2>2, LoadEnds DEF Install
<1>6. CASE PageFromDatabase
  BY <1>6, HoldQuiet DEF PageFromDatabase, Serve
<1>7. ASSUME NEW y \in Item, Insert(y) PROVE HoldInv'
  <2>1. Settled' \subseteq Settled
    BY <1>7 DEF Insert, Settled, TypeOK
  <2> QED
    BY <1>7, <2>1 DEF Insert, cache, client, HoldInv, Loading, Untied, Elements, Holds
<1>8. ASSUME NEW y \in Item, Push(y) PROVE HoldInv'
  <2>1. UNCHANGED <<loading, phase, snapshot>> /\ overtaken \subseteq overtaken' /\ list # <<>>
    BY <1>8 DEF Push, client
  <2>2. Settled' \subseteq Settled \cup {y}
    BY <1>8 DEF Push, Settled, TypeOK
  <2>3. Elements(list') \subseteq Elements(list) \cup {y}
    <3>1. <<y>> \o list \in Seq(Item) /\ Elements(<<y>> \o list) \subseteq Elements(list) \cup {y}
      BY <1>0 DEF Elements
    <3> QED
      BY <1>0, <1>8, <3>1, KeepFacts DEF Push
  <2>4. ASSUME NEW x \in Untied(Settled \cup Elements(list) \cup {y}) \ overtaken'
        PROVE  Holds(list', x, Limit)
    <3>1. x \in Item /\ x \in Untied(Item)
      BY <1>0, SettledType DEF Untied, Elements
    <3>2. x # y => x \in Untied(Settled \cup Elements(list)) \ overtaken
      BY <2>1 DEF Untied
    <3>3. x = y \/ (x \in Settled \cup Elements(list) /\ Holds(list, x, Limit))
      BY <2>1, <3>2 DEF HoldInv, Untied
    <3> QED
      BY <1>8, <3>1, <3>3, PushHolds
  <2>5. \A x \in Untied(Settled \cup Elements(list))' \ overtaken' : Holds(list', x, Limit)
    BY <2>2, <2>3, <2>4 DEF Untied
  <2>6. ~ Loading /\ ~ Loading'
    BY <2>1 DEF HoldInv, Loading
  <2> QED
    BY <2>1, <2>5, <2>6 DEF HoldInv, Loading, Holds
<1>n. ASSUME NEW y \in Item, PushAnew(y) PROVE HoldInv'
  <2>1. UNCHANGED <<loading, phase, snapshot>> /\ list' = <<y>> /\ ~ Loading
    BY <1>n DEF PushAnew, client
  <2>2. Settled' \cup Elements(list') \subseteq {y}
    BY <1>n, <2>1 DEF PushAnew, Settled, Elements, TypeOK
  <2>3. Holds(list', y, Limit)
    <3>1. 1 \in DOMAIN list' /\ list'[1] = y /\ 1..(1 - 1) = {}
      BY <2>1
    <3> QED
      BY <3>1 DEF Holds
  <2>4. \A x \in Untied(Settled \cup Elements(list))' : Holds(list', x, Limit)
    BY <2>2, <2>3 DEF Untied
  <2>5. ~ Loading'
    BY <2>1 DEF Loading
  <2> QED
    BY <2>1, <2>4, <2>5 DEF HoldInv, Loading, Holds
<1>9. ASSUME NEW y \in Item, PushSkipped(y) PROVE HoldInv'
  <2>1. UNCHANGED <<list, loading, phase, snapshot, overtaken>>
    BY <1>9 DEF PushSkipped, cache, client
  <2>2. Settled' \subseteq Settled \cup {y}
    BY <1>9 DEF PushSkipped, Settled, TypeOK
  <2>3. y \in Settled' /\ (list # <<>> \/ Loading) => y \in Elements(list) \cup Elements(snapshot)
    BY <1>9 DEF PushSkipped, Settled
  <2>4. ASSUME list # <<>> PROVE Settled' \subseteq Settled \cup Elements(list)
    <3>1. Elements(snapshot) = {}
      BY <2>4 DEF HoldInv, Elements
    <3> QED
      BY <2>2, <2>3, <2>4, <3>1
  <2>5. ASSUME Loading, NEW x \in Untied(Settled') PROVE Holds(snapshot, x, Limit)
    <3>1. CASE x \in Settled
      BY <2>5, <3>1 DEF HoldInv, Untied
    <3>2. CASE x = y
      <4>1. Elements(list) = {} /\ x \in Settled'
        BY <2>5 DEF HoldInv, Elements, Untied
      <4>2. x \in Elements(snapshot) /\ x \in Untied(Item) /\ NewestFirst(snapshot)
        BY <2>3, <2>5, <3>2, <4>1 DEF Untied, OrderInv
      <4> QED
        BY <1>0, <4>2, SortedHolds
    <3> QED
      BY <2>2, <2>5, <3>1, <3>2 DEF Untied
  <2> QED
    BY <2>1, <2>4, <2>5 DEF HoldInv, Loading, Untied, Elements, Holds
<1>10. CASE OtherSnapshot
  BY <1>10, LoadStarts DEF OtherSnapshot, client, Loading
<1>11. CASE OtherInstall \/ OtherLoadFails
  <2>1. Loading /\ ~ Loading'
    BY <1>11 DEF OtherInstall, OtherLoadFails, client, HoldInv, Loading
  <2> QED
    BY <1>11, <2>1, LoadEnds DEF OtherInstall, OtherLoadFails
<1>12. CASE Expire
  <2>1. ~ Loading /\ ~ Loading' /\ list' = <<>> /\ UNCHANGED <<snapshot, loading, phase>>
    BY <1>12 DEF Expire, client, HoldInv, Loading
  <2> QED
    BY <2>1 DEF HoldInv, Loading
<1>13. CASE UNCHANGED vars
  BY <1>13 DEF vars, cache, client, HoldInv, Loading, Settled, Untied, Elements, Holds
<1> QED
  BY <1>1, <1>2, <1>3, <1>4, <1>5, <1>6, <1>7, <1>8, <1>n, <1>9, <1>10, <1>11, <1>12, <1>13
  DEF Next, ClientStep

(* Once settled, a row stays so, unless a list is made anew without it.     *)
LEMMA SettledStays == TypeOK /\ [Next]_vars => Settled \ overtaken' \subseteq Settled'
<1> SUFFICES ASSUME TypeOK, [Next]_vars PROVE Settled \ overtaken' \subseteq Settled'
  OBVIOUS
<1>1. ASSUME NEW y \in Item, Insert(y) \/ Push(y) \/ PushSkipped(y)
      PROVE  Settled \subseteq Settled'
  BY <1>1 DEF Insert, Push, Pushing, PushSkipped, Settled, TypeOK
<1>n. ASSUME NEW y \in Item, PushAnew(y) PROVE Settled \subseteq overtaken'
  BY <1>n DEF PushAnew, Settled
<1>2. CASE Hit \/ Snapshot \/ Install \/ PageFromDatabase \/ Start \/ Pull \/ UNCHANGED vars
  BY <1>2 DEF Hit, Snapshot, Install, PageFromDatabase, Start, Pull, vars, Settled
<1>3. CASE LoadFails \/ OtherSnapshot \/ OtherInstall \/ OtherLoadFails \/ Expire
  BY <1>3 DEF LoadFails, OtherSnapshot, OtherInstall, OtherLoadFails, Expire, Settled, TypeOK
<1> QED
  BY <1>1, <1>n, <1>2, <1>3 DEF Next, ClientStep

LEMMA SkipStep == TypeOK /\ OrderInv /\ HoldInv /\ SkipInv /\ [Next]_vars => SkipInv'
<1> SUFFICES ASSUME TypeOK, OrderInv, HoldInv, SkipInv, [Next]_vars,
                    phase' \in Scrolling \cup {"end"}
             PROVE  (due \ overtaken)' \subseteq Settled' /\ \A x \in Needed' : Ahead(x)'
  BY DEF SkipInv
<1>s. CASE Start
  <2>1. due' = Settled /\ UNCHANGED <<page, shown>> /\ phase' = "scroll" /\ page = <<>>
    BY <1>s DEF Start, OrderInv, StartsEmpty
  <2> QED
    BY <1>s, <2>1, SettledStays DEF Start, Ahead
<1> SUFFICES ASSUME ~ Start PROVE (due \ overtaken)' \subseteq Settled' /\ \A x \in Needed' : Ahead(x)'
  BY <1>s
<1>p. phase \in Scrolling \cup {"end"} /\ due' = due
  <2>1. CASE Hit \/ LoadFails \/ Install
    <3>1. PICK s : Answer(s)
      BY <2>1 DEF Hit, LoadFails, Install
    <3>2. phase \in {"scroll", "install", "pull", "install_pull"}
      BY <2>1 DEF Hit, LoadFails, Install
    <3> QED
      BY <3>1, <3>2, AnswerEnds DEF Answer, ServePull, Scrolling
  <2>2. CASE Snapshot \/ PageFromDatabase \/ Pull
    BY <2>2 DEF Snapshot, PageFromDatabase, Pull, Serve, Scrolling
  <2>3. CASE \/ \E y \in Item : Insert(y) \/ Push(y) \/ PushAnew(y) \/ PushSkipped(y)
             \/ OtherSnapshot \/ OtherInstall \/ OtherLoadFails \/ Expire \/ UNCHANGED vars
    BY <2>3 DEF Insert, Push, PushAnew, PushSkipped, OtherSnapshot, OtherInstall, OtherLoadFails, Expire,
               vars, client
  <2> QED
    BY <2>1, <2>2, <2>3 DEF Next, ClientStep
<1>o. overtaken \subseteq overtaken'
  <2>1. CASE Expire
    BY <1>p, <2>1 DEF Expire, Scrolling
  <2>2. CASE ~ Expire
    BY <2>2 DEF Next, ClientStep, Hit, LoadFails, Snapshot, Install, PageFromDatabase, Pull,
       Insert, Push, PushAnew, PushSkipped, OtherSnapshot, OtherInstall, OtherLoadFails, vars
  <2> QED
    BY <2>1, <2>2
<1>0. /\ due \ overtaken \subseteq Settled /\ (due \ overtaken)' \subseteq Settled'
      /\ Settled \subseteq Item
      /\ \A x \in Needed : x \in Item /\ x \in Untied(Settled) /\ x \notin overtaken /\ Ahead(x)
  BY <1>p, <1>o, SettledType, SettledStays DEF SkipInv, Needed, Untied
<1>1. CASE Hit
  <2>1. list \in Seq(Item) /\ Answer(list) /\ phase = "scroll" /\ list # <<>>
    BY <1>1, <1>p DEF Hit, TypeOK, Scrolling
  <2>2. Needed' = Needed
    BY <1>1, <1>p DEF Hit, Needed, Untied
  <2>3. \A x \in Needed : Holds(list, x, Limit)
    BY <1>0, <2>1 DEF HoldInv, Untied
  <2> QED
    BY <1>0, <2>1, <2>2, <2>3, AnswerLeavesAhead
<1>2. CASE LoadFails
  <2>1. PICK s \in NewestRows(rows, Limit) : Answer(s)
    BY <1>2 DEF LoadFails
  <2>2. s \in Seq(Item) /\ phase \in {"scroll", "install"}
    BY <1>2, <1>p, RowsType DEF LoadFails, Scrolling
  <2>3. Needed' = Needed
    BY <1>2, <1>p DEF LoadFails, Needed, Untied
  <2> QED
    BY <1>0, <2>1, <2>2, <2>3, CacheHolds, AnswerLeavesAhead
<1>3. CASE Snapshot
  <2>1. UNCHANGED <<page, shown, overtaken>> /\ phase # "end" /\ phase' # "end"
    BY <1>3 DEF Snapshot
  <2> QED
    BY <1>0, <1>p, <2>1 DEF Needed, Untied, Ahead
<1>4. CASE Install
  <2>1. snapshot \in Seq(Item) /\ Answer(snapshot) /\ phase = "install"
    BY <1>4, <1>p DEF Install, TypeOK, Scrolling
  <2>2. Needed' = Needed
    BY <1>4, <1>p DEF Install, Needed, Untied
  <2>3. \A x \in Needed : Holds(snapshot, x, Limit)
    BY <1>0, <2>1 DEF HoldInv, Loading
  <2> QED
    BY <1>0, <2>1, <2>2, <2>3, AnswerLeavesAhead
<1>5. CASE PageFromDatabase
  <2>1. PICK rest \in NewestRows(Older(rows), PageSize + 1) : Serve(rest)
    BY <1>5 DEF PageFromDatabase
  <2>2. Older(rows) \subseteq Item /\ PageSize + 1 \in Nat /\ phase = "database"
    BY <1>5, SizeAssumption DEF PageFromDatabase, Older, TypeOK
  <2>3. rest \in Seq(Item)
    BY <2>1, <2>2, NewestFacts
  <2>4. Needed' = Needed
    BY <1>5, <1>p DEF PageFromDatabase, Needed, Untied
  <2>5. ASSUME NEW x \in Needed PROVE Ahead(x)'
    <3>1. CASE x \in shown
      BY <2>1, <3>1 DEF Serve, Ahead
    <3>2. CASE x \notin shown
      <4>1. x \in Older(rows) /\ x \in Untied(Older(rows))
        BY <1>0, <3>2, SettledType DEF Ahead, Older, Untied
      <4>2. Holds(rest, x, PageSize + 1)
        BY <2>1, <2>2, <4>1, RowsHold
      <4> QED
        BY <1>0, <2>1, <2>3, <4>2, PageLeavesAhead
    <3> QED
      BY <3>1, <3>2
  <2> QED
    BY <1>0, <2>4, <2>5
<1>6. CASE Pull
  BY <1>6 DEF Pull, Scrolling
<1>7. CASE \/ \E y \in Item : Insert(y) \/ Push(y) \/ PushAnew(y) \/ PushSkipped(y)
           \/ OtherSnapshot \/ OtherInstall \/ OtherLoadFails \/ UNCHANGED vars
  <2>1. UNCHANGED <<phase, page, shown>> /\ overtaken \subseteq overtaken'
    BY <1>7 DEF Insert, Push, PushAnew, PushSkipped, OtherSnapshot, OtherInstall, OtherLoadFails, vars, client
  <2> QED
    BY <1>0, <1>p, <2>1 DEF Needed, Untied, Ahead
<1>8. CASE Expire
  <2>1. UNCHANGED <<phase, page, shown>> /\ overtaken' = overtaken
    BY <1>8, <1>p DEF Expire, client, Scrolling
  <2> QED
    BY <1>0, <1>p, <2>1 DEF Needed, Untied, Ahead
<1> QED
  BY <1>1, <1>2, <1>3, <1>4, <1>5, <1>6, <1>7, <1>8 DEF Next, ClientStep

(* A client that has scrolled to the end has got every row that was settled *)
(* when it began, for any rows, limit and page size, whatever pushes were   *)
(* skipped, lost or trimmed, but those that an older row was pushed after,  *)
(* those that a list made anew lacks, and those that share a created_at.    *)
THEOREM ScrollSkipsNothing == Spec => []NothingSkipped
<1>1. Init => OrderInv /\ SkipInv
  BY EmptyOrder DEF Init, OrderInv, StartsEmpty, Behind, SkipInv, Scrolling
<1>2. SkipInv => NothingSkipped
  BY DEF SkipInv, Ahead, Needed, NothingSkipped
<1> QED
  BY <1>1, <1>2, InitTypes, HoldInit, TypeStep, OrderStep, HoldStep, SkipStep, PTL DEF Spec

-----------------------------------------------------------------------------
(* Where an ordered list keeps a settled row: in it, or cut off a full list *)
(* of rows as new.                                                          *)
Keeps(s, x) ==
  \/ x \in Elements(s)
  \/ Len(s) = Limit /\ \A i \in DOMAIN s : CreatedAt[s[i]] >= CreatedAt[x]

PullInv ==
  /\ Loading => \A x \in Settled : Keeps(snapshot, x)
  /\ overtaken = {} /\ list # <<>> => \A x \in Settled : Keeps(list, x)
  /\ phase \in {"pull", "install_pull"} => due \ overtaken \subseteq Newer(Settled)
  /\ NothingMissedByPull

LEMMA RowsKeep ==
  ASSUME TypeOK, NEW s \in NewestRows(rows, Limit), NEW x \in rows PROVE Keeps(s, x)
<1>1. rows \subseteq Item /\ Limit \in Nat
  BY SizeAssumption DEF TypeOK
<1>2. s \in Seq(Item) /\ Len(s) <= Limit
  BY <1>1, NewestFacts
<1>3. CASE x \in Elements(s)
  BY <1>3 DEF Keeps
<1>4. CASE x \notin Elements(s)
  <2>1. Len(s) = Limit /\ \A i \in DOMAIN s : CreatedAt[x] <= CreatedAt[s[i]]
    BY <1>1, <1>2, <1>4 DEF NewestRows
  <2>2. \A i \in DOMAIN s : CreatedAt[s[i]] \in Nat /\ CreatedAt[x] \in Nat
    BY <1>1, <1>2, TimeAssumption
  <2> QED
    BY <2>1, <2>2 DEF Keeps
<1> QED
  BY <1>3, <1>4

(* A push in order cuts off only what is no newer than all that stays.      *)
LEMMA PushKeeps ==
  ASSUME TypeOK, NEW y \in Item, Push(y), list # <<>>, overtaken' = {}, NewestFirst(list),
         NewestFirst(list'), NEW x \in Item, x = y \/ Keeps(list, x)
  PROVE  Keeps(list', x)
<1> DEFINE new == <<y>> \o list
<1>1. \A z \in Elements(list) : ~ (CreatedAt[z] > CreatedAt[y])
  BY DEF Push
<1>2. /\ list \in Seq(Item) /\ new \in Seq(Item) /\ Len(new) = Len(list) + 1
      /\ new[1] = y /\ \A i \in 1..Len(list) : new[i + 1] = list[i]
  BY DEF TypeOK
<1>3. list' = Keep(new, Limit)
  BY DEF Push
<1> HIDE DEF new
<1>4. /\ Limit \in Nat \ {0} /\ list' \in Seq(Item)
      /\ Len(list') = IF Len(new) < Limit THEN Len(new) ELSE Limit
      /\ \A i \in 1..Len(list') : list'[i] = new[i] /\ i \in 1..Len(new)
  BY <1>2, <1>3, SizeAssumption, KeepFacts, KeepAt
<1>5. CASE x = y
  <2>1. 1 \in DOMAIN list' /\ list'[1] = x
    BY <1>2, <1>4, <1>5
  <2> QED
    BY <2>1 DEF Keeps, Elements
<1>6. CASE x \in Elements(list)
  <2>1. PICK k \in DOMAIN list : list[k] = x
    BY <1>6 DEF Elements
  <2>2. CASE k + 1 <= Len(list')
    <3>1. k + 1 \in DOMAIN list' /\ list'[k + 1] = x
      BY <1>2, <1>4, <2>1, <2>2
    <3> QED
      BY <3>1 DEF Keeps, Elements
  <2>3. CASE ~ (k + 1 <= Len(list'))
    <3>1. Len(list') = Limit /\ Len(list') <= k
      BY <1>2, <1>4, <2>1, <2>3
    <3>2. ASSUME NEW j \in DOMAIN list' PROVE CreatedAt[list'[j]] >= CreatedAt[x]
      <4>1. j \in 1..Len(new) /\ j <= k /\ list'[j] = new[j] /\ k \in 1..Len(list)
        BY <1>2, <1>4, <2>1, <3>1
      <4>2. CASE j = 1
        BY <1>1, <1>2, <1>6, <4>1, <4>2, TimeAssumption
      <4>3. CASE j # 1
        <5>1. j - 1 \in DOMAIN list /\ j - 1 < k /\ new[(j - 1) + 1] = list[j - 1] /\ (j - 1) + 1 = j
          BY <1>2, <2>1, <4>1, <4>3
        <5> QED
          BY <2>1, <4>1, <5>1 DEF NewestFirst
      <4> QED
        BY <4>2, <4>3
    <3> QED
      BY <3>1, <3>2 DEF Keeps
  <2> QED
    BY <2>2, <2>3
<1>7. CASE Len(list) = Limit /\ \A i \in DOMAIN list : CreatedAt[list[i]] >= CreatedAt[x]
  <2>1. Len(list') = Limit
    BY <1>2, <1>4, <1>7
  <2>2. CreatedAt[y] >= CreatedAt[x]
    <3>1. 1 \in DOMAIN list /\ list[1] \in Elements(list) /\ list[1] \in Item
      BY <1>2 DEF Elements
    <3> QED
      BY <1>1, <1>7, <3>1, TimeAssumption
  <2>3. ASSUME NEW j \in DOMAIN list' PROVE CreatedAt[list'[j]] >= CreatedAt[x]
    <3>1. j \in 1..Len(new) /\ list'[j] = new[j]
      BY <1>4
    <3>2. CASE j = 1
      BY <1>2, <2>2, <3>1, <3>2
    <3>3. CASE j # 1
      <4>1. j - 1 \in DOMAIN list /\ new[(j - 1) + 1] = list[j - 1] /\ (j - 1) + 1 = j
        BY <1>2, <3>1, <3>3
      <4> QED
        BY <1>7, <3>1, <4>1
    <3> QED
      BY <3>2, <3>3
  <2> QED
    BY <2>1, <2>3 DEF Keeps
<1> QED
  BY <1>5, <1>6, <1>7 DEF Keeps

(* The loop over an ordered list finds every newer row that the list keeps, *)
(* or serves all of a full list.                                            *)
LEMMA PullServes ==
  ASSUME TypeOK, NEW s \in Seq(Item), NewestFirst(s), ServePull(s),
         due \subseteq Newer(rows), \A x \in due : Keeps(s, x)
  PROVE  due \subseteq shown' \/ Len(page') = Limit
<1>1. PICK n \in 0..Len(s) : /\ page' = Keep(s, n)
                             /\ \A i \in 1..n : s[i] \in Newer(Item)
                             /\ n < Len(s) => s[n + 1] \notin Newer(Item)
  BY WhileCut DEF ServePull
<1>2. /\ page' \in Seq(Item) /\ Len(page') = n
      /\ \A i \in 1..n : page'[i] = s[i]
  BY <1>1, KeepFacts, KeepAt
<1>3. due \subseteq Item /\ top \in Nat /\ \A x \in due : CreatedAt[x] > top /\ CreatedAt[x] \in Nat
  BY TimeAssumption DEF TypeOK, Newer
<1>4. ASSUME NEW x \in due, x \in Elements(s) PROVE x \in shown'
  <2>1. PICK k \in DOMAIN s : s[k] = x
    BY <1>4 DEF Elements
  <2>2. k <= n
    <3> SUFFICES ASSUME n < k PROVE FALSE
      BY <2>1
    <3>1. n + 1 \in DOMAIN s /\ s[n + 1] \in Item /\ ~ (CreatedAt[s[n + 1]] > top)
      BY <1>1, <2>1 DEF Newer
    <3>2. CreatedAt[s[n + 1]] >= CreatedAt[x]
      <4>1. CASE n + 1 = k
        BY <1>3, <2>1, <4>1
      <4>2. CASE n + 1 < k
        BY <2>1, <3>1, <4>2 DEF NewestFirst
      <4> QED
        BY <2>1, <4>1, <4>2
    <3> QED
      BY <1>3, <3>1, <3>2, TimeAssumption
  <2>3. k \in DOMAIN page' /\ page'[k] = x
    BY <1>2, <2>1, <2>2
  <2> QED
    BY <2>3 DEF ServePull, Elements
<1>5. ASSUME NEW x \in due, Len(s) = Limit,
             \A i \in DOMAIN s : CreatedAt[s[i]] >= CreatedAt[x]
      PROVE  Len(page') = Limit
  <2>1. \A i \in DOMAIN s : s[i] \in Newer(Item)
    <3> SUFFICES ASSUME NEW i \in DOMAIN s PROVE s[i] \in Newer(Item)
      OBVIOUS
    <3>1. s[i] \in Item /\ CreatedAt[s[i]] \in Nat /\ CreatedAt[s[i]] >= CreatedAt[x]
      BY <1>5, TimeAssumption
    <3> QED
      BY <1>3, <3>1 DEF Newer
  <2>2. ~ (n < Len(s))
    BY <1>1, <2>1
  <2> QED
    BY <1>2, <1>5, <2>2
<1> QED
  BY <1>4, <1>5 DEF Keeps

LEMMA AnswerPulls ==
  ASSUME TypeOK, NEW s \in Seq(Item), Answer(s), overtaken = {} => NewestFirst(s),
         phase \in {"scroll", "install", "pull", "install_pull"},
         phase \in {"pull", "install_pull"} /\ overtaken = {} =>
           due \subseteq Newer(rows) /\ \A x \in due : Keeps(s, x),
         overtaken' = overtaken
  PROVE  phase' \in {"scroll", "end", "database", "pulled"} /\ due' = due /\ NothingMissedByPull'
<1>1. CASE phase \in {"scroll", "install"}
  BY <1>1 DEF Answer, ServeFrom, Serve, NothingMissedByPull
<1>2. CASE phase \in {"pull", "install_pull"}
  <2>1. ServePull(s)
    BY <1>2 DEF Answer
  <2>2. overtaken = {} => due \subseteq shown' \/ Len(page') = Limit
    BY <1>2, <2>1, PullServes
  <2> QED
    BY <2>1, <2>2 DEF ServePull, NothingMissedByPull
<1> QED
  BY <1>1, <1>2

LEMMA KeepQuiet ==
  ASSUME PullInv, UNCHANGED <<rows, writer, unpushed, overtaken, cache>>,
         phase \notin {"install", "install_pull"}, phase' \notin {"install", "install_pull"},
         phase' \in {"pull", "install_pull"} => (due \ overtaken)' \subseteq Newer(Settled)',
         NothingMissedByPull'
  PROVE  PullInv'
BY DEF PullInv, Loading, Settled, cache, Keeps, Elements

LEMMA PullStep == TypeOK /\ OrderInv /\ HoldInv /\ PullInv /\ [Next]_vars => PullInv'
<1> SUFFICES ASSUME TypeOK, OrderInv, OrderInv', HoldInv, PullInv, [Next]_vars PROVE PullInv'
  BY OrderStep
<1>0. Settled \subseteq rows /\ Settled \ overtaken' \subseteq Settled' /\ rows \subseteq Item
  BY SettledType, SettledStays DEF TypeOK
<1>s. CASE Start
  <2>1. NothingMissedByPull' /\ phase' = "scroll" /\ phase = "out"
    BY <1>s DEF Start, NothingMissedByPull
  <2> QED
    BY <1>s, <2>1, KeepQuiet DEF Start
<1>1. CASE Hit
  <2>1. list \in Seq(Item) /\ Answer(list) /\ phase \in {"scroll", "pull"} /\ list # <<>>
    BY <1>1 DEF Hit, TypeOK
  <2>2. UNCHANGED <<rows, writer, unpushed, overtaken, cache>>
    BY <1>1 DEF Hit
  <2>3. phase \in {"pull", "install_pull"} /\ overtaken = {} =>
          due \subseteq Newer(rows) /\ \A x \in due : Keeps(list, x)
    BY <1>0, <2>1 DEF PullInv, Newer
  <2>4. phase' \in {"scroll", "end", "database", "pulled"} /\ NothingMissedByPull'
    BY <2>1, <2>2, <2>3, AnswerPulls DEF OrderInv
  <2> QED
    BY <2>1, <2>2, <2>4, KeepQuiet
<1>2. CASE LoadFails
  <2>1. PICK s \in NewestRows(rows, Limit) : Answer(s)
    BY <1>2 DEF LoadFails
  <2>2. s \in Seq(Item) /\ NewestFirst(s) /\ phase \in {"scroll", "install", "pull", "install_pull"}
    BY <1>2, RowsType, RowsOrder DEF LoadFails
  <2>3. UNCHANGED <<rows, writer, overtaken, list, loading>>
    BY <1>2 DEF LoadFails
  <2>4. phase \in {"pull", "install_pull"} /\ overtaken = {} =>
          due \subseteq Newer(rows) /\ \A x \in due : Keeps(s, x)
    BY <1>0, <2>1, RowsKeep DEF PullInv, Newer
  <2>5. phase' \in {"scroll", "end", "database", "pulled"} /\ NothingMissedByPull'
    BY <2>1, <2>2, <2>3, <2>4, AnswerPulls
  <2>6. CASE phase \in {"install", "install_pull"}
    <3>1. list' = <<>> /\ ~ Loading'
      BY <2>3, <2>5, <2>6 DEF HoldInv, Loading
    <3> QED
      BY <2>5, <3>1 DEF PullInv
  <2>7. CASE phase \notin {"install", "install_pull"}
    BY <1>2, <2>5, <2>7, KeepQuiet DEF LoadFails, cache
  <2> QED
    BY <2>6, <2>7
<1>3. CASE Snapshot
  <2>1. /\ snapshot' \in NewestRows(rows, Limit) /\ list' = <<>>
        /\ phase' \in {"pull", "install_pull"} => phase \in {"pull", "install_pull"}
        /\ phase' # "pulled" /\ UNCHANGED <<rows, writer, unpushed, overtaken, top, due>>
    BY <1>3 DEF Snapshot
  <2>2. \A x \in rows : Keeps(snapshot', x)
    BY <2>1, RowsKeep
  <2>3. Settled' = Settled /\ Newer(Settled)' = Newer(Settled)
    BY <2>1 DEF Settled, Newer
  <2> QED
    BY <1>0, <2>1, <2>2, <2>3 DEF PullInv, Keeps, NothingMissedByPull
<1>4. CASE Install
  <2>1. snapshot \in Seq(Item) /\ Answer(snapshot) /\ phase \in {"install", "install_pull"}
    BY <1>4 DEF Install, TypeOK
  <2>2. UNCHANGED <<rows, writer, unpushed, overtaken, loading>> /\ list' = snapshot
    BY <1>4 DEF Install
  <2>3. \A x \in Settled : Keeps(snapshot, x)
    BY <2>1 DEF PullInv, Loading
  <2>4. phase \in {"pull", "install_pull"} /\ overtaken = {} =>
          due \subseteq Newer(rows) /\ \A x \in due : Keeps(snapshot, x)
    BY <1>0, <2>3 DEF PullInv, Newer
  <2>5. phase' \in {"scroll", "end", "database", "pulled"} /\ NothingMissedByPull'
    BY <2>1, <2>2, <2>4, AnswerPulls DEF OrderInv
  <2>6. ~ Loading' /\ Settled' = Settled
    BY <2>1, <2>2, <2>5 DEF HoldInv, Loading, Settled
  <2> QED
    BY <2>2, <2>3, <2>5, <2>6 DEF PullInv, Keeps
<1>5. CASE PageFromDatabase
  <2>1. phase' \in {"scroll", "end"} /\ phase = "database" /\ NothingMissedByPull'
    BY <1>5 DEF PageFromDatabase, Serve, NothingMissedByPull
  <2> QED
    BY <1>5, <2>1, KeepQuiet DEF PageFromDatabase
<1>6. CASE Pull
  <2>1. /\ phase' = "pull" /\ phase = "end" /\ NothingMissedByPull'
        /\ due' = Newer(Settled) /\ UNCHANGED <<rows, writer, unpushed, top>>
    BY <1>6 DEF Pull, NothingMissedByPull
  <2>2. (due \ overtaken)' \subseteq Newer(Settled)'
    BY <2>1 DEF Newer, Settled
  <2> QED
    BY <1>6, <2>1, <2>2, KeepQuiet DEF Pull
<1>7. ASSUME \/ \E y \in Item : Insert(y) \/ Push(y) \/ PushAnew(y) \/ PushSkipped(y)
             \/ OtherSnapshot \/ OtherInstall \/ OtherLoadFails \/ Expire
      PROVE  /\ UNCHANGED <<phase, page, shown, top, due>>
             /\ phase' \in {"pull", "install_pull"} => (due \ overtaken)' \subseteq Newer(Settled)'
             /\ NothingMissedByPull'
  <2>1. UNCHANGED <<phase, page, shown, top, due>>
    BY <1>7 DEF Insert, Push, PushAnew, PushSkipped, OtherSnapshot, OtherInstall, OtherLoadFails,
               Expire, client
  <2>2. overtaken \subseteq overtaken' \/ phase = "out"
    BY <1>7 DEF Insert, Push, PushAnew, PushSkipped, OtherSnapshot, OtherInstall, OtherLoadFails, Expire
  <2> QED
    BY <1>0, <2>1, <2>2 DEF PullInv, Newer, NothingMissedByPull
<1>8. ASSUME NEW y \in Item, Insert(y) PROVE PullInv'
  <2>1. Settled' \subseteq Settled
    BY <1>8 DEF Insert, Settled, TypeOK
  <2> QED
    BY <1>7, <1>8, <2>1 DEF Insert, cache, PullInv, Loading, Keeps, Elements
<1>9. ASSUME NEW y \in Item, Push(y) PROVE PullInv'
  <2>1. overtaken \subseteq overtaken' /\ list # <<>> /\ UNCHANGED loading
    BY <1>9 DEF Push
  <2>2. Settled' \subseteq Settled \cup {y}
    BY <1>9 DEF Push, Settled, TypeOK
  <2>3. ~ Loading'
    BY <1>7, <1>9, <2>1 DEF HoldInv, Loading
  <2>4. ASSUME overtaken' = {}, NEW x \in Settled' PROVE Keeps(list', x)
    <3>1. NewestFirst(list) /\ x \in Item /\ (x = y \/ Keeps(list, x))
      BY <1>0, <2>1, <2>2, <2>4 DEF OrderInv, PullInv
    <3>2. NewestFirst(list')
      BY <2>4 DEF OrderInv, NewestFirst
    <3> QED
      BY <1>9, <2>1, <2>4, <3>1, <3>2, PushKeeps
  <2> QED
    BY <1>7, <1>9, <2>3, <2>4 DEF PullInv, Keeps
<1>n. ASSUME NEW y \in Item, PushAnew(y) PROVE PullInv'
  <2>1. list' = <<y>> /\ ~ Loading /\ UNCHANGED <<loading, phase>>
    BY <1>7, <1>n DEF PushAnew
  <2>2. Settled' \subseteq {y}
    BY <1>n DEF PushAnew, Settled, TypeOK
  <2>3. Keeps(list', y)
    BY <2>1 DEF Keeps, Elements
  <2>4. ~ Loading'
    BY <2>1 DEF Loading
  <2> QED
    BY <1>7, <1>n, <2>2, <2>3, <2>4 DEF PullInv, Keeps
<1>10. ASSUME NEW y \in Item, PushSkipped(y) PROVE PullInv'
  <2>1. UNCHANGED <<list, loading, phase, snapshot, overtaken>>
    BY <1>10 DEF PushSkipped, cache, client
  <2>2. Settled' \subseteq Settled \cup {y}
    BY <1>10 DEF PushSkipped, Settled, TypeOK
  <2>3. y \in Settled' /\ (list # <<>> \/ Loading) => y \in Elements(list) \cup Elements(snapshot)
    BY <1>10 DEF PushSkipped, Settled
  <2>4. list # <<>> /\ y \in Settled' => y \in Elements(list)
    <3>1. list # <<>> => Elements(snapshot) = {}
      BY DEF HoldInv, Elements
    <3> QED
      BY <2>3, <3>1
  <2>5. Loading /\ y \in Settled' => y \in Elements(snapshot)
    <3>1. Loading => Elements(list) = {}
      BY DEF HoldInv, Elements
    <3> QED
      BY <2>3, <3>1
  <2>6. overtaken' = {} /\ list' # <<>> => \A x \in Settled' : Keeps(list', x)
    BY <2>1, <2>2, <2>4 DEF PullInv, Keeps
  <2>7. Loading' => \A x \in Settled' : Keeps(snapshot', x)
    BY <2>1, <2>2, <2>5 DEF PullInv, Keeps, Loading
  <2> QED
    BY <1>7, <1>10, <2>6, <2>7 DEF PullInv, Keeps
<1>11. CASE OtherSnapshot
  <2>1. snapshot' \in NewestRows(rows, Limit) /\ list' = <<>> /\ UNCHANGED <<rows, writer, unpushed>>
    BY <1>11 DEF OtherSnapshot
  <2>2. \A x \in rows : Keeps(snapshot', x)
    BY <2>1, RowsKeep
  <2>3. Settled' \subseteq rows
    BY <1>0, <2>1 DEF Settled
  <2> QED
    BY <1>7, <1>11, <2>1, <2>2, <2>3 DEF PullInv, Keeps
<1>12. CASE OtherInstall
  <2>1. list' = snapshot /\ Loading /\ ~ Loading' /\ UNCHANGED <<rows, writer, unpushed>>
    BY <1>12 DEF OtherInstall, client, HoldInv, Loading
  <2>2. Settled' = Settled
    BY <2>1 DEF Settled
  <2> QED
    BY <1>7, <1>12, <2>1, <2>2 DEF PullInv, Keeps
<1>13. CASE OtherLoadFails \/ Expire
  <2>1. list' = <<>> /\ ~ Loading'
    BY <1>13 DEF OtherLoadFails, Expire, client, HoldInv, Loading
  <2> QED
    BY <1>7, <1>13, <2>1 DEF PullInv
<1>14. CASE UNCHANGED vars
  BY <1>14 DEF vars, cache, client, PullInv, Loading, Settled, Keeps, Elements, Newer,
              NothingMissedByPull
<1> QED
  BY <1>s, <1>1, <1>2, <1>3, <1>4, <1>5, <1>6, <1>8, <1>9, <1>n, <1>10, <1>11, <1>12, <1>13,
     <1>14
  DEF Next, ClientStep

(* As long as rows are pushed in order, a pull gets every newer row that was*)
(* settled before it, or a full list of rows newer than the client's first  *)
(* one, for any rows, limit and page size.                                  *)
THEOREM PullMissesNothing == Spec => []NothingMissedByPull
<1>1. Init => OrderInv
  BY EmptyOrder DEF Init, OrderInv, StartsEmpty, Behind, Scrolling
<1>2. Init => PullInv
  BY DEF Init, PullInv, Loading, NothingMissedByPull
<1>3. PullInv => NothingMissedByPull
  BY DEF PullInv
<1> QED
  BY <1>1, <1>2, <1>3, InitTypes, HoldInit, TypeStep, OrderStep, HoldStep, PullStep, PTL DEF Spec
=============================================================================
