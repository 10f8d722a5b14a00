---------------------------- MODULE FanoutProofs ----------------------------
(* Proofs about the post of a tweet: Fanout, for any users, workers, batch  *)
(* size and faults, and then Tweets, for any readers, admins and tasks.     *)
EXTENDS Fanout, Tweets, TLAPS, FiniteSetTheorems

Jobs == [at : {"idle", "create", "list", "send", "insert"}, ids : Seq(User \ {Author})]
Messages == [task : {"main", "batch"}, ids : Seq(User \ {Author})]

-----------------------------------------------------------------------------
(* Every step keeps the types.                                              *)
LEMMA BecomeType ==
  ASSUME TypeOK, NEW w \in Worker, NEW at \in {"idle", "create", "list", "send", "insert"},
         NEW ids \in Seq(User \ {Author}), Become(w, at, ids)
  PROVE  job' \in [Worker -> Jobs]
BY DEF TypeOK, Become, Jobs

LEMMA OrdersType ==
  ASSUME NEW S, IsFiniteSet(S), NEW ids \in Orders(S) PROVE ids \in Seq(S)
BY FS_CardinalityType DEF Orders

LEMMA TypeStep == TypeOK /\ [Next]_vars => TypeOK'
<1> SUFFICES ASSUME TypeOK, [Next]_vars PROVE TypeOK'
  OBVIOUS
<1> USE FanoutAssumption
<1>0. <<>> \in Seq(User \ {Author})
  OBVIOUS
<1>1. CASE Save \/ PublishFails
  BY <1>1 DEF TypeOK, Save, PublishFails, Fault
<1>2. CASE FanoutToFollowers
  <2>1. Main \in Messages
    BY <1>0 DEF Main, Messages
  <2> QED
    BY <1>2, <2>1 DEF TypeOK, FanoutToFollowers, Messages
<1>3. CASE Redeliver
  BY <1>3 DEF TypeOK, Redeliver, Fault
<1>4. ASSUME NEW u \in User, Follow(u) \/ Unfollow(u) PROVE TypeOK'
  BY <1>4 DEF TypeOK, Follow, Unfollow
<1>5. ASSUME NEW w \in Worker, Start(w) PROVE TypeOK'
  <2>1. PICK m \in queue :
          /\ queue' = queue \ {m}
          /\ Become(w, IF m.task = "main" THEN "create" ELSE "insert", m.ids)
    BY <1>5 DEF Start
  <2>2. m.ids \in Seq(User \ {Author})
    BY <2>1 DEF TypeOK
  <2>3. job' \in [Worker -> Jobs]
    BY <2>1, <2>2, BecomeType
  <2> QED
    BY <1>5, <2>1, <2>3 DEF TypeOK, Start, Jobs
<1>6. ASSUME NEW w \in Worker, CreateOwn(w) PROVE TypeOK'
  <2>1. job' \in [Worker -> Jobs]
    BY <1>0, <1>6, BecomeType DEF CreateOwn
  <2> QED
    BY <1>6, <2>1 DEF TypeOK, CreateOwn, Jobs
<1>7. ASSUME NEW w \in Worker, ListFollowers(w) PROVE TypeOK'
  <2>1. IsFiniteSet(followers) /\ followers \subseteq User \ {Author}
    BY FS_Subset DEF TypeOK
  <2>2. PICK ids \in Orders(followers) : Become(w, "send", ids)
    BY <1>7 DEF ListFollowers
  <2>3. ids \in Seq(followers)
    BY <2>1, <2>2, OrdersType
  <2>4. job' \in [Worker -> Jobs]
    BY <2>1, <2>2, <2>3, BecomeType
  <2> QED
    BY <1>7, <2>4 DEF TypeOK, ListFollowers, Jobs
<1>8. ASSUME NEW w \in Worker, SendBatch(w) PROVE TypeOK'
  <2> DEFINE ids == job[w].ids
             n   == Shorter(BatchSize, Len(ids))
  <2>1. ids \in Seq(User \ {Author}) /\ Len(ids) \in Nat
    BY DEF TypeOK
  <2>2. n \in 0..Len(ids)
    BY <2>1 DEF Shorter
  <2>3. /\ SubSeq(ids, 1, n) \in Seq(User \ {Author})
        /\ SubSeq(ids, n + 1, Len(ids)) \in Seq(User \ {Author})
    BY <2>1, <2>2
  <2> HIDE DEF n
  <2>4. CASE ids = <<>>
    <3>1. Become(w, "idle", <<>>) /\ UNCHANGED <<queue, sent>>
      BY <1>8, <2>4 DEF SendBatch
    <3>2. job' \in [Worker -> Jobs]
      BY <1>0, <3>1, BecomeType
    <3> QED
      BY <1>8, <3>1, <3>2 DEF TypeOK, SendBatch, Jobs
  <2>5. CASE ids # <<>>
    <3>1. /\ queue' = queue \cup {Batch(SubSeq(ids, 1, n))}
          /\ sent' = sent \cup {Batch(SubSeq(ids, 1, n))}
          /\ Become(w, "send", SubSeq(ids, n + 1, Len(ids)))
      BY <1>8, <2>5 DEF SendBatch, n
    <3>2. job' \in [Worker -> Jobs]
      BY <2>3, <3>1, BecomeType
    <3>3. Batch(SubSeq(ids, 1, n)) \in Messages
      BY <2>3 DEF Batch, Messages
    <3> QED
      BY <1>8, <3>1, <3>2, <3>3 DEF TypeOK, SendBatch, Jobs, Messages
  <2> QED
    BY <2>4, <2>5
<1>9. ASSUME NEW w \in Worker, BulkCreate(w) PROVE TypeOK'
  <2>1. job' \in [Worker -> Jobs]
    BY <1>0, <1>9, BecomeType DEF BulkCreate
  <2>2. Members(job[w].ids) \subseteq User
    BY DEF TypeOK, Members
  <2> QED
    BY <1>9, <2>1, <2>2 DEF TypeOK, BulkCreate, Jobs
<1>10. ASSUME NEW w \in Worker, Crash(w) PROVE TypeOK'
  BY <1>0, <1>10 DEF TypeOK, Crash, Fault, Idle
<1>11. CASE UNCHANGED vars
  BY <1>11 DEF TypeOK, vars
<1> QED
  BY <1>1, <1>2, <1>3, <1>4, <1>5, <1>6, <1>7, <1>8, <1>9, <1>10, <1>11
  DEF Next, Request, Work

LEMMA InitTypes == Init => TypeOK
<1> SUFFICES ASSUME Init PROVE TypeOK
  OBVIOUS
<1>1. <<>> \in Seq(User \ {Author})
  OBVIOUS
<1>2. Idle \in Jobs
  BY <1>1 DEF Idle, Jobs
<1>3. job \in [Worker -> Jobs]
  BY <1>2 DEF Init
<1>4. faults \in 0..MaxFaults
  BY FanoutAssumption DEF Init
<1> QED
  BY <1>3, <1>4 DEF Init, TypeOK, Jobs

(* Messages and jobs carry sequences of the author's followers, and the     *)
(* broker only has messages that were published.                            *)
THEOREM FanoutTypes == Spec => []TypeOK
BY InitTypes, TypeStep, PTL DEF Spec

-----------------------------------------------------------------------------
(* Before the author has the tweet there are no batches, neither at the     *)
(* broker nor in a worker.                                                  *)
OwnFirst ==
  Author \in feeds \/ /\ feeds = {} /\ sent \subseteq {Main}
                      /\ \A w \in Worker : job[w].at \in {"idle", "create"}

LEMMA OwnFirstStep == TypeOK /\ OwnFirst /\ [Next]_vars => OwnFirst'
<1> SUFFICES ASSUME TypeOK, OwnFirst, [Next]_vars PROVE OwnFirst'
  OBVIOUS
<1>1. CASE Author \in feeds
  <2>1. feeds \subseteq feeds'
    BY DEF Next, Request, Save, FanoutToFollowers, PublishFails, Redeliver, Follow, Unfollow,
           Work, Start, CreateOwn, ListFollowers, SendBatch, BulkCreate, Crash, vars
  <2> QED
    BY <1>1, <2>1 DEF OwnFirst
<1>2. CASE Author \notin feeds
  <2> USE <1>2
  <2>0. /\ feeds = {} /\ sent \subseteq {Main} /\ queue \subseteq {Main}
        /\ \A w \in Worker : job[w].at \in {"idle", "create"}
        /\ DOMAIN job = Worker
    BY DEF OwnFirst, TypeOK
  <2>1. CASE Save \/ PublishFails \/ Redeliver \/ UNCHANGED vars
    BY <2>0, <2>1 DEF Save, PublishFails, Redeliver, vars, OwnFirst
  <2>2. CASE FanoutToFollowers
    BY <2>0, <2>2 DEF FanoutToFollowers, OwnFirst
  <2>3. ASSUME NEW u \in User, Follow(u) \/ Unfollow(u) PROVE OwnFirst'
    BY <2>0, <2>3 DEF Follow, Unfollow, OwnFirst
  <2>4. ASSUME NEW w \in Worker, Start(w) PROVE OwnFirst'
    BY <2>0, <2>4 DEF Start, Become, Main, OwnFirst
  <2>5. ASSUME NEW w \in Worker, CreateOwn(w) PROVE OwnFirst'
    BY <2>0, <2>5 DEF CreateOwn, OwnFirst
  <2>6. ASSUME NEW w \in Worker, ListFollowers(w) \/ SendBatch(w) \/ BulkCreate(w)
        PROVE  OwnFirst'
    BY <2>0, <2>6 DEF ListFollowers, SendBatch, BulkCreate
  <2>7. ASSUME NEW w \in Worker, Crash(w) PROVE OwnFirst'
    BY <2>0, <2>7 DEF Crash, Idle, OwnFirst
  <2> QED
    BY <2>1, <2>2, <2>3, <2>4, <2>5, <2>6, <2>7 DEF Next, Request, Work
<1> QED
  BY <1>1, <1>2

(* Nobody has a tweet in the newsfeed before its author, for any number of  *)
(* workers and followers, whatever is redelivered, lost or reordered.       *)
THEOREM AuthorIsFirst == Spec => []AuthorFirst
<1>1. Init => OwnFirst
  BY DEF Init, OwnFirst, Idle
<1>2. OwnFirst => AuthorFirst
  BY DEF OwnFirst, AuthorFirst
<1> QED
  BY <1>1, <1>2, InitTypes, TypeStep, OwnFirstStep, PTL DEF Spec

-----------------------------------------------------------------------------
(* What a main task and its batches know of each other.  Only the main task *)
(* that created the author's row reads the followers, so that at most one   *)
(* worker has followers still to send, none of whom is in a batch or has the*)
(* tweet; before it has read them nobody but the author has it.             *)
Apart(s) == \A i, j \in DOMAIN s : s[i] = s[j] => i = j

MainInv ==
  /\ \A v, w \in Worker :
       job[v].at \in {"list", "send"} /\ job[w].at \in {"list", "send"} => v = w
  /\ \A w \in Worker : job[w].at = "list" => ~listed

RestInv ==
  \A w \in Worker : job[w].at = "send" =>
    /\ listed /\ Apart(job[w].ids)
    /\ Members(job[w].ids) \subseteq audience \ feeds
    /\ \A m \in SentBatches : Members(m.ids) \cap Members(job[w].ids) = {}

BatchInv ==
  /\ \A m \in SentBatches : Members(m.ids) \subseteq audience /\ Len(m.ids) \in 1..BatchSize
  /\ \A m, n \in SentBatches : m # n => Members(m.ids) \cap Members(n.ids) = {}
  /\ \A w \in Worker : job[w].at = "insert" => Batch(job[w].ids) \in sent
  /\ BatchAllOrNothing

ListedInv ==
  /\ listed => Author \in feeds
  /\ ~listed => feeds \subseteq {Author} /\ SentBatches = {}

IInv == TypeOK /\ OwnFirst /\ MainInv /\ RestInv /\ BatchInv /\ ListedInv

(* A worker takes a task or ends one, and nothing else changes.             *)
LEMMA WorkerTurns ==
  ASSUME IInv, NEW w \in Worker, NEW at \in {"idle", "create", "insert"},
         NEW ids \in Seq(User \ {Author}), Become(w, at, ids),
         at = "insert" => Batch(ids) \in sent,
         UNCHANGED <<feeds, audience, listed, sent>>
  PROVE  (MainInv /\ RestInv /\ BatchInv /\ ListedInv)'
<1>1. /\ \A v \in Worker : job'[v] = job[v] \/ job'[v].at \in {"idle", "create", "insert"}
      /\ \A v \in Worker : job'[v].at = "insert" => job'[v] = job[v] \/ Batch(job'[v].ids) \in sent
  BY DEF IInv, TypeOK, Become
<1>2. SentBatches' = SentBatches
  BY DEF SentBatches
<1>3. MainInv'
  BY <1>1 DEF IInv, MainInv
<1>4. RestInv'
  BY <1>1, <1>2 DEF IInv, RestInv
<1>5. BatchInv'
  BY <1>1, <1>2 DEF IInv, BatchInv, BatchAllOrNothing
<1>6. ListedInv'
  BY <1>2 DEF IInv, ListedInv
<1> QED
  BY <1>3, <1>4, <1>5, <1>6

(* The web request, the broker, follows and unfollows.                      *)
LEMMA OthersTurn ==
  ASSUME IInv, UNCHANGED <<job, feeds, audience, listed>>, sent' = sent \/ sent' = sent \cup {Main}
  PROVE  (MainInv /\ RestInv /\ BatchInv /\ ListedInv)'
<1>1. SentBatches' = SentBatches /\ sent \subseteq sent'
  BY DEF SentBatches, Main
<1>2. MainInv' /\ RestInv'
  BY <1>1 DEF IInv, MainInv, RestInv
<1>3. BatchInv'
  BY <1>1 DEF IInv, BatchInv, BatchAllOrNothing
<1>4. ListedInv'
  BY <1>1 DEF IInv, ListedInv
<1> QED
  BY <1>2, <1>3, <1>4

LEMMA CreateOwnStep ==
  ASSUME IInv, NEW w \in Worker, CreateOwn(w)
  PROVE  (MainInv /\ RestInv /\ BatchInv /\ ListedInv)'
<1>0. <<>> \in Seq(User \ {Author})
  OBVIOUS
<1>1. CASE Author \in feeds
  <2>1. Become(w, "idle", <<>>) /\ UNCHANGED <<feeds, audience, listed, sent>>
    BY <1>1 DEF CreateOwn
  <2> QED
    BY <1>0, <2>1, WorkerTurns
<1>2. CASE Author \notin feeds
  <2>1. /\ Become(w, "list", <<>>) /\ feeds' = feeds \cup {Author}
        /\ UNCHANGED <<audience, listed, sent>>
    BY <1>2 DEF CreateOwn
  <2>2. /\ feeds = {} /\ SentBatches = {} /\ ~listed
        /\ \A v \in Worker : job[v].at \in {"idle", "create"}
    BY <1>2 DEF IInv, OwnFirst, ListedInv, SentBatches, Main
  <2>3. SentBatches' = SentBatches
    BY <2>1 DEF SentBatches
  <2>4. \A v \in Worker : IF v = w THEN job'[v].at = "list" ELSE job'[v].at \in {"idle", "create"}
    BY <2>1, <2>2 DEF IInv, TypeOK, Become
  <2>5. MainInv' /\ RestInv'
    BY <2>1, <2>2, <2>4 DEF MainInv, RestInv
  <2>6. BatchInv' /\ ListedInv'
    BY <2>1, <2>2, <2>3, <2>4 DEF BatchInv, BatchAllOrNothing, ListedInv
  <2> QED
    BY <2>5, <2>6
<1> QED
  BY <1>1, <1>2

LEMMA ListFollowersStep ==
  ASSUME IInv, NEW w \in Worker, ListFollowers(w)
  PROVE  (MainInv /\ RestInv /\ BatchInv /\ ListedInv)'
<1>1. IsFiniteSet(followers) /\ followers \subseteq User \ {Author}
  BY FanoutAssumption, FS_Subset DEF IInv, TypeOK
<1>2. PICK ids \in Orders(followers) : Become(w, "send", ids)
  BY DEF ListFollowers
<1>3. /\ audience' = followers /\ listed'
      /\ UNCHANGED <<feeds, sent>>
      /\ job[w].at = "list"
  BY DEF ListFollowers
<1>4. Members(ids) \subseteq followers /\ Apart(ids)
  BY <1>2 DEF Orders, Members, Apart
<1>5. ~listed /\ feeds \subseteq {Author} /\ SentBatches = {} /\ SentBatches' = {}
  BY <1>3 DEF IInv, MainInv, ListedInv, SentBatches
<1>6. Author \in feeds
  BY <1>3 DEF IInv, OwnFirst
<1>7. \A v \in Worker : IF v = w THEN job'[v] = [at |-> "send", ids |-> ids]
                        ELSE job'[v] = job[v] /\ job[v].at \notin {"list", "send"}
  BY <1>2, <1>3 DEF IInv, TypeOK, MainInv, Become
<1>8. MainInv'
  BY <1>7 DEF MainInv
<1>9. RestInv'
  BY <1>1, <1>3, <1>4, <1>5, <1>7 DEF RestInv
<1>10. BatchInv' /\ ListedInv'
  BY <1>3, <1>5, <1>6, <1>7 DEF IInv, BatchInv, BatchAllOrNothing, ListedInv
<1> QED
  BY <1>8, <1>9, <1>10

(* A sequence without repetitions, cut in two.                              *)
LEMMA CutInTwo ==
  ASSUME NEW S, NEW s \in Seq(S), Apart(s), NEW n \in 0..Len(s)
  PROVE  /\ SubSeq(s, 1, n) \in Seq(S) /\ SubSeq(s, n + 1, Len(s)) \in Seq(S)
         /\ Len(SubSeq(s, 1, n)) = n
         /\ Apart(SubSeq(s, n + 1, Len(s)))
         /\ Members(SubSeq(s, 1, n)) \subseteq Members(s)
         /\ Members(SubSeq(s, n + 1, Len(s))) \subseteq Members(s)
         /\ Members(SubSeq(s, 1, n)) \cap Members(SubSeq(s, n + 1, Len(s))) = {}
<1> DEFINE first == SubSeq(s, 1, n)
           rest  == SubSeq(s, n + 1, Len(s))
<1>1. Len(s) \in Nat
  OBVIOUS
<1>2. /\ first \in Seq(S) /\ Len(first) = n
      /\ \A i \in DOMAIN first : i \in DOMAIN s /\ i <= n /\ first[i] = s[i]
  BY <1>1
<1>3. /\ rest \in Seq(S)
      /\ \A i \in DOMAIN rest : n + i \in DOMAIN s /\ n + i > n /\ rest[i] = s[n + i]
  BY <1>1
<1>4. DOMAIN first \subseteq Nat /\ DOMAIN rest \subseteq Nat
  BY <1>2, <1>3
<1> HIDE DEF first, rest
<1>5. Apart(rest)
  <2> SUFFICES ASSUME NEW i \in DOMAIN rest, NEW j \in DOMAIN rest, rest[i] = rest[j]
               PROVE  i = j
    BY DEF Apart
  <2>1. n + i = n + j
    BY <1>3 DEF Apart
  <2> QED
    BY <1>4, <2>1
<1>6. Members(first) \subseteq Members(s) /\ Members(rest) \subseteq Members(s)
  BY <1>2, <1>3 DEF Members
<1>7. Members(first) \cap Members(rest) = {}
  <2> SUFFICES ASSUME NEW i \in DOMAIN first, NEW j \in DOMAIN rest, first[i] = rest[j]
               PROVE  FALSE
    BY DEF Members
  <2>1. i = n + j
    BY <1>2, <1>3 DEF Apart
  <2> QED
    BY <1>2, <1>3, <2>1
<1> QED
  BY <1>2, <1>3, <1>5, <1>6, <1>7 DEF first, rest

LEMMA SendBatchStep ==
  ASSUME IInv, NEW w \in Worker, SendBatch(w)
  PROVE  (MainInv /\ RestInv /\ BatchInv /\ ListedInv)'
<1> DEFINE ids   == job[w].ids
           n     == Shorter(BatchSize, Len(ids))
           first == SubSeq(ids, 1, n)
           rest  == SubSeq(ids, n + 1, Len(ids))
<1>1. ids \in Seq(User \ {Author}) /\ Len(ids) \in Nat
  BY DEF IInv, TypeOK
<1>2. CASE ids = <<>>
  <2>1. Become(w, "idle", <<>>) /\ UNCHANGED <<feeds, audience, listed, sent>>
    BY <1>2 DEF SendBatch
  <2>2. <<>> \in Seq(User \ {Author})
    OBVIOUS
  <2> QED
    BY <2>1, <2>2, WorkerTurns
<1>3. CASE ids # <<>>
  <2>1. /\ Become(w, "send", rest) /\ sent' = sent \cup {Batch(first)}
        /\ UNCHANGED <<feeds, audience, listed>>
        /\ job[w].at = "send"
    BY <1>3 DEF SendBatch
  <2>2. n \in 1..Len(ids) /\ n \in 1..BatchSize
    BY <1>1, <1>3, FanoutAssumption DEF Shorter
  <2>3. /\ listed /\ Apart(ids) /\ Members(ids) \subseteq audience \ feeds
        /\ \A m \in SentBatches : Members(m.ids) \cap Members(ids) = {}
    BY <2>1 DEF IInv, RestInv
  <2> HIDE DEF n, ids
  <2>4. /\ Len(first) = n /\ Apart(rest)
        /\ Members(first) \subseteq Members(ids) /\ Members(rest) \subseteq Members(ids)
        /\ Members(first) \cap Members(rest) = {}
    BY <1>1, <2>2, <2>3, CutInTwo
  <2> HIDE DEF first, rest
  <2>5. SentBatches' = SentBatches \cup {Batch(first)} /\ Batch(first).ids = first
    BY <2>1 DEF SentBatches, Batch
  <2>6. \A v \in Worker : IF v = w THEN job'[v] = [at |-> "send", ids |-> rest]
                          ELSE job'[v] = job[v] /\ job[v].at \notin {"list", "send"}
    BY <2>1 DEF IInv, TypeOK, MainInv, Become
  <2>7. MainInv'
    BY <2>1, <2>3, <2>6 DEF MainInv
  <2>8. RestInv'
    BY <2>1, <2>3, <2>4, <2>5, <2>6 DEF RestInv
  <2>9. BatchInv'
    <3>1. \A m \in SentBatches' :
            /\ Members(m.ids) \subseteq audience /\ Len(m.ids) \in 1..BatchSize
            /\ Members(m.ids) \subseteq feeds \/ Members(m.ids) \cap feeds = {}
      BY <2>2, <2>3, <2>4, <2>5 DEF IInv, BatchInv, BatchAllOrNothing
    <3>2. \A m, k \in SentBatches' : m # k => Members(m.ids) \cap Members(k.ids) = {}
      BY <2>3, <2>4, <2>5 DEF IInv, BatchInv
    <3>3. \A v \in Worker : job'[v].at = "insert" => Batch(job'[v].ids) \in sent'
      BY <2>1, <2>6 DEF IInv, BatchInv
    <3> QED
      BY <2>1, <3>1, <3>2, <3>3 DEF BatchInv, BatchAllOrNothing
  <2>10. ListedInv'
    BY <2>1, <2>3 DEF IInv, ListedInv
  <2> QED
    BY <2>7, <2>8, <2>9, <2>10
<1> QED
  BY <1>2, <1>3

LEMMA BulkCreateStep ==
  ASSUME IInv, NEW w \in Worker, BulkCreate(w)
  PROVE  (MainInv /\ RestInv /\ BatchInv /\ ListedInv)'
<1> DEFINE new == Members(job[w].ids)
           b   == Batch(job[w].ids)
<1>1. /\ Become(w, "idle", <<>>) /\ UNCHANGED <<audience, listed, sent>>
      /\ feeds' = IF new \cap feeds = {} THEN feeds \cup new ELSE feeds
      /\ job[w].at = "insert"
  BY DEF BulkCreate
<1>2. CASE new \cap feeds # {}
  <2>1. <<>> \in Seq(User \ {Author})
    OBVIOUS
  <2> QED
    BY <1>1, <1>2, <2>1, WorkerTurns
<1>3. CASE new \cap feeds = {}
  <2>1. b \in SentBatches /\ b.ids = job[w].ids /\ SentBatches' = SentBatches
    BY <1>1 DEF IInv, BatchInv, SentBatches, Batch
  <2>2. listed /\ Author \in feeds
    BY <2>1 DEF IInv, ListedInv
  <2>3. \A v \in Worker : job'[v] = job[v] \/ job'[v].at = "idle"
    BY <1>1 DEF IInv, TypeOK, Become
  <2> HIDE DEF b
  <2>4. MainInv'
    BY <1>1, <2>3 DEF IInv, MainInv
  <2>5. RestInv'
    <3> SUFFICES ASSUME NEW v \in Worker, job'[v].at = "send"
                 PROVE  /\ listed' /\ Apart(job'[v].ids)
                        /\ Members(job'[v].ids) \subseteq audience' \ feeds'
                        /\ \A m \in SentBatches' : Members(m.ids) \cap Members(job'[v].ids) = {}
      BY DEF RestInv
    <3>1. job'[v] = job[v]
      BY <2>3
    <3>2. new \cap Members(job[v].ids) = {}
      BY <2>1, <3>1 DEF IInv, RestInv
    <3> QED
      BY <1>1, <1>3, <2>1, <3>1, <3>2 DEF IInv, RestInv
  <2>6. \A m \in SentBatches : Members(m.ids) \subseteq feeds' \/ Members(m.ids) \cap feeds' = {}
    <3> SUFFICES ASSUME NEW m \in SentBatches, m # b
                 PROVE  Members(m.ids) \subseteq feeds' \/ Members(m.ids) \cap feeds' = {}
      BY <1>1, <1>3, <2>1
    <3>1. Members(m.ids) \cap new = {}
      BY <2>1 DEF IInv, BatchInv
    <3> QED
      BY <1>1, <1>3, <3>1 DEF IInv, BatchInv, BatchAllOrNothing
  <2>7. BatchInv'
    BY <1>1, <2>1, <2>3, <2>6 DEF IInv, BatchInv, BatchAllOrNothing
  <2>8. ListedInv'
    BY <1>1, <1>3, <2>2 DEF ListedInv
  <2> QED
    BY <2>4, <2>5, <2>7, <2>8
<1> QED
  BY <1>2, <1>3

LEMMA InvStep == IInv /\ [Next]_vars => IInv'
<1> SUFFICES ASSUME IInv, [Next]_vars PROVE (MainInv /\ RestInv /\ BatchInv /\ ListedInv)'
  BY TypeStep, OwnFirstStep DEF IInv
<1>0. <<>> \in Seq(User \ {Author})
  OBVIOUS
<1>1. CASE Request \/ PublishFails \/ Redeliver \/ UNCHANGED vars
  BY <1>1, OthersTurn DEF Request, Save, FanoutToFollowers, PublishFails, Redeliver, vars
<1>2. ASSUME NEW u \in User, Follow(u) \/ Unfollow(u)
      PROVE  (MainInv /\ RestInv /\ BatchInv /\ ListedInv)'
  BY <1>2, OthersTurn DEF Follow, Unfollow
<1>3. ASSUME NEW w \in Worker, Start(w)
      PROVE  (MainInv /\ RestInv /\ BatchInv /\ ListedInv)'
  <2>1. PICK m \in queue : Become(w, IF m.task = "main" THEN "create" ELSE "insert", m.ids)
    BY <1>3 DEF Start
  <2>2. m \in sent /\ m \in Messages
    BY DEF IInv, TypeOK, Messages
  <2>3. m.task # "main" => m = Batch(m.ids)
    BY <2>2 DEF Messages, Batch
  <2>4. m.ids \in Seq(User \ {Author})
    BY <2>2 DEF Messages
  <2>5. UNCHANGED <<feeds, audience, listed, sent>>
    BY <1>3 DEF Start
  <2>6. CASE m.task = "main"
    BY <2>1, <2>4, <2>5, <2>6, WorkerTurns
  <2>7. CASE m.task # "main"
    BY <2>1, <2>2, <2>3, <2>4, <2>5, <2>7, WorkerTurns
  <2> QED
    BY <2>6, <2>7
<1>4. ASSUME NEW w \in Worker, Crash(w)
      PROVE  (MainInv /\ RestInv /\ BatchInv /\ ListedInv)'
  <2>1. Become(w, "idle", <<>>) /\ UNCHANGED <<feeds, audience, listed, sent>>
    BY <1>4 DEF Crash, Become, Idle
  <2> QED
    BY <1>0, <2>1, WorkerTurns
<1> QED
  BY <1>1, <1>2, <1>3, <1>4, CreateOwnStep, ListFollowersStep, SendBatchStep, BulkCreateStep
  DEF Next, Work

LEMMA InitInv == Init => IInv
<1> SUFFICES ASSUME Init PROVE IInv
  OBVIOUS
<1>1. OwnFirst
  BY DEF Init, OwnFirst, Idle
<1>2. SentBatches = {} /\ \A w \in Worker : job[w].at = "idle"
  BY DEF Init, SentBatches, Idle
<1>3. MainInv /\ RestInv /\ ListedInv
  BY <1>2 DEF Init, MainInv, RestInv, ListedInv
<1>4. BatchInv
  BY <1>2 DEF BatchInv, BatchAllOrNothing
<1> QED
  BY <1>1, <1>3, <1>4, InitTypes DEF IInv

LEMMA Invariant == Spec => []IInv
BY InitInv, InvStep, PTL DEF Spec

-----------------------------------------------------------------------------
(* For any followers, workers and batch size, however often the main task   *)
(* is delivered and whichever worker dies: no follower is in two batches or *)
(* in one and still to be sent.                                             *)
THEOREM FansOutOnce == Spec => []FannedOutOnce
<1>1. IInv => FannedOutOnce
  BY DEF IInv, BatchInv, RestInv, FannedOutOnce
<1> QED
  BY <1>1, Invariant, PTL

(* And each batch is in the newsfeeds as a whole or not at all.             *)
THEOREM BatchesAreWhole == Spec => []BatchAllOrNothing
<1>1. IInv => BatchAllOrNothing
  BY DEF IInv, BatchInv
<1> QED
  BY <1>1, Invariant, PTL

-----------------------------------------------------------------------------
(* A sequence has at most as many members as elements.                      *)
LEMMA MembersBounded ==
  ASSUME NEW S, NEW s \in Seq(S)
  PROVE  IsFiniteSet(Members(s)) /\ Cardinality(Members(s)) <= Len(s)
<1>1. Len(s) \in Nat /\ s \in [1..Len(s) -> S] /\ DOMAIN s = 1..Len(s)
  OBVIOUS
<1>2. s \in Surjection(1..Len(s), Members(s))
  BY <1>1 DEF Surjection, Members
<1>3. IsFiniteSet(1..Len(s)) /\ Cardinality(1..Len(s)) = Len(s)
  BY <1>1, FS_Interval
<1> QED
  BY <1>2, <1>3, FS_Surjection

(* Each step of the fan-out is a step of a delivery or changes nothing that *)
(* a delivery speaks of.                                                    *)
Phase == IF listed THEN "out" ELSE IF Author \in feeds THEN "own" ELSE "new"

LEMMA StepDelivers ==
  IInv /\ [Next]_vars => [Delivery!Next]_<<feeds, audience, Phase>>
<1> SUFFICES ASSUME IInv, [Next]_vars PROVE Delivery!Next \/ UNCHANGED <<feeds, audience, Phase>>
  BY DEF Phase
<1>1. CASE UNCHANGED <<feeds, audience, listed>>
  BY <1>1 DEF Phase
<1>2. ASSUME NEW w \in Worker, CreateOwn(w), Author \notin feeds PROVE Delivery!DeliverOwn
  <2>1. feeds = {} /\ ~listed
    BY <1>2 DEF IInv, OwnFirst, ListedInv
  <2> QED
    BY <1>2, <2>1 DEF CreateOwn, Delivery!DeliverOwn
<1>3. ASSUME NEW w \in Worker, ListFollowers(w) PROVE Delivery!FixAudience
  <2>1. ~listed /\ Author \in feeds
    BY <1>3 DEF ListFollowers, IInv, MainInv, OwnFirst
  <2> QED
    BY <1>3, <2>1 DEF ListFollowers, Delivery!FixAudience, IInv, TypeOK
<1>4. ASSUME NEW w \in Worker, BulkCreate(w), feeds' # feeds PROVE Delivery!DeliverGroup
  <2> DEFINE group == Members(job[w].ids)
             b     == Batch(job[w].ids)
  <2>1. /\ group \cap feeds = {} /\ feeds' = feeds \cup group
        /\ job[w].at = "insert" /\ UNCHANGED <<audience, listed>>
    BY <1>4 DEF BulkCreate
  <2>2. b \in SentBatches /\ b.ids = job[w].ids
    BY <2>1 DEF IInv, BatchInv, SentBatches, Batch
  <2>3. listed
    BY <2>2 DEF IInv, ListedInv
  <2>4. group \subseteq audience /\ Len(job[w].ids) \in 1..BatchSize
    BY <2>2 DEF IInv, BatchInv
  <2>5. job[w].ids \in Seq(User \ {Author})
    BY DEF IInv, TypeOK
  <2>6. IsFiniteSet(group) /\ Cardinality(group) <= Len(job[w].ids) /\ Len(job[w].ids) \in Nat
    BY <2>5, MembersBounded
  <2>7. group # {}
    BY <1>4, <2>1
  <2>8. Cardinality(group) \in Nat /\ Cardinality(group) # 0
    BY <2>6, <2>7, FS_CardinalityType, FS_EmptySet
  <2>9. Cardinality(group) \in 1..BatchSize
    BY <2>4, <2>6, <2>8, FanoutAssumption
  <2>10. group \in SUBSET (audience \ feeds)
    BY <2>1, <2>4
  <2> HIDE DEF group
  <2>11. Delivery!Cardinality(group) = Cardinality(group)
    BY DEF Delivery!Cardinality, Cardinality
  <2> QED
    BY <2>1, <2>3, <2>9, <2>10, <2>11 DEF Delivery!DeliverGroup
<1>5. CASE Request \/ PublishFails \/ Redeliver \/ UNCHANGED vars
  BY <1>1, <1>5 DEF Request, Save, FanoutToFollowers, PublishFails, Redeliver, vars
<1>6. ASSUME NEW u \in User, Follow(u) \/ Unfollow(u)
      PROVE  Delivery!Next \/ UNCHANGED <<feeds, audience, Phase>>
  BY <1>1, <1>6 DEF Follow, Unfollow
<1>7. ASSUME NEW w \in Worker, Start(w) \/ SendBatch(w) \/ Crash(w)
      PROVE  Delivery!Next \/ UNCHANGED <<feeds, audience, Phase>>
  BY <1>1, <1>7 DEF Start, SendBatch, Crash
<1>8. ASSUME NEW w \in Worker, CreateOwn(w)
      PROVE  Delivery!Next \/ UNCHANGED <<feeds, audience, Phase>>
  BY <1>1, <1>2, <1>8 DEF CreateOwn, Delivery!Next
<1>9. ASSUME NEW w \in Worker, BulkCreate(w)
      PROVE  Delivery!Next \/ UNCHANGED <<feeds, audience, Phase>>
  BY <1>1, <1>4, <1>9 DEF BulkCreate, Delivery!Next
<1> QED
  BY <1>3, <1>5, <1>6, <1>7, <1>8, <1>9 DEF Next, Work, Delivery!Next

(* The fan-out, with its queues, workers, redeliveries and crashes, does    *)
(* nothing that a delivery may not: author first, one audience, groups of   *)
(* at most BatchSize, each follower once.                                   *)
THEOREM DeliversAsSpecified == Spec => ImplementsDelivery
<1>1. Init => Delivery!Init
  BY DEF Init, Delivery!Init
<1>2. IInv /\ [Next]_vars =>
        [Delivery!Next]_<<feeds, audience,
                          IF listed THEN "out" ELSE IF Author \in feeds THEN "own" ELSE "new">>
  BY StepDelivers DEF Phase
<1> QED
  BY <1>1, <1>2, Invariant, PTL DEF Spec, ImplementsDelivery, Delivery!Spec

-----------------------------------------------------------------------------
(* Tweets, for any deliveries of the moderation task, admins and readers.   *)
Tasks == [at : {"ask", "find", "update", "done"}, found : SUBSET Change]
Forms == [at : {"open", "check", "gone", "save", "exists", "lpush", "commit", "saved", "failed"},
          form : SUBSET Change]
Readings == [door : Door \cup {"none"}, copy : SUBSET Change,
             at : {"get", "load", "fill", "install", "render", "whole", "bare",
                   "not_found", "not_listed", "error"}]

LEMMA ReadType ==
  ASSUME reader \in [Reader -> Readings], NEW r \in Reader,
         NEW next \in {"fill", "render", "whole", "bare", "not_found", "not_listed", "error"},
         NEW copy \in SUBSET Change, Read(r, next, copy)
  PROVE  reader' \in [Reader -> Readings]
BY DEF Read, Readings

LEMMA TweetTypeStep == TweetTypeOK /\ [TweetNext]_tweetVars => TweetTypeOK'
<1> SUFFICES ASSUME TweetTypeOK, [TweetNext]_tweetVars PROVE TweetTypeOK'
  OBVIOUS
<1>a. /\ task \in [Moderation -> Tasks] /\ editor \in [Editor -> Forms]
      /\ reader \in [Reader -> Readings]
  BY DEF TweetTypeOK, Tasks, Forms, Readings
<1>b. {"post"} \in SUBSET Change /\ {} \in SUBSET Change
  BY DEF Change
<1> USE DEF posting, stored, list, copies, Post, Forget
<1>1. CASE Insert
  BY <1>b, <1>1 DEF Insert, TweetTypeOK
<1>2. CASE Invalidate
  BY <1>2 DEF Invalidate, TweetTypeOK
<1>3. CASE PushTweetToCache \/ LPushTweet
  BY <1>b, <1>3 DEF PushTweetToCache, LPushTweet, LPush, TweetTypeOK
<1>4. CASE CreatePhotosFromFiles
  BY <1>4 DEF CreatePhotosFromFiles, TweetTypeOK
<1>5. CASE StartFanout \/ Moderate \/ Respond \/ PostFails
  BY <1>5 DEF StartFanout, Moderate, Respond, PostFails, TweetTypeOK
<1>6. ASSUME NEW t \in Moderation, TaskStep(t) PROVE TweetTypeOK'
  <2>1. task' \in [Moderation -> Tasks]
    BY <1>a, <1>6 DEF TaskStep, Ask, Find, UpdateStatus, Task, Tasks, TweetTypeOK
  <2>2. row' \in SUBSET Change /\ committed' \in SUBSET Change
    BY <1>6 DEF TaskStep, Ask, Find, UpdateStatus, TweetTypeOK, Change
  <2> QED
    BY <1>6, <2>1, <2>2 DEF TaskStep, Ask, Find, UpdateStatus, Tasks, TweetTypeOK
<1>7. CASE Count
  BY <1>7 DEF Count, TweetTypeOK, Change
<1>8. ASSUME NEW e \in Editor,
ShowForm(e) \/ CheckForm(e) \/ SaveStep(e) \/ EditFails(e) PROVE TweetTypeOK'
  <2>1. editor' \in [Editor -> Forms]
    BY <1>a, <1>8 DEF ShowForm, SaveStep, CheckForm, SaveForm, PushForm, LPushForm, CommitForm,
                      EditFails, Edit, Forms,
                      TweetTypeOK
  <2>2. editor[e].form \cup {e} \in SUBSET Change
    BY <1>a DEF Forms, Change
  <2>3. /\ row' \in SUBSET Change /\ committed' \in SUBSET Change /\ overwritten' \in SUBSET Change
        /\ memo' \in SUBSET Change /\ entry' \in SUBSET Change
        /\ {hot, expires, remade}' \subseteq BOOLEAN
    BY <1>8, <2>2 DEF ShowForm, SaveStep, CheckForm, SaveForm, PushForm, LPushForm, CommitForm,
                      EditFails, LPush, TweetTypeOK
  <2> QED
    BY <1>8, <2>1, <2>3 DEF ShowForm, SaveStep, CheckForm, SaveForm, PushForm, LPushForm,
                            CommitForm, EditFails, Forms,
                            TweetTypeOK
<1>9. ASSUME NEW d \in Deleter, DeleteInvalidates(d) \/ Delete(d) PROVE TweetTypeOK'
  <2>1. deleter' \in [Deleter -> {"confirm", "delete", "deleted"}]
    BY <1>9 DEF DeleteInvalidates, Delete, TweetTypeOK
  <2>2. photos' \in BOOLEAN /\ deleted' \in BOOLEAN /\ {row, memo}' \subseteq SUBSET Change
    BY <1>b, <1>9 DEF DeleteInvalidates, Delete, TweetTypeOK
  <2> QED
    BY <1>9, <2>1, <2>2 DEF DeleteInvalidates, Delete, TweetTypeOK
<1>10. ASSUME NEW r \in Reader, Get(r) \/ GetOrphan(r) \/ GetList(r) \/ ReadStep(r)
       PROVE  TweetTypeOK'
  <2>1. reader[r].copy \in SUBSET Change /\ row \in SUBSET Change
    BY <1>a DEF Readings, TweetTypeOK
  <2>2. reader' \in [Reader -> Readings]
    BY <1>a, <1>10, <2>1, ReadType DEF Get, GetOrphan, GetList, ReadStep, Load, Fill, Install,
                                       Render, Shown, Readings, Door
  <2>3. UNCHANGED <<posting, stored, task, editor, deleter>>
    BY <1>10 DEF Get, GetOrphan, GetList, ReadStep, Load, Fill, Install, Render
  <2>4. memo' \in SUBSET Change /\ entry' \in SUBSET Change /\ {hot, expires,
  remade}' \subseteq BOOLEAN
    <3>1. \/ UNCHANGED copies
          \/ memo' = reader[r].copy /\ UNCHANGED list
          \/ /\ hot' = TRUE /\ entry' = reader[r].copy /\ UNCHANGED memo
             /\ expires' = TRUE /\ remade' = FALSE
      BY <1>10 DEF Get, GetOrphan, GetList, ReadStep, Load, Fill, Install, Render
    <3> QED
      BY <2>1, <3>1 DEF TweetTypeOK
  <2> QED
    BY <2>2, <2>3, <2>4 DEF TweetTypeOK, Readings
<1>11. CASE Timeout \/ Expire \/ UNCHANGED tweetVars
  BY <1>11 DEF Timeout, Expire, tweetVars, TweetTypeOK
<1> QED
  BY <1>1, <1>2, <1>3, <1>4, <1>5, <1>6, <1>7, <1>8, <1>9, <1>10, <1>11 DEF TweetNext, PostStep

LEMMA TweetInitTypes == TweetInit => TweetTypeOK
<1> SUFFICES ASSUME TweetInit PROVE TweetTypeOK
  OBVIOUS
<1>1. {row, memo, entry, committed, overwritten} \subseteq SUBSET Change
  BY DEF TweetInit
<1>2. {photos, fanned, asked, hot, expires, remade, deleted} \subseteq BOOLEAN
  BY DEF TweetInit
<1>3. /\ task \in [Moderation -> Tasks] /\ editor \in [Editor -> Forms]
      /\ reader \in [Reader -> Readings]
  BY DEF TweetInit, Tasks, Forms, Readings
<1> QED
  BY <1>1, <1>2, <1>3 DEF TweetInit, TweetTypeOK, Tasks, Forms, Readings

(* Types of the tweet's row, its copies, and of who writes and reads them.  *)
THEOREM TweetTypes == TweetSpec => []TweetTypeOK
BY TweetInitTypes, TweetTypeStep, PTL DEF TweetSpec

-----------------------------------------------------------------------------
(* Photos are there before the fan-out begins, and stay until the tweet is  *)
(* deleted; so whoever comes from a newsfeed finds the row and the photos.  *)
PhotosInv ==
  /\ photos => row # {}
  /\ request \in {"fan_out", "moderate", "respond", "answered"} => photos \/ deleted
  /\ fanned => photos \/ deleted
  /\ \A r \in Reader : reader[r].door = "newsfeed" => fanned

LEMMA PhotosInvStep ==
  TweetTypeOK /\ PhotosInv /\ [TweetNext]_tweetVars => PhotosInv'
<1> SUFFICES ASSUME TweetTypeOK, PhotosInv, [TweetNext]_tweetVars PROVE PhotosInv'
  OBVIOUS
<1>a. reader \in [Reader -> Readings]
  BY DEF TweetTypeOK, Readings
<1> USE DEF posting, stored, list, copies, Post, Forget, PhotosInv
<1>1. CASE PostStep \/ PostFails
  BY <1>1 DEF PostStep, Insert, Invalidate, PushTweetToCache, LPushTweet, CreatePhotosFromFiles,
              StartFanout,
              Moderate, Respond, PostFails
<1>2. CASE Count \/ Timeout \/ Expire \/ UNCHANGED tweetVars
  BY <1>2 DEF Count, Timeout, Expire, tweetVars
<1>3. ASSUME NEW t \in Moderation, TaskStep(t) PROVE PhotosInv'
  BY <1>3 DEF TaskStep, Ask, Find, UpdateStatus
<1>4. ASSUME NEW e \in Editor,
ShowForm(e) \/ CheckForm(e) \/ SaveStep(e) \/ EditFails(e) PROVE PhotosInv'
  BY <1>4 DEF ShowForm, SaveStep, CheckForm, SaveForm, PushForm, LPushForm, CommitForm, EditFails
<1>5. ASSUME NEW d \in Deleter, DeleteInvalidates(d) \/ Delete(d) PROVE PhotosInv'
  BY <1>5 DEF DeleteInvalidates, Delete
<1>6. ASSUME NEW r \in Reader, Get(r) \/ GetOrphan(r) \/ GetList(r) \/ ReadStep(r)
      PROVE  PhotosInv'
  <2>1. UNCHANGED <<request, fanned, row, photos, deleted>>
    BY <1>6 DEF Get, GetOrphan, GetList, ReadStep, Load, Fill, Install, Render
  <2>2. \A s \in Reader : reader'[s].door = "newsfeed" => reader[s].door = "newsfeed" \/ fanned
    BY <1>a, <1>6 DEF Get, GetOrphan, GetList, ReadStep, Load, Fill, Install, Render, Read, Readings
  <2> QED
    BY <2>1, <2>2
<1> QED
  BY <1>1, <1>2, <1>3, <1>4, <1>5, <1>6 DEF TweetNext

LEMMA WholeStep ==
  TweetTypeOK /\ PhotosInv /\ FannedOutWhole /\ [TweetNext]_tweetVars => FannedOutWhole'
<1> SUFFICES ASSUME TweetTypeOK, PhotosInv, FannedOutWhole, [TweetNext]_tweetVars,
                    NEW s \in Reader, reader'[s].door = "newsfeed",
                    reader'[s].at \in {"bare", "error"}
             PROVE  deleted'
  BY DEF FannedOutWhole
<1>a. reader \in [Reader -> Readings]
  BY DEF TweetTypeOK, Readings
<1>b. deleted => deleted'
  BY DEF TweetNext, PostStep, Insert, Invalidate, PushTweetToCache, LPushTweet,
         CreatePhotosFromFiles,
         StartFanout, Moderate, Respond, PostFails, TaskStep, Ask, Find, UpdateStatus, Count,
         ShowForm, SaveStep, CheckForm, SaveForm, PushForm, LPushForm, CommitForm, EditFails,
         DeleteInvalidates, Delete,
         Get, GetOrphan, GetList, ReadStep, Load, Fill, Install, Render, Timeout, Expire,
         posting, stored, tweetVars
<1>1. CASE reader'[s] = reader[s]
  BY <1>b, <1>1 DEF FannedOutWhole
<1>2. ASSUME NEW r \in Reader, Get(r) \/ GetOrphan(r) \/ GetList(r) \/ ReadStep(r),
             reader'[s] # reader[s]
      PROVE  deleted'
  <2>1. CASE GetOrphan(r)
    BY <2>1, <1>b DEF GetOrphan
  <2>2. CASE Get(r) \/ GetList(r) \/ Fill(r) \/ Install(r)
    BY <1>2, <1>a, <2>2 DEF Get, GetList, Fill, Install, Read, Readings, Shown
  <2>3. CASE Load(r) \/ Render(r)
    <3>1. s = r /\ reader[r].door = "newsfeed" /\ (row = {} \/ ~photos)
      BY <1>2, <1>a, <2>3 DEF Load, Render, Read, Readings
    <3> QED
      BY <1>b, <3>1 DEF PhotosInv
  <2> QED
    BY <1>2, <2>1, <2>2, <2>3 DEF ReadStep
<1> QED
  BY <1>1, <1>2 DEF TweetNext, PostStep, Insert, Invalidate, PushTweetToCache, LPushTweet,
         CreatePhotosFromFiles, StartFanout, Moderate, Respond, PostFails, TaskStep, Ask, Find,
         UpdateStatus, Count, ShowForm, SaveStep, CheckForm, SaveForm, PushForm, LPushForm,
         CommitForm, EditFails,
         DeleteInvalidates, Delete, Timeout, Expire, tweetVars

(* For any readers, tasks and admins, and whatever fails: who meets the     *)
(* tweet in a newsfeed gets it with its photos unless an admin deleted it.  *)
THEOREM NewsfeedShowsWhole == TweetSpec => []FannedOutWhole
<1>1. TweetInit => PhotosInv /\ FannedOutWhole
  BY DEF TweetInit, PhotosInv, FannedOutWhole
<1> QED
  BY <1>1, PhotosInvStep, WholeStep, TweetTypes, PTL DEF TweetSpec

-----------------------------------------------------------------------------
LEMMA LostStep == LostOnlyToForms /\ [TweetNext]_tweetVars => LostOnlyToForms'
<1> SUFFICES ASSUME LostOnlyToForms, [TweetNext]_tweetVars PROVE LostOnlyToForms'
  OBVIOUS
<1> USE DEF posting, stored, list, copies, LostOnlyToForms
<1>1. CASE PostStep \/ PostFails
  BY <1>1 DEF PostStep, Insert, Invalidate, PushTweetToCache, LPushTweet, CreatePhotosFromFiles,
              StartFanout,
              Moderate, Respond, PostFails
<1>2. CASE Count \/ Timeout \/ Expire \/ UNCHANGED tweetVars
  BY <1>2 DEF Count, Timeout, Expire, tweetVars
<1>3. ASSUME NEW t \in Moderation, TaskStep(t) PROVE LostOnlyToForms'
  BY <1>3 DEF TaskStep, Ask, Find, UpdateStatus
<1>4. ASSUME NEW e \in Editor,
ShowForm(e) \/ CheckForm(e) \/ SaveStep(e) \/ EditFails(e) PROVE LostOnlyToForms'
  BY <1>4 DEF ShowForm, SaveStep, CheckForm, SaveForm, PushForm, LPushForm, CommitForm, EditFails
<1>5. ASSUME NEW d \in Deleter, DeleteInvalidates(d) \/ Delete(d) PROVE LostOnlyToForms'
  BY <1>5 DEF DeleteInvalidates, Delete
<1>6. ASSUME NEW r \in Reader, Get(r) \/ GetOrphan(r) \/ GetList(r) \/ ReadStep(r)
      PROVE  LostOnlyToForms'
  BY <1>6 DEF Get, GetOrphan, GetList, ReadStep, Load, Fill, Install, Render
<1> QED
  BY <1>1, <1>2, <1>3, <1>4, <1>5, <1>6 DEF TweetNext

(* A committed verdict, count or edit is in the row as long as there is one,*)
(* or an admin's form, shown before it, was saved over it.                  *)
THEOREM OnlyFormsUndo == TweetSpec => []LostOnlyToForms
<1>1. TweetInit => LostOnlyToForms
  BY DEF TweetInit, LostOnlyToForms
<1> QED
  BY <1>1, LostStep, PTL DEF TweetSpec
-----------------------------------------------------------------------------
(* What a task, a form, a reader, memcached and the row itself hold was     *)
(* committed.  Only the author's list may show more: the change of a form   *)
(* that inserts a deleted tweet again is pushed by post_save before its     *)
(* COMMIT, and stays if that fails.                                         *)
Pending == {e \in Editor : editor[e].at \in {"commit", "failed"}}

CommittedOrPending ==
  /\ row \cup memo \cup overwritten \subseteq committed
  /\ \A t \in Moderation : task[t].found \subseteq committed
  /\ \A e \in Editor : editor[e].form \subseteq committed
  /\ \A r \in Reader : reader[r].copy \subseteq committed
  /\ entry \subseteq committed \cup Pending

(* Before the tweet is inserted nobody can have opened a form on it.        *)
BornInv ==
  /\ request = "insert" => row = {} /\ committed = {} /\ \A e \in Editor : editor[e].at = "open"
  /\ request # "insert" => "post" \in committed

LEMMA CommittedGrows ==
  ASSUME BornInv, [TweetNext]_tweetVars PROVE committed \subseteq committed'
<1> USE DEF posting, stored, list, copies, Post
<1>1. Insert => committed = {}
  BY DEF Insert, BornInv
<1> QED
  BY <1>1
     DEF TweetNext, PostStep, Insert, Invalidate, PushTweetToCache, LPushTweet,
         CreatePhotosFromFiles,
         StartFanout, Moderate, Respond, PostFails, TaskStep, Ask, Find, UpdateStatus, Count,
         ShowForm, SaveStep, CheckForm, SaveForm, PushForm, LPushForm, CommitForm, EditFails,
         DeleteInvalidates, Delete,
         Get, GetOrphan, GetList, ReadStep, Load, Fill, Install, Render, Timeout, Expire, tweetVars

LEMMA BornStep == TweetTypeOK /\ BornInv /\ [TweetNext]_tweetVars => BornInv'
<1> SUFFICES ASSUME TweetTypeOK, BornInv, [TweetNext]_tweetVars PROVE BornInv'
  OBVIOUS
<1> USE DEF posting, stored, list, copies, Post, Forget
<1>1. request' = "insert" => request = "insert" /\ ~Insert
  BY DEF TweetNext, PostStep, Insert, Invalidate, PushTweetToCache, LPushTweet,
         CreatePhotosFromFiles,
         StartFanout, Moderate, Respond, PostFails, TaskStep, Ask, Find, UpdateStatus, Count,
         ShowForm, SaveStep, CheckForm, SaveForm, PushForm, LPushForm, CommitForm, EditFails,
         DeleteInvalidates, Delete,
         Get, GetOrphan, GetList, ReadStep, Load, Fill, Install, Render, Timeout, Expire, tweetVars
<1>2. ASSUME request' = "insert" PROVE UNCHANGED <<row, committed, editor>>
  <2>1. row = {} /\ committed = {} /\ \A e \in Editor : editor[e].at = "open"
    BY <1>1, <1>2 DEF BornInv
  <2>2. request = "insert" /\ request' = "insert"
    BY <1>1, <1>2
  <2> QED
    BY <2>1, <2>2 DEF Edit, TweetNext, PostStep, Insert, Invalidate, PushTweetToCache, LPushTweet,
                      CreatePhotosFromFiles,
         StartFanout, Moderate, Respond, PostFails, TaskStep, Ask, Find, UpdateStatus, Count,
         ShowForm, SaveStep, CheckForm, SaveForm, PushForm, LPushForm, CommitForm, EditFails,
         DeleteInvalidates, Delete,
         Get, GetOrphan, GetList, ReadStep, Load, Fill, Install, Render, Timeout, Expire, tweetVars
<1>3. request = "insert" /\ request' # "insert" => "post" \in committed'
  BY DEF TweetNext, PostStep, Insert, Invalidate, PushTweetToCache, LPushTweet,
         CreatePhotosFromFiles,
         StartFanout, Moderate, Respond, PostFails, TaskStep, Ask, Find, UpdateStatus, Count,
         ShowForm, SaveStep, CheckForm, SaveForm, PushForm, LPushForm, CommitForm, EditFails,
         DeleteInvalidates, Delete,
         Get, GetOrphan, GetList, ReadStep, Load, Fill, Install, Render, Timeout, Expire, tweetVars
<1> QED
  BY <1>1, <1>2, <1>3, CommittedGrows DEF BornInv

LEMMA CopiesStep ==
  TweetTypeOK /\ BornInv /\ CommittedOrPending /\ [TweetNext]_tweetVars => CommittedOrPending'
<1> SUFFICES ASSUME TweetTypeOK, BornInv, CommittedOrPending, [TweetNext]_tweetVars
             PROVE  CommittedOrPending'
  OBVIOUS
<1>a. /\ task \in [Moderation -> Tasks] /\ editor \in [Editor -> Forms]
      /\ reader \in [Reader -> Readings]
  BY DEF TweetTypeOK, Tasks, Forms, Readings
<1>b. committed \subseteq committed'
  BY CommittedGrows
<1> USE DEF posting, stored, list, copies, Post, Forget, LPush, CommittedOrPending
<1>1. CASE PostStep \/ PostFails
  <2>1. row' \cup memo' \cup overwritten' \subseteq committed'
    BY <1>1, <1>b DEF PostStep, Insert, Invalidate, PushTweetToCache, LPushTweet,
                      CreatePhotosFromFiles,
                      StartFanout, Moderate, Respond, PostFails
  <2>2. UNCHANGED <<task, editor, reader>>
    BY <1>1 DEF PostStep, Insert, Invalidate, PushTweetToCache, LPushTweet, CreatePhotosFromFiles,
                StartFanout, Moderate, Respond, PostFails
  <2>3. CASE LPushTweet
    <3>1. entry' = {"post"}
      BY <2>3 DEF LPushTweet, LPush
    <3>2. "post" \in committed
      BY <2>3 DEF LPushTweet, BornInv
    <3> QED
      BY <1>b, <2>1, <2>2, <3>1, <3>2 DEF Pending
  <2>4. CASE ~LPushTweet
    <3>1. entry' = entry
      BY <1>1, <2>4 DEF PostStep, Insert, Invalidate, PushTweetToCache, CreatePhotosFromFiles,
                        StartFanout, Moderate, Respond, PostFails
    <3> QED
      BY <1>b, <2>1, <2>2, <3>1 DEF Pending
  <2> QED
    BY <2>3, <2>4
<1>2. CASE Count \/ Timeout \/ Expire \/ UNCHANGED tweetVars
  BY <1>b, <1>2 DEF Count, Timeout, Expire, tweetVars, Pending
<1>3. ASSUME NEW t \in Moderation, TaskStep(t) PROVE CommittedOrPending'
  <2>1. \A u \in Moderation : task'[u].found \subseteq committed
    BY <1>a, <1>3 DEF TaskStep, Ask, Find, UpdateStatus, Task, Tasks
  <2>2. row' \cup memo' \cup overwritten' \subseteq committed' /\ UNCHANGED <<entry, editor,
  reader>>
    BY <1>3, <1>b DEF TaskStep, Ask, Find, UpdateStatus
  <2> QED
    BY <1>b, <2>1, <2>2 DEF Pending
<1>4. ASSUME NEW e \in Editor, ShowForm(e) \/ CheckForm(e) \/ SaveStep(e) \/ EditFails(e)
      PROVE  CommittedOrPending'
  <2>1. editor[e].form \subseteq committed
    OBVIOUS
  <2>2. \A f \in Editor : editor'[f].form \subseteq committed
    BY <1>a, <1>4 DEF ShowForm, SaveStep, CheckForm, SaveForm, PushForm, LPushForm, CommitForm,
                      EditFails, Edit, Forms
  <2>3. row' \cup memo' \cup overwritten' \subseteq committed' /\ UNCHANGED <<task, reader>>
    BY <1>4, <1>b, <2>1 DEF ShowForm, SaveStep, CheckForm, SaveForm, PushForm, LPushForm,
                            CommitForm, EditFails
  <2>4. Pending \ committed' \subseteq Pending'
    BY <1>a, <1>4 DEF Pending, ShowForm, SaveStep, CheckForm, SaveForm, PushForm, LPushForm,
                      CommitForm, EditFails, Edit,
                      Forms
  <2>5. CASE LPushForm(e)
    <3>1. e \in Pending'
      BY <1>a, <2>5 DEF LPushForm, Edit, Forms, Pending
    <3>2. entry' \subseteq editor[e].form \cup {e}
      BY <2>5 DEF LPushForm, LPush
    <3> QED
      BY <1>b, <2>1, <2>2, <2>3, <2>4, <3>1, <3>2
  <2>6. CASE ~LPushForm(e)
    <3>1. entry' = entry
      BY <1>4, <2>6 DEF ShowForm, SaveStep, CheckForm, SaveForm, PushForm, CommitForm, EditFails
    <3> QED
      BY <1>b, <2>2, <2>3, <2>4, <3>1
  <2> QED
    BY <2>5, <2>6
<1>5. ASSUME NEW d \in Deleter, DeleteInvalidates(d) \/ Delete(d) PROVE CommittedOrPending'
  BY <1>5 DEF DeleteInvalidates, Delete, Pending
<1>6. ASSUME NEW r \in Reader, Get(r) \/ GetOrphan(r) \/ GetList(r) \/ ReadStep(r)
      PROVE  CommittedOrPending'
  <2>1. \A s \in Reader : reader'[s].copy \subseteq committed
    BY <1>a, <1>6 DEF Get, GetOrphan, GetList, ReadStep, Load, Fill, Install, Render, Read, Readings
  <2>2. reader[r].copy \subseteq committed
    OBVIOUS
  <2>3. /\ memo' \subseteq committed /\ entry' \subseteq committed \cup Pending
        /\ UNCHANGED <<row, overwritten, committed, task, editor>>
    BY <1>6, <2>2 DEF Get, GetOrphan, GetList, ReadStep, Load, Fill, Install, Render
  <2> QED
    BY <2>1, <2>3 DEF Pending
<1> QED
  BY <1>1, <1>2, <1>3, <1>4, <1>5, <1>6 DEF TweetNext

(* For any tasks, admins and readers: nobody holds or is shown a change of  *)
(* the tweet that was not committed, but from an author's list to which a   *)
(* form pushed the tweet that it was about to insert again.                 *)
THEOREM CopiesAreCommitted == TweetSpec => []CommittedOrPending
<1>1. TweetInit => BornInv /\ CommittedOrPending
  BY DEF TweetInit, BornInv, CommittedOrPending
<1> QED
  BY <1>1, BornStep, CopiesStep, TweetTypes, PTL DEF TweetSpec
=============================================================================
