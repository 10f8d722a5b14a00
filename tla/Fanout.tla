------------------------------- MODULE Fanout -------------------------------
(***************************************************************************)
(* The fan-out of one tweet to the newsfeeds of its author's followers     *)
(* (tweets/api/views.py create, newsfeeds/services.py, newsfeeds/tasks.py),*)
(* on MySQL: the web request, the Celery queues, and the workers.          *)
(*                                                                         *)
(* Tasks are acknowledged when a worker starts them, so a crash loses the  *)
(* task; a prefetched message that stays unacknowledged too long is        *)
(* delivered again, while its first delivery runs or has run.              *)
(***************************************************************************)
EXTENDS Integers, Sequences, FiniteSets

CONSTANTS User, Author,
          Worker,           \* Celery worker processes
          BatchSize,        \* FANOUT_BATCH_SIZE
          MaxFaults         \* bound on what goes wrong at the broker and in workers

ASSUME FanoutAssumption ==
  /\ Author \in User /\ IsFiniteSet(User)
  /\ BatchSize \in Nat \ {0} /\ MaxFaults \in Nat

VARIABLES post,       \* the web request: "save", "publish", "answered" or "failed"
          followers,  \* the users with a Friendship row to the author
          queue,      \* the messages at the broker
          job,        \* what each worker does
          feeds,      \* the users with a NewsFeed row for the tweet
          sent,       \* history: every message published
          audience,   \* history: the followers that a main task has read
          listed,     \* history: has a main task read them?
          faults      \* how often something went wrong

vars == <<post, followers, queue, job, feeds, sent, audience, listed, faults>>

Main == [task |-> "main", ids |-> <<>>]
Batch(ids) == [task |-> "batch", ids |-> ids]
Idle == [at |-> "idle", ids |-> <<>>]

Members(s) == {s[i] : i \in DOMAIN s}

(* The rows of a set of users in an order of the database's choice.         *)
Orders(S) == {s \in [1..Cardinality(S) -> S] : \A i, j \in DOMAIN s : s[i] = s[j] => i = j}

Init ==
  /\ post = "save"
  /\ followers \in SUBSET (User \ {Author})
  /\ queue = {}
  /\ job = [w \in Worker |-> Idle]
  /\ feeds = {}
  /\ sent = {}
  /\ audience = {}
  /\ listed = FALSE
  /\ faults = 0

-----------------------------------------------------------------------------
(* The web request: serializer.save(), then fanout_to_followers.            *)
Save ==
  /\ post = "save" /\ post' = "publish"
  /\ UNCHANGED <<followers, queue, job, feeds, sent, audience, listed, faults>>

FanoutToFollowers ==
  /\ post = "publish" /\ post' = "answered"
  /\ queue' = queue \cup {Main}
  /\ sent' = sent \cup {Main}
  /\ UNCHANGED <<followers, job, feeds, audience, listed, faults>>

Fault == faults < MaxFaults /\ faults' = faults + 1

(* The broker cannot be reached: .delay() raises, and the saved tweet stays.*)
PublishFails ==
  /\ Fault
  /\ post = "publish" /\ post' = "failed"
  /\ UNCHANGED <<followers, queue, job, feeds, sent, audience, listed>>

(* Nobody follows themselves: the serializer refuses it.                    *)
Follow(u) ==
  /\ u \in User \ (followers \cup {Author})
  /\ followers' = followers \cup {u}
  /\ UNCHANGED <<post, queue, job, feeds, sent, audience, listed, faults>>

Unfollow(u) ==
  /\ u \in followers
  /\ followers' = followers \ {u}
  /\ UNCHANGED <<post, queue, job, feeds, sent, audience, listed, faults>>

-----------------------------------------------------------------------------
(* Celery.                                                                  *)
Become(w, at, ids) == job' = [job EXCEPT ![w] = [at |-> at, ids |-> ids]]

Start(w) ==
  /\ job[w] = Idle
  /\ \E m \in queue :
       /\ queue' = queue \ {m}
       /\ Become(w, IF m.task = "main" THEN "create" ELSE "insert", m.ids)
  /\ UNCHANGED <<post, followers, feeds, sent, audience, listed, faults>>

Redeliver ==
  /\ Fault
  /\ \E m \in sent : queue' = queue \cup {m}
  /\ UNCHANGED <<post, followers, job, feeds, sent, audience, listed>>

Crash(w) ==
  /\ Fault
  /\ job[w] # Idle
  /\ job' = [job EXCEPT ![w] = Idle]
  /\ UNCHANGED <<post, followers, queue, feeds, sent, audience, listed>>

-----------------------------------------------------------------------------
(* fanout_newsfeeds_main_task                                               *)
Mutant_CreateAnyway(w) ==
  /\ job[w].at = "create"
  /\ Become(w, "list", <<>>) /\ feeds' = feeds \cup {Author}
  /\ UNCHANGED <<post, followers, queue, sent, audience, listed, faults>>

(* The author's own row comes first; if the unique (user, tweet) index      *)
(* refuses it, the IntegrityError ends the task before any batch is sent.   *)
CreateOwn(w) ==
  /\ job[w].at = "create"
  /\ IF Author \in feeds
     THEN Become(w, "idle", <<>>) /\ UNCHANGED feeds
     ELSE Become(w, "list", <<>>) /\ feeds' = feeds \cup {Author}
  /\ UNCHANGED <<post, followers, queue, sent, audience, listed, faults>>

ListFollowers(w) ==
  /\ job[w].at = "list"
  /\ \E ids \in Orders(followers) : Become(w, "send", ids)
  /\ audience' = followers
  /\ listed' = TRUE
  /\ UNCHANGED <<post, followers, queue, feeds, sent, faults>>

Shorter(m, n) == IF m < n THEN m ELSE n

Mutant_SendOneMore(w) ==
  /\ job[w].at = "send"
  /\ LET ids == job[w].ids
         n   == Shorter(BatchSize, Len(ids))
         top == Shorter(BatchSize + 1, Len(ids))
     IN  IF ids = <<>>
         THEN Become(w, "idle", <<>>) /\ UNCHANGED <<queue, sent>>
         ELSE /\ queue' = queue \cup {Batch(SubSeq(ids, 1, top))}
              /\ sent' = sent \cup {Batch(SubSeq(ids, 1, top))}
              /\ Become(w, "send", SubSeq(ids, n + 1, Len(ids)))
  /\ UNCHANGED <<post, followers, feeds, audience, listed, faults>>

Mutant_SendFullOnly(w) ==
  /\ job[w].at = "send"
  /\ LET ids == job[w].ids
         n   == Shorter(BatchSize, Len(ids))
     IN  IF Len(ids) < BatchSize
         THEN Become(w, "idle", <<>>) /\ UNCHANGED <<queue, sent>>
         ELSE /\ queue' = queue \cup {Batch(SubSeq(ids, 1, n))}
              /\ sent' = sent \cup {Batch(SubSeq(ids, 1, n))}
              /\ Become(w, "send", SubSeq(ids, n + 1, Len(ids)))
  /\ UNCHANGED <<post, followers, feeds, audience, listed, faults>>

(* One round of the while loop: the next BatchSize ids become a batch task. *)
SendBatch(w) ==
  /\ job[w].at = "send"
  /\ LET ids == job[w].ids
         n   == Shorter(BatchSize, Len(ids))
     IN  IF ids = <<>>
         THEN Become(w, "idle", <<>>) /\ UNCHANGED <<queue, sent>>
         ELSE /\ queue' = queue \cup {Batch(SubSeq(ids, 1, n))}
              /\ sent' = sent \cup {Batch(SubSeq(ids, 1, n))}
              /\ Become(w, "send", SubSeq(ids, n + 1, Len(ids)))
  /\ UNCHANGED <<post, followers, feeds, audience, listed, faults>>

-----------------------------------------------------------------------------
(* fanout_newsfeeds_batch_task: bulk_create is one INSERT, all or nothing;  *)
(* a row that exists already makes it fail.                                 *)
Mutant_InsertOneByOne(w) ==
  /\ job[w].at = "insert"
  /\ LET ids == job[w].ids
     IN  IF ids = <<>> \/ Head(ids) \in feeds
         THEN Become(w, "idle", <<>>) /\ UNCHANGED feeds
         ELSE feeds' = feeds \cup {Head(ids)} /\ Become(w, "insert", Tail(ids))
  /\ UNCHANGED <<post, followers, queue, sent, audience, listed, faults>>

BulkCreate(w) ==
  /\ job[w].at = "insert"
  /\ LET new == Members(job[w].ids)
     IN  feeds' = IF new \cap feeds = {} THEN feeds \cup new ELSE feeds
  /\ Become(w, "idle", <<>>)
  /\ UNCHANGED <<post, followers, queue, sent, audience, listed, faults>>

-----------------------------------------------------------------------------
Request == Save \/ FanoutToFollowers

Work(w) ==
  Start(w) \/ CreateOwn(w) \/ ListFollowers(w) \/ SendBatch(w) \/ BulkCreate(w)

Next ==
  \/ Request \/ PublishFails \/ Redeliver
  \/ \E u \in User : Follow(u) \/ Unfollow(u)
  \/ \E w \in Worker : Work(w) \/ Crash(w)

Spec == Init /\ [][Next]_vars

(* The web server runs the request and idle Celery workers take tasks.      *)
FairSpec == Spec /\ WF_vars(Request) /\ \A w \in Worker : WF_vars(Work(w))

-----------------------------------------------------------------------------
TypeOK ==
  /\ post \in {"save", "publish", "answered", "failed"}
  /\ followers \in SUBSET (User \ {Author})
  /\ sent \subseteq [task : {"main", "batch"}, ids : Seq(User \ {Author})]
  /\ queue \subseteq sent
  /\ job \in [Worker -> [at : {"idle", "create", "list", "send", "insert"},
                         ids : Seq(User \ {Author})]]
  /\ feeds \in SUBSET User
  /\ audience \in SUBSET (User \ {Author})
  /\ listed \in BOOLEAN
  /\ faults \in 0..MaxFaults

(* newsfeeds/tasks.py:34 "the author's newsfeed first": nobody has the tweet*)
(* before its author, whatever is redelivered, lost or reordered.           *)
AuthorFirst == feeds = {} \/ Author \in feeds

(* However often the main task is delivered, the tweet fans out once: the   *)
(* batches sent never name a follower twice, nor one still to be sent.      *)
SentBatches == {m \in sent : m.task = "batch"}

FannedOutOnce ==
  /\ \A m, n \in SentBatches : m # n => Members(m.ids) \cap Members(n.ids) = {}
  /\ \A w \in Worker, m \in SentBatches :
       job[w].at = "send" => Members(m.ids) \cap Members(job[w].ids) = {}

(* A batch is delivered as a whole or not at all, also when it is delivered *)
(* twice or its worker crashes.                                             *)
BatchAllOrNothing ==
  \A m \in SentBatches : Members(m.ids) \subseteq feeds \/ Members(m.ids) \cap feeds = {}

(* Unless something goes wrong, every follower that the main task reads, and*)
(* the author, eventually have the tweet in their newsfeed.                 *)
EveryoneGetsIt == [](faults = 0) => <>(listed /\ feeds = audience \cup {Author})

(* The fan-out is a FeedDelivery.                                           *)
Delivery ==
  INSTANCE FeedDelivery
  WITH phase <- IF listed THEN "out" ELSE IF Author \in feeds THEN "own" ELSE "new"

ImplementsDelivery == Delivery!Spec
=============================================================================
