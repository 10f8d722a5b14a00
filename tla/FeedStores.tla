----------------------------- MODULE FeedStores -----------------------------
(***************************************************************************)
(* One user's newsfeed while switch_newsfeed_to_hbase turns: its rows in   *)
(* MySQL and in HBase, its cached list, the deliveries that write both, and*)
(* the clients that scroll it (newsfeeds, utils/redis_helper.py,           *)
(* utils/redis_serializers.py, gatekeeper).                                *)
(*                                                                         *)
(* Every operation asks the switch by itself, one delivery or one page     *)
(* several times, and what MySQL's and HBase's objects, cached entries,    *)
(* times and cursors share is nothing: each is read only as its own kind.  *)
(* Which row a page begins at is Timeline's subject, a lost task Fanout's. *)
(* Each tweet has a row of its own: that two of one microsecond share a key*)
(* in HBase, and the second put replaces the first, is HBaseFollow's.      *)
(***************************************************************************)
EXTENDS RowOrder

CONSTANTS Tweet,                \* the tweets this feed is to get
          Delivery, TweetOf,    \* the deliveries of the tasks that write its rows
          Client,
          Limit,                \* REDIS_LIST_LENGTH_LIMIT
          MaxTurns              \* bound on turns, misreadings and Redis failures

ASSUME DeliveryAssumption == TweetOf \in [Delivery -> Tweet]
ASSUME BoundAssumption == Limit \in Nat \ {0} /\ MaxTurns \in Nat

VARIABLES hbaseOn,   \* is the switch at 100 percent?
          left,      \* how many turns and failures are still to come at most
          answers,   \* history: what is_switch_on has answered, as kinds
          rows,      \* per kind: the tweets with a row
          list,      \* the Redis list: entries with their tweet and kind
          expires,   \* does its key carry an expiry?
          raced,     \* history: has a push made the key, without one?
          stamp,     \* the kind of each tweet's published created_at
          delivery,  \* the next step of each delivery
          client     \* each client's request: its next step and what it holds

switch == <<hbaseOn, left, answers>>
cache == <<list, expires, raced>>
feedVars == <<switch, rows, cache, stamp, delivery, client>>

Kind == {"mysql", "hbase"}
Selected == IF hbaseOn THEN "hbase" ELSE "mysql"

Entry(t, kind) == [tweet |-> t, kind |-> kind]
Kinds(s) == {s[i].kind : i \in DOMAIN s}

(* What lazy_load_newsfeeds may return from one store.                      *)
LazyLoad(kind) ==
  {[i \in DOMAIN s |-> Entry(s[i], kind)] : s \in NewestRows(rows[kind], Limit)}

(* A request: the kind it read the list as, and the kind of its cursor.     *)
Start(cursor) == [at |-> "ask", serializer |-> "none", objects |-> <<>>, cursor |-> cursor]

FeedInit ==
  /\ hbaseOn \in BOOLEAN /\ left = MaxTurns /\ answers = {}
  /\ rows = [kind \in Kind |-> {}]
  /\ list = <<>> /\ expires = FALSE /\ raced = FALSE
  /\ stamp = [t \in Tweet |-> "none"]
  /\ delivery = [d \in Delivery |-> "queued"]
  /\ client = [c \in Client |-> Start("none")]

-----------------------------------------------------------------------------
(* GateKeeper.is_switch_on; that Redis cannot be read means off.            *)
Asks(kind) ==
  /\ \/ kind = Selected /\ UNCHANGED left
     \/ kind = "mysql" /\ hbaseOn /\ left > 0 /\ left' = left - 1
  /\ answers' = answers \cup {kind}
  /\ UNCHANGED hbaseOn

Turn ==
  /\ left > 0 /\ left' = left - 1
  /\ hbaseOn' = ~hbaseOn
  /\ UNCHANGED <<answers, rows, cache, stamp, delivery, client>>

-----------------------------------------------------------------------------
(* fanout_to_followers asks for the kind of created_at, the task for the    *)
(* store; a time of the other kind fits neither the DateTimeField nor the   *)
(* row key, and the task fails.                                             *)
Publish(t) ==
  /\ stamp[t] = "none"
  /\ \E kind \in Kind : Asks(kind) /\ stamp' = [stamp EXCEPT ![t] = kind]
  /\ UNCHANGED <<rows, cache, delivery, client>>

Deliver(d, here, next) == delivery[d] = here /\ delivery' = [delivery EXCEPT ![d] = next]

AskStore(d) ==
  /\ stamp[TweetOf[d]] # "none"
  /\ \E kind \in Kind :
       Asks(kind) /\ Deliver(d, "queued", IF kind = stamp[TweetOf[d]] THEN "write" ELSE "failed")
  /\ UNCHANGED <<rows, cache, stamp, client>>

InsertRow(t, kind) == rows' = [rows EXCEPT ![kind] = @ \cup {t}]

Mutant_IgnoreConflicts(d) ==
  LET t == TweetOf[d] IN
  /\ Deliver(d, "write", "exists") /\ InsertRow(t, stamp[t])
  /\ UNCHANGED <<switch, cache, stamp, client>>

(* MySQL's unique (user, tweet) refuses a tweet that is delivered again; a  *)
(* put in HBase replaces the row, and the delivery goes on.                 *)
Write(d) ==
  LET t == TweetOf[d] IN
  /\ \/ /\ stamp[t] = "mysql" /\ t \in rows["mysql"]
        /\ Deliver(d, "write", "refused") /\ UNCHANGED rows
     \/ /\ ~(stamp[t] = "mysql" /\ t \in rows["mysql"])
        /\ Deliver(d, "write", "exists") /\ InsertRow(t, stamp[t])
  /\ UNCHANGED <<switch, cache, stamp, client>>

(* push_objects: the object's own class picks the serializer.               *)
PushExists(d) ==
  /\ Deliver(d, "exists", IF list # <<>> THEN "lpush" ELSE "done")
  /\ UNCHANGED <<switch, rows, cache, stamp, client>>

LPush(d) ==
  /\ Deliver(d, "lpush", "done")
  /\ list' = Keep(<<Entry(TweetOf[d], stamp[TweetOf[d]])>> \o list, Limit)
  /\ raced' = (raced \/ list = <<>>)
  /\ UNCHANGED <<switch, rows, expires, stamp, client>>

-----------------------------------------------------------------------------
(* get_cached_newsfeeds and load_objects.  The lock lets one client rebuild.*)
Become(c, req) == client' = [client EXCEPT ![c] = req]
At(c, here, next) == client[c].at = here /\ Become(c, [client[c] EXCEPT !.at = next])

Answers(c, objects) ==
  Become(c, [client[c] EXCEPT !.at = "page", !.objects = objects, !.serializer = "none"])

Fails(c) == Become(c, [Start("none") EXCEPT !.at = "error"])

Rebuilding(c) == client[c].at \in {"load", "install"}

Mutant_DefaultSerializer(c) ==
  /\ client[c].at = "ask"
  /\ Become(c, [client[c] EXCEPT !.at = "exists", !.serializer = "mysql"])
  /\ UNCHANGED <<switch, rows, cache, stamp, delivery>>

AskSerializer(c) ==
  /\ client[c].at = "ask"
  /\ \E kind \in Kind :
       Asks(kind) /\ Become(c, [client[c] EXCEPT !.at = "exists", !.serializer = kind])
  /\ UNCHANGED <<rows, cache, stamp, delivery>>

(* Either deserializer raises on an entry of the other kind.                *)
Hit(c) ==
  /\ client[c].at = "exists" /\ list # <<>>
  /\ IF Kinds(list) \subseteq {client[c].serializer} THEN Answers(c, list) ELSE Fails(c)
  /\ UNCHANGED <<switch, rows, cache, stamp, delivery>>

Miss(c) ==
  /\ list = <<>> /\ \A other \in Client : ~Rebuilding(other)
  /\ At(c, "exists", "load")
  /\ UNCHANGED <<switch, rows, cache, stamp, delivery>>

(* lazy_load_newsfeeds asks again: the store may be the other one by now.   *)
Load(c) ==
  /\ \E kind \in Kind : \E objects \in LazyLoad(kind) :
       /\ Asks(kind)
       /\ \/ /\ client[c].at = "load"
             /\ Become(c, [client[c] EXCEPT !.at = "install", !.objects = objects])
          \/ client[c].at = "load_only" /\ Answers(c, objects)
  /\ UNCHANGED <<rows, cache, stamp, delivery>>

Mutant_InstallForever(c) ==
  /\ client[c].at = "install" /\ Answers(c, client[c].objects)
  /\ list' = client[c].objects /\ expires' = FALSE
  /\ UNCHANGED <<switch, rows, raced, stamp, delivery>>

(* Either serializer raises on an object of the other kind, before anything *)
(* is sent to Redis.                                                        *)
Install(c) ==
  /\ client[c].at = "install"
  /\ IF Kinds(client[c].objects) \subseteq {client[c].serializer}
     THEN /\ Answers(c, client[c].objects)
          /\ list' = client[c].objects /\ expires' = (list' # <<>>)
     ELSE Fails(c) /\ UNCHANGED <<list, expires>>
  /\ UNCHANGED <<switch, rows, raced, stamp, delivery>>

(* A RedisError sends load_objects to the database, without a serializer.   *)
RedisFails(c) ==
  /\ left > 0 /\ left' = left - 1
  /\ client[c].at \in {"exists", "load", "install"}
  /\ Become(c, [Start(client[c].cursor) EXCEPT !.at = "load_only"])
  /\ UNCHANGED <<hbaseOn, answers, rows, cache, stamp, delivery>>

-----------------------------------------------------------------------------
(* NewsFeedViewSet.list: times of different kinds cannot be compared, and a *)
(* full list may not reach as far as the cursor.                            *)
Page(c) ==
  LET kinds  == Kinds(client[c].objects)
      cursor == client[c].cursor
  IN
  /\ client[c].at = "page"
  /\ \/ cursor # "none" /\ ~(kinds \subseteq {cursor}) /\ Fails(c)
     \/ /\ cursor = "none" \/ kinds \subseteq {cursor}
        /\ \/ \E kind \in kinds : Become(c, Start(kind))
           \/ kinds = {} /\ Become(c, Start("none"))
           \/ cursor # "none" /\ Len(client[c].objects) >= Limit
              /\ Become(c, [Start(cursor) EXCEPT !.at = "database"])
  /\ UNCHANGED <<switch, rows, cache, stamp, delivery>>

(* Neither store takes a cursor of the other kind.                          *)
PageFromDatabase(c) ==
  /\ client[c].at = "database"
  /\ \E kind \in Kind :
       /\ Asks(kind)
       /\ IF kind = client[c].cursor THEN Become(c, Start(kind)) ELSE Fails(c)
  /\ UNCHANGED <<rows, cache, stamp, delivery>>

(* The client begins again at the top.                                      *)
Refresh(c) ==
  /\ \/ client[c].at = "error"
     \/ client[c].at = "ask" /\ client[c].cursor # "none"
  /\ Become(c, Start("none"))
  /\ UNCHANGED <<switch, rows, cache, stamp, delivery>>

Expire ==
  /\ list # <<>> /\ expires
  /\ list' = <<>> /\ expires' = FALSE
  /\ UNCHANGED <<switch, rows, raced, stamp, delivery, client>>

-----------------------------------------------------------------------------
DeliveryStep(d) == AskStore(d) \/ Write(d) \/ PushExists(d) \/ LPush(d)
ClientStep(c) ==
  \/ AskSerializer(c) \/ Hit(c) \/ Miss(c) \/ Load(c) \/ Install(c)
  \/ Page(c) \/ PageFromDatabase(c) \/ Refresh(c)

FeedNext ==
  \/ Turn
  \/ \E t \in Tweet : Publish(t)
  \/ \E d \in Delivery : DeliveryStep(d)
  \/ \E c \in Client : ClientStep(c) \/ RedisFails(c)
  \/ Expire

FeedSpec == FeedInit /\ [][FeedNext]_feedVars

(* Celery's workers go on with what is queued, clients with their requests, *)
(* and Redis expires what is to expire.  Nobody need turn the switch.       *)
FeedFairSpec ==
  /\ FeedSpec
  /\ WF_feedVars(Expire)
  /\ \A d \in Delivery : WF_feedVars(DeliveryStep(d))
  /\ \A c \in Client : WF_feedVars(ClientStep(c))

-----------------------------------------------------------------------------
(* No client gets an error and no delivery fails as long as is_switch_on    *)
(* has always answered the same: only a turn, or a Redis failure taken for  *)
(* "off" while the switch is on, lets the kinds meet.                       *)
ErrorsNeedTwoAnswers ==
  (\E d \in Delivery : delivery[d] = "failed") \/ (\E c \in Client : client[c].at = "error")
    => answers = Kind

(* Once the switch rests, the feed's clients can read its list again, after *)
(* one expiry of the entries of the other kind at most; unless a push made  *)
(* the key just after it had expired, which then never expires.             *)
ListReadable == []~raced => <>[](Kinds(list) \subseteq {Selected})

(* A tweet delivered again does not pile up in the list while its rows are  *)
(* MySQL's: it is there once from a rebuild and once from a push, at most.  *)
CopiesBounded ==
  \A t \in Tweet : Cardinality({i \in DOMAIN list : list[i] = Entry(t, "mysql")}) <= 2
=============================================================================
