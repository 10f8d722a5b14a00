# A TLA+ model of chirp-backend

chirp-backend is a Django service in the style of Twitter: tweets, newsfeeds,
follows, likes, comments, notifications.  Its data is in MySQL (with HBase as an
alternative for newsfeeds and friendships), its caches are Redis (lists and
counters) and memcached (objects and sets), and Celery workers deliver new tweets
to newsfeeds.  Several web and worker processes run every operation at once, in
autocommit mode, and almost everything that is hard about the program is in the
order in which their database statements and cache commands interleave.  That is
what these modules model.

Paths below are relative to the repository.

## 1. Inventory

| Part | State | Operations | Hard because |
|---|---|---|---|
| Redis lists of newsfeeds and tweets (`utils/redis_helper.py`) | one Redis list per user, its expiry, its lock | `load_objects` (hit, or rebuild under a lock), `push_objects` (hot keys only) | every command is its own step; pushes do not take the lock; keys and locks expire; Redis fails |
| Pagination (`utils/paginations.py`, list views) | none; the client holds a `created_at` cursor | scroll (`created_at__lt`), pull (`created_at__gt`), over the list or the database | the list changes between requests, and a page may come from the other source |
| Like counter (`likes/`) | `Like` rows, `tweets.likes_count`, a Redis key | like, cancel, `get_count` | three copies of one number; a transaction that Redis does not take part in |
| Comment counter (`comments/`) | `Comment` rows, `tweets.comments_count`, a Redis key | create, update, destroy, `get_count` | create is not a transaction, `save()` may INSERT again |
| Fan-out (`tweets/api/views.py`, `newsfeeds/tasks.py`) | Celery queues, workers, `NewsFeed` rows | create tweet, main task, batch task | early acknowledgement, redelivery, followers that come and go |
| Friendships on MySQL (`friendships/`) | `Friendship` rows, a memcached set per user | follow, unfollow, `has_followed`, `get_following_user_id_set`, followers, followings | decisions taken on a cached set; invalidation before COMMIT |
| Friendships on HBase | two tables with mirrored row keys | as above | no transaction, no unique index |
| HBase object mapping (`django_hbase/`) | none | row keys, put, get, delete, scan | order and uniqueness of encoded keys |
| GateKeeper (`gatekeeper/`) | a Redis hash per switch | `is_switch_on`, `turn_on`, `in_gk` | asked again in every operation; fails to "off" |
| Object cache (`utils/memcached_helper.py`) | memcached copies of tweets, users, profiles | get through cache, invalidate | read-repopulate races |
| Newsfeeds on MySQL and on HBase (`newsfeeds/services.py`) | a table of each kind, one Redis list for both | deliver, push, load, page | every step asks the switch again, and objects, times and cursors are of one kind |
| Tweets, photos, moderation (`tweets/`) | `Tweet`, `TweetPhoto` rows, copies in memcached and in lists | create, retrieve, list, `moderate_tweet`, the admin's change form and delete page | two tables without a transaction; UPDATE past the caches; a form writes back what it has shown |
| Notifications (`inbox/`) | `Notification` rows | notify, mark one, mark all, numbered pages | a page is two queries, and rows shift under it |
| Accounts (`accounts/`) | `User`, `UserProfile` rows, copies in memcached | signup, login, profile | check-then-create; load-then-save |
| Rate limits, permissions, request checks | the counters of django-ratelimit | decorators | nothing of this program's own |

How they interact: creating a tweet INSERTs the row (a `post_save` listener pushes
it onto the author's tweet list) and publishes the main task.  That task creates
the author's newsfeed row, reads the followers from the friendship service, and
publishes batch tasks, which create the followers' rows.  Each new newsfeed row is
pushed onto a Redis list.  Newsfeed and tweet requests read the lists through the
pagination; rendering a tweet reads the counters and the object cache.  Likes and
comments reach the counters through `post_save` and `pre_delete` listeners.

What makes each part correct:

* lists: nothing uncommitted, two snapshots never mixed, bounded length, no lost or
  repeated rows, rebuilds one at a time, nobody waits forever;
* pagination: a client that scrolls gets every row once, and gets to the end;
* counters: the column equals the rows, the cache equals the column or has a reason
  not to, one notification per like, no deadlock;
* fan-out: the author first, every follower once, batches as a whole;
* friendships: one row per pair, no follow that was never made is seen, stale sets
  do not last;
* HBase: both tables agree but for requests that are halfway, an answered follow is
  stored, whichever way the switch points; a client that scrolls gets every row once;
* newsfeeds on two stores: requests fail only when the switch has answered both ways,
  and the list can be read again once it rests;
* tweets: nobody meets a tweet without its photos in a newsfeed, nothing but a form
  undoes a verdict or a count, stale copies do not last;
* notifications: what a walk through the pages misses or repeats has a reason;
* accounts and object cache: a profile for every user, no value lost but to an
  overlapping PATCH, stale copies do not last.

The hazards behind these, each at its line, are listed in `PROJECT.json`.

## 2. Modules

| Module | Models | Extends / uses |
|---|---|---|
| `RowOrder` | rows ordered by `created_at`, `order_by('-created_at')[:n]`, LTRIM | - |
| `ListCache` | one cached list: writers, readers, lock, Redis | `RowOrder` |
| `Timeline` | a client that scrolls and pulls over that list | `RowOrder` |
| `RedisCounter` | the Redis commands on a counter key | - |
| `LikeCount` | like and cancel requests, the tweet's row lock, viewers | `RedisCounter` |
| `CommentCount` | create, edit and delete requests, viewers | `RedisCounter` |
| `FeedDelivery` | what a fan-out promises: the abstract specification | - |
| `Fanout` | web request, broker, workers; implements `FeedDelivery` | `FeedDelivery` by INSTANCE |
| `FollowCache` | follow and unfollow requests, the memcached set | - |
| `FeedStores` | one newsfeed on MySQL and HBase while the switch turns: deliveries, list, clients | `RowOrder` |
| `HBaseFollow` | follow and unfollow on two HBase tables, the switch to and from MySQL | - |
| `HBasePages` | a client that scrolls the followings meanwhile | `HBaseFollow` |
| `HBaseKeys` | row keys digit by digit, and the server's scans over them | - |
| `HBaseScans` | the encoded keys under the rows of `HBasePages` | `HBasePages`, `HBaseKeys` |
| `Tweets` | the post of a tweet, moderation, the admin's pages, the copies, the readers | - |
| `Inbox` | notifications that come and are marked, a client on numbered pages | - |
| `Accounts` | signup, login, profile PATCH, users and profiles through memcached | - |
| `ListCacheProofs`, `TimelineProofs`, `LikeCountProofs`, `CommentCountProofs`, `FanoutProofs`, `FollowCacheProofs`, `HBaseFollowProofs`, `AccountsProofs` | theorems with proofs | their module, `TLAPS`; `FanoutProofs` is also about `Tweets`, `HBaseFollowProofs` about `HBasePages`, `HBaseScans` and `FeedStores`, `AccountsProofs` about `Inbox` |
| `MC...` | the values of constants for TLC | their module |

Definitions named `Mutant_...` stand next to an action and are not part of the
specification: each is the action with a plausible mistake, and `PROJECT.json`
names the property that tells it from the original.

### ListCache

One action per Redis command and per database access.  A writer goes `Insert`
(autocommit), `PushExists`, `LPush`, `LTrim`; a reader `Exists` and `LRange`, or
`Exists`, `Acquire`, `Recheck` and then `ReLRange`, or `Snapshot` (the query),
`Install` (one MULTI/EXEC pipeline), `Unlock`.  `wpc` and `rpc` say where each
process is.  `PushFails` and `LoadFails` are the `except RedisError` branches, a
lock that was lost while it was held (LockNotOwnedError) is one of them; `Crash`
ends a process; `Expire` and `LockTimeout` are Redis.  An empty list is a missing
key, as in Redis.  `LazyLoad(S)` is the set of answers the query may give, since
rows of equal `created_at` come in any order.

Two history variables, `expired` and `overrun`, say whether the key has expired or
a rebuild has outlived its lock (`Steady` is neither).  Three properties hold only
until then, and this is a fact about the code: after it, a rebuild may replace a
list that pushes have extended, and a push may start a list of its own.

### Timeline

`Timeline` looks at the same list from one client, which comes (`Start`) at any moment of
the list's life and finds whatever pushes and rebuilds have left there.  LPUSH with its
LTRIM is one step, and so are EXISTS and LRANGE of a hit (what expires between those is the
subject of `ListCache`); no rebuild outlives its lock, or has an LPUSH land before its EXEC;
all other readers are one, `OtherSnapshot` and `OtherInstall`.  What `ListCache` says of
pushes is kept as far as it decides what a list lacks.  `PushSkipped` is a push that found
the key cold or Redis failing, also while a list without the row is being loaded.
`PushAnew` is an LPUSH whose EXISTS came before the key expired (`writer[x] = "late"`): it
makes a list of one row, which has no expiry (`anew`) and passes for everything there is.
`unpushed` are the rows that the list lacks because their push was skipped or lost, and
`Settled` all others whose writer is done: those a client that comes must get (`due`).

`ServeFrom` is `paginate_cached_list` for a scroll: the page is cut out of the list at the
cursor, and when it is the last one of a full list the same page is taken from the database
(`PageFromDatabase`, a step of its own).  `ServePull` is the `created_at__gt` branch.
`overtaken` records the listed or settled rows that an older one was pushed after: the cut at
the cursor goes by `created_at` and takes the list to be sorted, so a scroll may miss them.
The rows that a list made anew lacks count as `overtaken` too.  Besides these and rows of
equal `created_at` a scroll misses no settled row.

Facts the models brought out: a row whose push finds the key cold, or fails, while a
rebuild that has not read it is about to install a short list is hidden from every scroll
until the key expires, because `paginate_cached_list` takes a list below the limit for the
whole (`utils/paginations.py:94`); `docs/database/design/consistency.txt:201-205` and the
comment at `utils/redis_helper.py:81` hold that the rebuild is complete.  A push that makes
the key anew hides all older rows, and for good, since nothing expires then.
`created_at__gt` never falls back to the database, so more than REDIS_LIST_LENGTH_LIMIT new
rows are silently cut (the comment at `utils/paginations.py:88` says it returns all the
newest rows); a row that is cached twice can push a due row off a full list, which is why
`NothingMissedByPull` excepts a full page; a late push followed by LTRIM may keep an old row
and drop a newer one.  That a row is cached twice at all is a schedule of `ListCache`: it is
committed, a reader's rebuild takes it in, and its own push then finds the key hot
(`utils/redis_helper.py:74`; `docs/database/design/consistency.txt:203,205` holds that
the lock rules this out, but pushes do not take it).  `NeverSpliced` says what remains:
one snapshot, and each pushed row once in front of it.

### RedisCounter, LikeCount, CommentCount

A counter key is `hot`, has a `value`, and may carry an expiry (`ttl`).  INCR on a
key that has expired since EXISTS makes one without expiry, as in Redis.

`LikeCount`: `Get` and `Insert` are the two halves of `get_or_create`.  The INSERT,
the UPDATE with `F()` and the Redis command happen in one transaction, which keeps
the tweet's row (`row`) from `Update` to `Commit`, where its effects become visible.
`Select` is the query of `QuerySet.delete()`, which comes before the transaction and
collects Like rows (`collected`); `pre_delete` then decrements the count and changes Redis,
and only after that `Delete` deletes the collected rows by primary key.  A Like row has an
identity (the request that made it), so that a cancel deletes what it collected and not
what a later like has put there.  `LockedBy` are the Like rows that a transaction has
inserted or deleted: an `Insert` waits for those of its user (the unique index), a `Delete`
for those it collected.  So a like locks its Like row and then the tweet's row, a cancel the
tweet's row and then a Like row: opposite orders, and yet no cycle (`WritersReturn`,
`NoLockCycle`), because a cancel can only have collected a row that was committed, never that
of a like which still waits for the tweet's row.  Only these exclusive locks are modelled;
the shared lock of a duplicate check and gap locks, which are InnoDB's own, are not, and a
transaction that MySQL rolls back as the victim of a deadlock is a `Crash`.

Two cancels may collect the same row, and both decrement (`likes/api/serializers.py:76`):
the UPDATE with `F()` is atomic, as `docs/database/design/consistency.txt:83` says, but
nothing ties it to a DELETE that finds a row.  Such a cancel ends as "vain", and
`CountLagsByVain` says that these make up the whole difference.  `suspect` records
whether a request may have left Redis behind.

`CommentCount`: a create is three separate steps (INSERT, UPDATE, Redis) because no
transaction surrounds them; a delete is a transaction as above; an edit is a SELECT
and a `save()`, whose INSERT fallback is `Save`'s else-branch.  A `Delete` that finds no
row, because another request has deleted the comment in between, ends as "vain": its
`pre_delete` has decremented the count all the same.  `raced` collects the requests that
were open (past their UPDATE, or past a cold GET, and not yet done) at the same time as
another; `DriftBounded` counts those and no others.  The shared lock that
a comment's INSERT takes on its tweet's row (the foreign key) is left out: it only
removes interleavings.

### FeedDelivery, Fanout

`Fanout` follows one tweet: `Save`, `FanoutToFollowers` (or `PublishFails`), then
workers that `Start` a message, `CreateOwn`, `ListFollowers` and `SendBatch` once
per round of the loop, or `BulkCreate`.  A task is acknowledged when it starts
(Celery's default, which the settings keep), so `Crash` loses it; `Redeliver` puts
any published message back, which the Redis broker does after its visibility timeout.
The unique index on (user, tweet) makes a second `CreateOwn` or `BulkCreate` fail.
Follows and unfollows go on meanwhile.  The refinement maps `phase` to "out" once
the followers are read, "own" once the author has the row, and "new" before.

### FollowCache

The set of one user, on either backend.  A follow is a read of the set (`Get`, `Load`,
`Fill`), a write, and a second read for rendering the response.  On MySQL the write is
an `Insert` that the unique index may refuse and `Invalidate` from `post_save`; on HBase
(`hbase`) `InvalidateBeforePut` comes first, since `save()` drops the set before it puts
(`friendships/models/hbase_friendship.py:21`), and no index refuses the `Put`, so that a
row is named by the request that wrote it (`by`).  An unfollow is `Select` (all rows on
MySQL, one of them on HBase), `InvalidateFirst` and `Delete`.  Viewers read again and
again.

Facts the model brought out: of two follows at once that both miss the target in the
set, the second gets an IntegrityError and its client a 500 (`friendships/services.py:101`;
the comment at `friendships/api/views.py:68` speaks of a silent answer for a repeated
follow); on HBase both write a row, and an unfollow then deletes one of the two.

### HBaseFollow, HBasePages

A friendship is a row of `HBaseFollowing`, whose key encodes (fan, created_at), and
a row of `HBaseFollower`, whose key encodes (idol, created_at); a row of the model
has all three fields, and two rows have one key when `SameFollowingKey` or
`SameFollowerKey` says so.  A follow goes `HasFollowed`, then `Insert` (MySQL) or
`Stamp`, `PutFollower`, `PutFollowing`; an unfollow `Select`, `DeleteRow` (MySQL) or
`Find`, `DeleteFollowing`, `DeleteFollower`.  A put replaces the row under its key.
`Asked` is what `is_switch_on` may answer: the switch, or off, because a Redis
failure reads as off.  `HasFollowed` answers anything: the cached set may be stale in
any way, so nothing shown here relies on it, and a pair may be followed twice.
`clock` counts microseconds and may stand still, so that keys can clash.

`HBasePages` adds one client of `/followings`: `Home`, `Scroll` while there is a next
page, `Pull`; it leaves when the switch reads as off.  `FollowMeanwhile` is every step of
the others; a row they delete is no longer one the client must get (`there`), also when a
row is put again under its key.  A scan is the set of rows in
its range, cut to the newest `limit` of them.

Facts the model brought out: with the switch turned on, an unfollow of a pair that
is only in MySQL answers 0 and deletes nothing, which is why `AcknowledgedIsStored`
speaks of storage and not of unfollowing; a crash between the two puts leaves a
follower who receives tweets of somebody he does not follow, and a retry stores a
second row under a new key instead of repairing the first.

### HBaseKeys, HBaseScans

`HBaseKeys` builds a row key as `serialize_row_key` does: the id padded to `Width`
digits and reversed, a colon, and the time, which is neither padded nor reversed.
`Before` is the order of bytes, `ScanPrefix`, `ScanDown` and `ScanUp` are what
`table.scan` does with the arguments that `filter` gives it.  `HBaseScans` puts these keys
under the rows of `HBasePages` and states as `ScansAgree`, in every state, that each scan
`paginate_hbase` makes at the client's cursor finds what the set of rows says.  It relies,
in `ScanAssumption`, on ids of at most `Width` digits, for a longer one is not cut (an
`AutoField` has ten), and on times that have all one number of digits and come before
MAX_TIMESTAMP (`Epoch`), as they do from 2001 until 2286.

### FeedStores

One user's newsfeed and `switch_newsfeed_to_hbase`.  `Publish` is the moment when
`fanout_to_followers` asks the switch and fixes the kind of `created_at`; a delivery goes
`AskStore`, `Write`, `PushExists`, `LPush`.  A client goes `AskSerializer`, then `Hit`, or
`Miss`, `Load` and `Install`, and `Page`, perhaps with `PageFromDatabase`.  Each of them
asks the switch by itself; `answers` records what it has answered.  A kind, "mysql" or
"hbase", marks rows, list entries, times and cursors, and wherever the code takes one for
the other it raises: deserializing, serializing, comparing times, querying.

Facts the model brought out: a turn of the switch makes every hot list unreadable until
its key expires, and for good if a push has made the key just after it had expired,
since LPUSH gives a new key no expiry (`raced`; `anew` in `Timeline`, `remade` in `Tweets`); deliveries under way when the switch
turns fail on a `created_at` of the other kind and are not retried; a Redis failure while
the switch is on reads as "off" and does all this without any turn.  Each tweet has
a row of its own here: that two of one microsecond have one row key in HBase is modelled for
friendships only (`HBaseFollow`).

### Tweets

One tweet.  A row is the set of the changes it carries ("post", "count", "verdict" and one
for each admin's form), so that an UPDATE of one column and a save of all of them can be told
apart; {} is no row.  The post request is a chain of steps without a transaction
(`Insert`, `Invalidate`, `PushTweetToCache`, `CreatePhotosFromFiles`, `StartFanout`,
`Moderate`, `Respond`) and may die between any two.  The moderation task is `Ask`, `Find`,
`UpdateStatus`, and Celery may deliver it again.  An admin's form is `ShowForm`,
`CheckForm`, `SaveForm`, `CommitForm`, a delete page `DeleteInvalidates` and `Delete`.
Readers come through the tweet's own page, a newsfeed, or the author's list.  A push to that
list is EXISTS (`PushTweetToCache`, `PushForm`) and LPUSH (`LPushTweet`, `LPushForm`); a key
that expires in between is made anew without an expiry (`expires`, `remade`).

Facts the model brought out: a post that dies before its photos leaves a tweet that its
page and its author's list show without them for good; a verdict reaches neither
memcached nor the lists until they expire, and never a list that a push has made anew; an admin's form puts back the verdict and the
counts it was shown, and inserts a tweet that was deleted meanwhile; deleting a tweet
leaves newsfeed rows with no tweet (SET_NULL), which makes the whole page of every
follower who has one fail.

### Inbox

The notifications of one user, newest first, and a client that walks the numbered pages of
the list, or of `?unread=true` or `?unread=false`.  A page is `CountRows` and `SelectRows`;
Django cuts the last page's slice at the COUNT (`Slice`).  The list is ordered by timestamp
alone, and timestamps are taken to differ.  `Notify`, `Update`
and `MarkAllAsRead` come between.  `entered`, `left` and `torn` record what rows did to the
filtered list meanwhile.  A row is its id; its `Place` is the number of listed rows from it
on, so a page is the rows of some places.  A fact the model brought out: a notification that comes between
the COUNT and the SELECT of the last page pushes a row past the end, and no link leads to it.

### Accounts

The rows `user` and `profile` of each signup, and memcached's copies.  A row is the
set of the logins and patches whose values it carries, so that a lost update shows.
A signup is `CheckName`, `CheckMail`, `CreateUser` (which the unique index on the name
may refuse), `Forget` from `post_save`, then `user.profile` through the cache (`Get`,
`Load`, `CreateProfile`, `Fill`) and `LogIn`, which saves `last_login`.  A PATCH is
`LookUp` (the row, never the cache), perhaps `CreateProfile`, `Save`, `Forget`.  A
viewer reads user and profile again and again and creates a missing profile.
`CreateProfile` is the INSERT of `get_or_create`; its `post_save` drops the copy before
the INSERT commits.  `knew` is a history variable: who was there when a request looked.

## 3. Runs

| Run | Instance | Shows |
|---|---|---|
| `list` | 2 writers, 2 readers, limit 2, all faults | invariants of the cached list, `WaitersReturn` |
| `like_count` | 2 likes and 2 cancels of one user, 1 viewer, all faults | column, cache, notification, termination |
| `comment_count` | 1 create, 1 edit, 2 deletes of one comment, 1 viewer, all faults | column, cache |
| `comment_edit` | 1 edit, 1 delete | an edit brings a deleted comment back and counts it |
| `fanout` | author, 3 users, 2 workers, batches of 2, 2 faults | delivery, refinement of `FeedDelivery`, termination |
| `follow_cache` | 2 follows and an unfollow of one user, 1 viewer, either backend, faults | the set, one row, staleness ends |
| `timeline` | 4 rows (two of one `created_at`), limit 2, pages of 1, faults | every settled row once, the scroll ends |
| `hbase_pages` | 2 fans, 2 idols, 2 follows, an unfollow, up to 2 old rows, 2 microseconds, pages of 1, faults | the two tables, acknowledged follows, encoded keys, every row once |
| `accounts` | 2 signups, a login, 2 patches of one profile, a viewer, faults, in six scenes | shared mails, lost patches, a profile for every signup, staleness ends |
| `tweets` | 1 post, 1 moderation task, 1 change form, 1 delete page, 1 reader, faults | whole tweets in newsfeeds, lost changes, staleness ends |
| `feeds` | 2 tweets in 3 deliveries, 1 client, limit 3, 2 turns or failures | errors, copies, the list is readable again |
| `inbox` | 4 notifications and one that is the user's own, pages of 2 | what a walk misses or repeats |

`comment_edit` checks a claim that the code does not keep, and TLC's counterexample is the
schedule; `PROJECT.json` quotes the claim under "findings".

### The properties in short

* `NeverSpliced`: the list, and every answer, is pushes of distinct objects in front
  of at most one ordered snapshot, in every state, with every fault.
* `LengthBounded`: the overshoot is at most the pushes that have not trimmed.
* `RebuildSerialized`, `HitIsNotEmpty`, `MissingIsExplained`: the lock and the double
  check do their work until a rebuild outlives its lock (and, for the last two, the key
  expires).
* `CountLagsByVain`, `CountLagsByUncounted`: the column and the rows.  Of what likes and
  comments themselves do, a cancel that raced with another, a second delete of one comment,
  and a crash between a comment's INSERT and its UPDATE are exactly what makes them differ
  for good.  An admin's form for the tweet, which writes back the counts it has shown, does
  so too; that is in `Tweets` (`LostOnlyToForms`), and no admin takes part in these modules.
* `DriftIsExplained`, `DriftBounded`: the cached number and the column.
* `NotifiedOnce`, `FannedOutOnce`, `BatchAllOrNothing`, `CreatedOnce`:
  duplicates and retries do no harm.
* `NothingInvented`, `StaleEnds`: what a stale set or copy may and may not say.
* `FollowingsAreFollowers`, `LoneFollowersExplained`: the two HBase tables, row by row.
* `AcknowledgedIsStored`: an answered follow is in one of the stores.
* `ScansAgree`: the encoded keys and the scans over them are the rows and their order.
* `ErrorsNeedTwoAnswers`, `ListReadable`, `CopiesBounded`: what a turn of the switch, and
  a tweet delivered again, may do to a newsfeed and its list.
* `FannedOutWhole`, `LostOnlyToForms`: what a post that fails, and writers of one tweet
  that race, may leave.
* `PagesShiftOnlyByWrites`: what numbered pages may do, and which writes it takes.
* `MailSharedOnlyByOverlap`, `LostOnlyToOverlap`: what check-then-create and
  load-then-save may do wrong, and that it takes two requests at once.
* `SignedUpHasProfile`: `get_or_create` from many places.
* `NothingSkipped`, `NoRepeat`, `NothingMissedByPull`, `ScrollEnds`: what a client
  sees of a list that moves.

### Bounds, and why they are enough

Every race above is between two processes of one kind, or one of each, on one key;
each run has two of every kind that can race with its like, and one of the rest.
Limits are small so that LTRIM, the seam between list and database, a partial batch
and an empty page all occur: limit 2 with two pushes on a list of up to two rows,
limit 2 with 4 rows and pages of 1 (so that the list fills up and is trimmed, and a scroll
takes pages from it and then from the database; the safety properties are theorems for any
limit and page size), batches of 2 with up to 3 followers.  `MaxFaults`
bounds the faults of `Fanout`: two suffice for a redelivery of the main task
together with one of a batch, or a crash.  `LastTime` bounds the clock of
`HBaseFollow`: it gives two microseconds to two follows, so that their keys may or may
not clash, and the old rows have times of their own; with pages of 1, three rows
make every page but the last a seam.  `Accounts` is run scene by scene, since signups,
logins and patches of one user meet only in the rows and in memcached: each scene has
the requests that race with each other, and a viewer who races with all.  `FollowCache` has both requests of a pair and the other target in the
set from the start or never, on each backend.  `Tweets` has one of everybody: two forms, or a
form and a verdict, relate as a form and a count do, and a task that is delivered again only
repeats its UPDATE (`FannedOutWhole` and `LostOnlyToForms` are theorems for any number of
deliveries).  `FeedStores` delivers one tweet twice and another once,
with `MaxTurns` of 2, enough for the switch to turn and turn back, or to turn and be
misread.  `Inbox` has up to three pages of 2, so that there is a first, a middle and a
last one.  `HBaseKeys` has ids 1 and 21, the first of which would begin the second in
reverse but for the padding, `Width` 3, and times from 95 to 98, all of two digits as real ones are all of 16.

Requests run once; viewers of `FollowCache` and `Accounts` run forever.  Runs stop when
all requests have ended, so deadlock is not checked; that waiting requests do end is a
property of its own where they can wait for each other (`WaitersReturn`, `WritersReturn`).

## 4. Fairness

Only steps that the platform takes by itself are fair: a process that has begun
a request goes on with it (gunicorn and Celery run it; redis-py polls the lock every
0.1 s; MySQL grants a free lock to a waiting transaction), idle Celery workers take
messages, Redis drops a lock after its timeout, memcached drops a set after its
TIMEOUT, and every copy of `Accounts` and `Tweets` likewise, and in `Tweets` and
`FeedStores`, whose subject are entries that only go with the list, Redis drops a list that carries an
expiry.  A list that a push has made anew carries none and stays: `StaleEnds` of `Tweets` and
`ListReadable` except it.

Not fair, since no property relies on them: writers in `ListCache`, in `Timeline` all other steps, in all modules the faults, and elsewhere the expiry of list and
counter keys.  Nobody need turn a switch, open or send an admin's form, read, or deliver a
message again.  `CommentCount`, `HBasePages` and `Inbox` state safety only and assume no
fairness at all.

Weak fairness per process is enough, since nothing a fair step needs is taken away
infinitely often: each run has finitely many requests.  In `Timeline` strong
fairness is on the client's step as a whole, and weak fairness on `OtherInstall`.  The client
may have to wait for the lock while another reader loads, and polls it.  To miss the list
and the lock again and again it would need lists that expire, after their week, just
between two polls.  The finitely many new rows of a run cannot keep the client busy, since
its cursor only moves to earlier times.

## 5. Proofs

All theorems hold for every value of the constants that meets the ASSUMEs of the
modules: any finite set of objects or requests, any limit, any `created_at`.

* `ListCacheProofs`: types; then for each property an inductive invariant.
  `OnlyCommitted` needs that a writer past INSERT has its row committed.
  `NeverSpliced` needs which pushes are still to come: `ListShape(s, ...)` says that
  the pushed prefix holds only objects whose writers have pushed, so that a new push
  cannot repeat one of them, and that what a reader is about to install is one
  ordered snapshot.  `LengthBounded` counts untrimmed writers, with finite
  cardinality lemmas for one writer entering or leaving.  `RebuildSerialized` is
  `LockInv`: a reader in its critical section holds the lock.  `MissingIsExplained`,
  `HitIsNotEmpty` and `InstallsOnCold` come from `SteadyInv`: while steady, between
  the double check and the installation the key is cold, so that every writer that
  commits after the snapshot will find it so, or find the installed list.
* `LikeCountProofs`: `CountLagsByVain` needs that requests under way are apart (`Apart`): a
  user has one row at most, likes under way are of users without a row and at most one per
  user (the unique index), and a cancel under way has collected one row.
  `DriftIsExplained` needs that at most one transaction holds the tweet's row and
  that the counter, if nobody is suspected, is what this transaction will commit or
  the column.  `NotifiedOnce` needs that a like which was made has its row, or a cancel that
  had collected this row has deleted it (`MadeKnown`).  `NoLockCycle` is that a cancel about
  to DELETE does not wait: a row it has collected was committed (`SeenEnded`), and so is of
  no like under way, and another cancel cannot have deleted it and not yet committed, since
  it would hold the tweet's row too.
* `FollowCacheProofs`: `NothingInvented`, on both backends, by `Known` users, those with a
  row or an unfollow that has come through, which only grow, because an unfollow takes
  rows of its own target only; `CreatedOnce`, on MySQL, because who inserted is known
  since, and the backend stays.
* `CommentCountProofs`: `OutcomeOfStep` reduces each step to what it does to rows, count
  and the requests behind (not counted, or deleted in vain); `CountLagsByUncounted` is
  then arithmetic on finite cardinalities.  `Fresh` is the strengthening: a comment that
  is still to be created has no row and no edit about to save it.  `DriftBounded` by
  `DriftInv`: the error of the key, and of what each request has read for a SET, is the
  number of requests that are in it once too often less those that are not in it (`Off`);
  before the first SET only requests under way are (`NotSet`), after it the last to SET is
  not (`SetBy`), and every request in error that is done was open together with it (`MetBy`).
  So both are in `raced`, and the bound is one less than its size.
* `FanoutProofs`: `AuthorFirst` by `OwnFirst`: before the author's row nothing but the
  main task is at the broker or in a worker.  `FannedOutOnce` and `BatchAllOrNothing`
  need the whole life of the main task.  `MainInv`: at most one worker is past the author's row,
  because a second one is refused it.  `RestInv`: the ids it has still to send are apart
  from each other, have no newsfeed row yet, and are in no batch sent.  `BatchInv`:
  batches are disjoint parts of the audience of at most BatchSize, and whoever inserts one
  inserts a batch that was sent.  `CutInTwo` is the fact on sequences that a round
  of the loop rests on.  With the same invariant `StepDelivers` maps each step to one of
  `FeedDelivery`, or to none: `DeliversAsSpecified`.
* `TimelineProofs`: `NoRepeat` by `OrderInv`: while nothing is `overtaken` the list and every
  snapshot are ordered, and all rows shown are at least as new as the last row of the page.
  So what follows the first older row of an ordered list is older than all of them
  (`StartingFacts`, `ServeOrder`), as is every row of the database page.  That the loops
  find their first index uses the well-foundedness of the natural numbers.
  `NothingSkipped` by `SkipInv`: the list that is there, or the one being loaded into a cold key
  (`HoldInv`), *holds* each settled row that is not overtaken, that is, only newer rows are before it, or the list is full of newer ones
  (`Holds`); a rebuild gives such a list (`RowsHold`), a push in order keeps it so
  (`PushHolds`), and a page cut from it has the row or ends at a newer one, with a next
  page (`AnswerLeavesAhead`, `PageLeavesAhead`).  A row leaves `Settled` only by being overtaken (`SettledStays`).  `NothingMissedByPull` by
  `PullInv`: while pushes come in order a hot list keeps each settled row, or is full of rows
  as new (`Keeps`).
* `AccountsProofs`: a signup past its mail check knows of nobody with that mail
  (`MailInv`); memcached only has rows that exist, and a signup comes to its login when
  the profile is there (`ProfileInv`); a patch about to save carries every saved patch it
  knows of, but for those that were lost before (`PatchInv`).
* `HBaseFollowProofs`: the tables are compared row by row, and the invariant says where
  rows come from (`OriginInv`): a row is an old one, or one follow has stamped it, and
  it is in the followings, or found by an unfollow, only if that follow has been
  answered.  So two rows of one key are of two requests of one time (`SameKeyIsClash`),
  and an unfollow cannot delete the row of a follow that is still between its puts
  (`FoundIsAnswered`).  `BetweenInv` says what a request knows there: a follow between
  its puts has its follower row, an unfollow between its deletes has no following row.
  `TablesStep` and `RequestsStep` sum up, for one step, what may leave or enter the
  tables at whose hands, and the three properties follow from them by cases on one row.
  The theorems speak of `FollowSpec`; `PagesImplementFollow` carries them over to
  `HBasePages`.  For the pages, `RowsInv` says that the followings are finite, with one row
  per key and none of the future, and `PagesInv` that every row the client still lacks is
  older than all it has.  That rests on two facts about a scan: no row above its cut is
  left out (`NewestUpward`), and a scan that is not full has them all (`NewestAll`).
* `HBaseKeys` and `HBaseScans`, in `HBaseFollowProofs`: `ScansAgree`, for any ids, times and
  rows.  A text *says* n (`Writes`) if its digits are the last ones of n; padding
  keeps what is said, and `int` reads it back (`NumberRead`).  Of two texts of one length,
  the one that says less has the smaller digit where they first differ
  (`SortsAsNumbers`), and bytes compare by that digit alone (`FirstDifference`).  Times
  have one length, so the keys of a user sort by time (`OwnKeysSort`).  Ids have one
  length and differ (`IdsApart`), so a key of another user is on the same side of every key of this
  one and of the bare id (`OthersKeys`): the scans meet no row of others.  The cut by a
  limit carries over because keys and rows are equally many (`KeysCount`).  Induction over
  digits is by the least index at which a claim fails (`LeastTime`), and that the
  recursive function `Ten` exists is proved with it (`TenFacts`).
* `Tweets`, in `FanoutProofs`: `FannedOutWhole` by `PhotosInv`: from the fan-out
  on, and readers from a newsfeed come only then, the photos are there unless the tweet was
  deleted.  `LostOnlyToForms` is inductive by itself: an UPDATE of one column keeps the others,
  and the save of a form notes what it overwrites.  `CommittedOrPending`
  says that no copy is made up: what a task, form, reader or memcached holds was committed;
  the author's list alone may have more, the change of a form that puts a deleted tweet
  back, which post_save pushes before the COMMIT.  It needs `BornInv`: nobody has a form on a
  tweet before it is inserted.
* `FeedStores`, in `HBaseFollowProofs`: `ErrorsNeedTwoAnswers` by `KindsInv`: the
  stamps, entries, serializers and cursors in use are of kinds that the switch has answered, so
  that whoever failed has met both (`Sound`).  `ForeverByRace`: a list without an expiry was made by a push between EXISTS and
  LPUSH.  `CopiesBounded` by `PassedInv`: of the deliveries of one tweet to MySQL one gets past
  the insertion; and `CopiesInv`: until that one has pushed the list has the tweet at most once,
  afterwards at most twice, and what a client is about to install has each entry once.
* `Inbox`, in `AccountsProofs`: with k rows behind the page that comes next, a row that was shown
  is among the first k unless one has entered (`ShownIsBehind`), and a row among the first k
  that ought to be shown was shown unless one has left (`DueIsShown`).  A row that enters
  moves places up, one that leaves moves them down, and nothing else does (`PlacesGrow`).
  `CountIsGood` says when a COUNT may be too small or too large, and `FullPages` that a page with
  a next one is not cut by it.

Model-checked only: all liveness properties (`WaitersReturn`, `WritersReturn`,
`EveryoneGetsIt`, `StaleEnds`, `ScrollEnds`, `ListReadable`), which are out of the prover's
reach.  Every other property of a passing run is a theorem.  `OnlyCommitted`,
`InstallsOnCold`, `AuthorFirst`, `CommittedOrPending`, `ForeverByRace` and the type
invariants are proved and left out of the runs.

## 6. Not modelled, and plan

Written so far, in the order of their importance: `ListCache`, the counters,
`Fanout`, `FollowCache`, `Timeline`, `HBaseFollow` with `HBasePages`, `Accounts`,
`Tweets`, `FeedStores`, `HBaseKeys`, `Inbox`.  What could come next:

1. `Timeline` on the two stores of `FeedStores`: a scroll whose cursor survives a turn
   of the switch, if the code is changed to allow it.

Not modelled, because there is no state of this program's own in it: the `created_at__gt`
query of `paginate_queryset` (reached only by follower lists on MySQL, one plain query),
the list of users, `unread-count`, `likes` of comments (no counter goes with them),
passwords, sessions and logout, which are Django's, rate limiting, which django-ratelimit
counts in its own cache, `in_gk`, which nothing calls, and create_table and drop_table of
the HBase models, which only tests call.

Three writers of the admin site are left out although they write to modelled rows.
`accounts/admin.py:8-23` has forms for profiles and users that write back all they have shown:
they undo a PATCH as the tweet's form undoes a verdict, which `LostOnlyToOverlap` of
`Accounts` says only of the API's own requests.  `tweets/admin.py:12` edits and deletes single
photos, after which a tweet is shown with fewer; `FannedOutWhole` is about the post and the
deletion of the tweet.  Deleting an author sets `user` of his tweets to NULL, after which
`cached_user` raises when a newsfeed with one of them is rendered.

Left out for good: serialization formats but for what tells the stores apart, rendering,
request validation that touches no shared state, S3 storage, deployment files, tests,
migrations and seed scripts.  The settings are taken up where they matter: expiry times as
`Expire` and `Timeout`, REDIS_LIST_LENGTH_LIMIT as `Limit`, FANOUT_BATCH_SIZE as
`BatchSize`, PAGE_SIZE as `PageSize`, `ignore_exc` as `MemcachedFails`.
