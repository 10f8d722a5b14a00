------------------------------- MODULE Tweets -------------------------------
(***************************************************************************)
(* One tweet with photos: the request that posts it, the moderation task,  *)
(* the admin forms that change or delete it, and the copies of its row that*)
(* memcached and the list of its author's tweets keep (tweets, utils).     *)
(*                                                                         *)
(* A row, and a copy of it, is the set of the changes it carries: {} is no *)
(* row, no copy.  The list has other tweets too; those, its length and its *)
(* lock are ListCache's subject, the newsfeeds Fanout's.                   *)
(***************************************************************************)
EXTENDS FiniteSets

CONSTANTS Moderation,       \* the deliveries of the moderation task
          Editor, Deleter,  \* admins with a change form, and with a delete page
          Reader,           \* requests that show the tweet
          Faults            \* may processes die, and services be out of reach?

ASSUME FaultsAssumption == Faults \in BOOLEAN
ASSUME AdminAssumption == Editor \cap {"post", "count", "verdict"} = {}

VARIABLES request,      \* what the request that posts the tweet does next
          row, photos,  \* the row in MySQL, and are its photos there?
          fanned,       \* has the tweet been handed to the fan-out?
          asked,        \* has it been handed to the moderation?
          memo,         \* memcached's copy
          hot, entry,   \* is the author's list in Redis, and the copy in it
          expires,      \* does its key have an expiry?
          task,         \* per delivery: the next step and the copy it found
          editor,       \* per change form: the next step and the copy it holds
          deleter,      \* per delete page: the next step
          reader,       \* per reader: its door, its next step, its copy
          committed,    \* history: the changes that were committed
          overwritten,  \* history: those that a form wrote over
          deleted,      \* history: was the row ever deleted?
          remade        \* history: was the list made by a push, after an expiry?

posting == <<request, fanned, asked>>
stored == <<row, photos, committed, overwritten, deleted>>
list == <<hot, entry, expires, remade>>
copies == <<memo, list>>
tweetVars == <<posting, stored, copies, task, editor, deleter, reader>>

Change == {"post", "count", "verdict"} \cup Editor
Door == {"tweet", "newsfeed", "tweets"}    \* the three endpoints that show it

TweetInit ==
  /\ request = "insert" /\ fanned = FALSE /\ asked = FALSE
  /\ row = {} /\ photos = FALSE
  /\ committed = {} /\ overwritten = {} /\ deleted = FALSE
  /\ memo = {} /\ entry = {}
  /\ hot \in BOOLEAN /\ expires \in {FALSE, hot} /\ remade = (hot /\ ~ expires)
  /\ task = [t \in Moderation |-> [at |-> "ask", found |-> {}]]
  /\ editor = [e \in Editor |-> [at |-> "open", form |-> {}]]
  /\ deleter = [d \in Deleter |-> "confirm"]
  /\ reader = [r \in Reader |-> [door |-> "none", at |-> "get", copy |-> {}]]

Forget == memo' = {} /\ UNCHANGED list

(* push_objects: a key that EXISTS gets an LPUSH.  Without the key, or      *)
(* without Redis (at either command), nothing is pushed.                    *)
MayPush == hot
MaySkip == ~ hot \/ Faults

(* LPUSH makes the key anew if it has expired since, and then nothing gives *)
(* it an expiry.                                                            *)
LPush(copy) ==
  /\ hot' = TRUE /\ entry' = copy
  /\ remade' = (remade \/ ~ hot)
  /\ UNCHANGED <<memo, expires>>

(* An admin's transaction that has written the row keeps it locked.         *)
Unlocked == \A e \in Editor : editor[e].at \notin {"exists", "lpush", "commit"}

-----------------------------------------------------------------------------
(* The POST request: TweetSerializerForCreate.create, without a transaction *)
(* around it, then fan-out, moderation, and the answer.                     *)
Post(here, next) == request = here /\ request' = next

Insert ==
  /\ Post("insert", "invalidate")
  /\ row' = {"post"} /\ committed' = {"post"}
  /\ UNCHANGED <<fanned, asked, photos, overwritten, deleted, copies, task, editor, deleter, reader>>

Invalidate ==
  /\ Post("invalidate", "push")
  /\ Forget
  /\ UNCHANGED <<fanned, asked, stored, task, editor, deleter, reader>>

PushTweetToCache ==
  /\ \/ MayPush /\ Post("push", "lpush")
     \/ MaySkip /\ Post("push", "photos")
  /\ UNCHANGED <<fanned, asked, stored, copies, task, editor, deleter, reader>>

Mutant_PushFansOut ==
  /\ Post("lpush", "photos")
  /\ LPush({"post"}) /\ fanned' = TRUE
  /\ UNCHANGED <<asked, stored, task, editor, deleter, reader>>

LPushTweet ==
  /\ Post("lpush", "photos")
  /\ LPush({"post"})
  /\ UNCHANGED <<fanned, asked, stored, task, editor, deleter, reader>>

(* bulk_create is all or nothing; without the tweet the foreign key refuses.*)
CreatePhotosFromFiles ==
  /\ \/ row # {} /\ Post("photos", "fan_out") /\ photos' = TRUE
     \/ row = {} /\ Post("photos", "failed") /\ UNCHANGED photos
  /\ UNCHANGED <<fanned, asked, row, committed, overwritten, deleted, copies,
                 task, editor, deleter, reader>>

StartFanout ==
  /\ Post("fan_out", "moderate")
  /\ fanned' = TRUE
  /\ UNCHANGED <<asked, stored, copies, task, editor, deleter, reader>>

Moderate ==
  /\ Post("moderate", "respond")
  /\ asked' = TRUE
  /\ UNCHANGED <<fanned, stored, copies, task, editor, deleter, reader>>

(* Rendering needs the row only while a counter's key is cold.              *)
Respond ==
  /\ \/ Post("respond", "answered")
     \/ Post("respond", "failed") /\ row = {}
  /\ UNCHANGED <<fanned, asked, stored, copies, task, editor, deleter, reader>>

(* The process dies, or the file storage or the broker cannot be reached.   *)
PostFails ==
  /\ Faults
  /\ request \in {"invalidate", "push", "lpush", "photos", "fan_out", "moderate", "respond"}
  /\ request' = "failed"
  /\ UNCHANGED <<fanned, asked, stored, copies, task, editor, deleter, reader>>

-----------------------------------------------------------------------------
(* moderate_tweet, which Celery may deliver again.  No failure is retried.  *)
Task(t, here, next) ==
  task[t].at = here /\ task' = [task EXCEPT ![t] = [at |-> next, found |-> {}]]

Ask(t) ==
  /\ asked
  /\ \/ Task(t, "ask", "find")
     \/ Faults /\ Task(t, "ask", "done")    \* no verdict, or switched off
  /\ UNCHANGED <<posting, stored, copies, editor, deleter, reader>>

Find(t) ==
  /\ task[t].at = "find"
  /\ task' = [task EXCEPT ![t] = [at |-> IF row = {} THEN "done" ELSE "update", found |-> row]]
  /\ UNCHANGED <<posting, stored, copies, editor, deleter, reader>>

Mutant_SaveFound(t) ==
  /\ Unlocked /\ Task(t, "update", "done")
  /\ row' = IF row = {} THEN {} ELSE task[t].found \cup {"verdict"}
  /\ committed' = committed \cup {"verdict"}
  /\ UNCHANGED <<posting, photos, overwritten, deleted, copies, editor, deleter, reader>>

(* QuerySet.update: one column, and no signal, so that no copy goes.        *)
UpdateStatus(t) ==
  /\ Unlocked /\ Task(t, "update", "done")
  /\ row' = IF row = {} THEN {} ELSE row \cup {"verdict"}
  /\ committed' = IF row = {} THEN committed ELSE committed \cup {"verdict"}
  /\ UNCHANGED <<posting, photos, overwritten, deleted, copies, editor, deleter, reader>>

(* A like or a comment counts itself the same way.                          *)
Count ==
  /\ Unlocked /\ row # {} /\ "count" \notin committed
  /\ row' = row \cup {"count"} /\ committed' = committed \cup {"count"}
  /\ UNCHANGED <<posting, photos, overwritten, deleted, copies, task, editor, deleter, reader>>

-----------------------------------------------------------------------------
(* The change form of TweetAdmin: shown, sent back, checked, and saved with *)
(* all its columns in a transaction; post_save comes before the COMMIT.     *)
Edit(e, here, next, form) ==
  editor[e].at = here /\ editor' = [editor EXCEPT ![e] = [at |-> next, form |-> form]]

ShowForm(e) ==
  /\ row # {} /\ Edit(e, "open", "check", row)
  /\ UNCHANGED <<posting, stored, copies, task, deleter, reader>>

CheckForm(e) ==
  /\ \/ row = {} /\ Edit(e, "check", "gone", {})
     \/ row # {} /\ Edit(e, "check", "save", editor[e].form)
  /\ UNCHANGED <<posting, stored, copies, task, deleter, reader>>

(* save() inserts the row again if it has been deleted since the check, and *)
(* the listener pushes it like a new one.                                   *)
SaveForm(e) ==
  /\ Unlocked /\ Edit(e, "save", IF row = {} THEN "exists" ELSE "commit", editor[e].form)
  /\ Forget
  /\ UNCHANGED <<posting, stored, task, deleter, reader>>

PushForm(e) ==
  /\ \/ MayPush /\ Edit(e, "exists", "lpush", editor[e].form)
     \/ MaySkip /\ Edit(e, "exists", "commit", editor[e].form)
  /\ UNCHANGED <<posting, stored, copies, task, deleter, reader>>

LPushForm(e) ==
  /\ Edit(e, "lpush", "commit", editor[e].form)
  /\ LPush(editor[e].form \cup {e})
  /\ UNCHANGED <<posting, stored, task, deleter, reader>>

CommitForm(e) ==
  /\ Edit(e, "commit", "saved", {})
  /\ row' = editor[e].form \cup {e}
  /\ committed' = committed \cup {e}
  /\ overwritten' = overwritten \cup (committed \ editor[e].form)
  /\ UNCHANGED <<posting, photos, deleted, copies, task, deleter, reader>>

EditFails(e) ==
  /\ Faults
  /\ \E here \in {"exists", "lpush", "commit"} : Edit(e, here, "failed", {})
  /\ UNCHANGED <<posting, stored, copies, task, deleter, reader>>

(* The delete page: pre_delete, then photos and newsfeeds lose their tweet  *)
(* (SET_NULL), then the DELETE and the COMMIT.                              *)
DeleteInvalidates(d) ==
  /\ deleter[d] = "confirm" /\ row # {}
  /\ deleter' = [deleter EXCEPT ![d] = "delete"]
  /\ Forget
  /\ UNCHANGED <<posting, stored, task, editor, reader>>

Delete(d) ==
  /\ Unlocked /\ deleter[d] = "delete"
  /\ deleter' = [deleter EXCEPT ![d] = "deleted"]
  /\ row' = {} /\ photos' = FALSE /\ deleted' = TRUE
  /\ UNCHANGED <<posting, committed, overwritten, copies, task, editor, reader>>

-----------------------------------------------------------------------------
(* Readers: get_object_through_cache for the tweet's own page and for each  *)
(* row of a newsfeed, load_objects for the author's list.                   *)
Read(r, next, copy) == reader' = [reader EXCEPT ![r].at = next, ![r].copy = copy]

Get(r) ==
  /\ reader[r].at = "get"
  /\ \E door \in {"tweet"} \cup (IF fanned THEN {"newsfeed"} ELSE {}) :
       reader' = [reader EXCEPT ![r] =
                    [door |-> door, at |-> IF memo = {} THEN "load" ELSE "render", copy |-> {}]]
  /\ UNCHANGED <<posting, stored, copies, task, editor, deleter>>

(* DoesNotExist is a 404 in retrieve; in a newsfeed it fails the page.      *)
Load(r) ==
  /\ reader[r].at = "load"
  /\ IF row # {} THEN Read(r, "fill", row)
     ELSE Read(r, IF reader[r].door = "tweet" THEN "not_found" ELSE "error", {})
  /\ UNCHANGED <<posting, stored, copies, task, editor, deleter>>

Fill(r) ==
  /\ reader[r].at = "fill" /\ Read(r, "render", {})
  /\ memo' = reader[r].copy
  /\ UNCHANGED <<posting, stored, list, task, editor, deleter>>

(* A newsfeed read from MySQL after the deletion has a row without a tweet. *)
GetOrphan(r) ==
  /\ reader[r].at = "get" /\ fanned /\ deleted
  /\ reader' = [reader EXCEPT ![r] = [door |-> "newsfeed", at |-> "error", copy |-> {}]]
  /\ UNCHANGED <<posting, stored, copies, task, editor, deleter>>

Shown(copy) == IF copy = {} THEN "not_listed" ELSE "render"

GetList(r) ==
  /\ reader[r].at = "get"
  /\ reader' = [reader EXCEPT ![r] =
                   IF hot THEN [door |-> "tweets", at |-> Shown(entry), copy |-> {}]
                          ELSE [door |-> "tweets", at |-> "install", copy |-> row]]
  /\ UNCHANGED <<posting, stored, copies, task, editor, deleter>>

Mutant_InstallWithoutExpiry(r) ==
  /\ reader[r].at = "install" /\ Read(r, Shown(reader[r].copy), {})
  /\ hot' = TRUE /\ entry' = reader[r].copy
  /\ expires' = FALSE /\ remade' = FALSE
  /\ UNCHANGED <<posting, stored, memo, task, editor, deleter>>

Install(r) ==
  /\ reader[r].at = "install" /\ Read(r, Shown(reader[r].copy), {})
  /\ hot' = TRUE /\ entry' = reader[r].copy
  /\ expires' = TRUE /\ remade' = FALSE
  /\ UNCHANGED <<posting, stored, memo, task, editor, deleter>>

(* The photos come from MySQL; a cold counter is read from there too, and   *)
(* refresh_from_db raises DoesNotExist once the row is gone.                *)
Render(r) ==
  /\ reader[r].at = "render"
  /\ \/ Read(r, IF photos THEN "whole" ELSE "bare", {})
     \/ row = {} /\ Read(r, "error", {})
  /\ UNCHANGED <<posting, stored, copies, task, editor, deleter>>

-----------------------------------------------------------------------------
(* TIMEOUT of memcached, and the expiry of the list's key, if it has one.   *)
Timeout ==
  /\ memo # {}
  /\ Forget
  /\ UNCHANGED <<posting, stored, task, editor, deleter, reader>>

Expire ==
  /\ hot /\ expires
  /\ hot' = FALSE /\ entry' = {} /\ expires' = FALSE
  /\ UNCHANGED <<posting, stored, memo, remade, task, editor, deleter, reader>>

-----------------------------------------------------------------------------
PostStep ==
  \/ Insert \/ Invalidate \/ PushTweetToCache \/ LPushTweet \/ CreatePhotosFromFiles
  \/ StartFanout \/ Moderate \/ Respond
TaskStep(t) == Ask(t) \/ Find(t) \/ UpdateStatus(t)
SaveStep(e) == SaveForm(e) \/ PushForm(e) \/ LPushForm(e) \/ CommitForm(e)
ReadStep(r) == Load(r) \/ Fill(r) \/ Install(r) \/ Render(r)

TweetNext ==
  \/ PostStep \/ PostFails
  \/ \E t \in Moderation : TaskStep(t)
  \/ Count
  \/ \E e \in Editor : ShowForm(e) \/ CheckForm(e) \/ SaveStep(e) \/ EditFails(e)
  \/ \E d \in Deleter : DeleteInvalidates(d) \/ Delete(d)
  \/ \E r \in Reader : Get(r) \/ GetOrphan(r) \/ GetList(r) \/ ReadStep(r)
  \/ Timeout \/ Expire

TweetSpec == TweetInit /\ [][TweetNext]_tweetVars

(* What a web worker or a Celery worker has begun it goes on with, and what *)
(* has timed out goes.  Nobody need send a form, read, or redeliver.        *)
TweetFairSpec ==
  /\ TweetSpec
  /\ WF_tweetVars(PostStep) /\ WF_tweetVars(Timeout) /\ WF_tweetVars(Expire)
  /\ \A t \in Moderation : WF_tweetVars(Find(t) \/ UpdateStatus(t))
  /\ \A e \in Editor : WF_tweetVars(SaveStep(e))
  /\ \A d \in Deleter : WF_tweetVars(Delete(d))
  /\ \A r \in Reader : WF_tweetVars(ReadStep(r))

-----------------------------------------------------------------------------
(* Types; and a copy of the tweet's row always is one.                      *)
TweetTypeOK ==
  /\ request \in {"insert", "invalidate", "push", "lpush", "photos", "fan_out", "moderate",
                  "respond", "answered", "failed"}
  /\ {row, memo, entry, committed, overwritten} \subseteq SUBSET Change
  /\ {photos, fanned, asked, hot, expires, remade, deleted} \subseteq BOOLEAN
  /\ task \in [Moderation -> [at : {"ask", "find", "update", "done"}, found : SUBSET Change]]
  /\ editor \in [Editor -> [at : {"open", "check", "gone", "save", "exists", "lpush", "commit",
                                  "saved", "failed"},
                            form : SUBSET Change]]
  /\ deleter \in [Deleter -> {"confirm", "delete", "deleted"}]
  /\ reader \in [Reader -> [door : Door \cup {"none"}, copy : SUBSET Change,
                            at : {"get", "load", "fill", "install", "render", "whole", "bare",
                                  "not_found", "not_listed", "error"}]]

(* Who meets the tweet in a newsfeed gets it, and with its photos, whatever *)
(* failed or raced, as long as no admin deletes it: the fan-out begins only *)
(* when the photos are committed.  Its own page and its author's list may   *)
(* show it without them, for ever if the request died.                      *)
FannedOutWhole ==
  \A r \in Reader :
    reader[r].door = "newsfeed" /\ reader[r].at \in {"bare", "error"} => deleted

(* Verdicts and counts change one column each and survive each other; only  *)
(* an admin's form can undo one, and only one that the form was shown       *)
(* without.  No copy that a task, a cache or a reader holds is ever written *)
(* back to the row.                                                         *)
LostOnlyToForms == row # {} => committed \subseteq row \cup overwritten

(* Copies of old rows, without the verdict, or of a tweet since deleted,    *)
(* whether a silent UPDATE, a slow reader, an invalidation before its       *)
(* COMMIT, or a late push left them, do not outlive their expiry for good;  *)
(* but a list that a push made anew has none, and keeps its copies.         *)
StaleEnds == <>[](memo \in {{}, row} /\ (remade \/ entry \in {{}, row}))
=============================================================================
