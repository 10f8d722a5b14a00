------------------------------ MODULE Accounts ------------------------------
(***************************************************************************)
(* Users and their profiles: signup, login, the update of a profile, and   *)
(* the pages that show a user with the profile, both through memcached     *)
(* (accounts/, utils/memcached_helper.py).                                 *)
(*                                                                         *)
(* Whoever needs a profile creates it if it does not exist, with           *)
(* get_or_create.  Whoever writes a row has post_save drop its copy from   *)
(* memcached, after the write; whoever misses a copy puts back what he has *)
(* read from the database.  Nothing makes the checks of a signup, or the   *)
(* load and the save of an update, one step.                               *)
(***************************************************************************)
EXTENDS FiniteSets

CONSTANTS Signup,         \* the signup requests, and the users they make
          Login, Patch,   \* logins, and updates of profiles by PATCH
          Viewer,         \* processes that show a user again and again
          UserOf,         \* the user whom a login, patch or viewer is about
          Scenes,         \* who may take part together, and fill in what
          Faults          \* may memcached fail and processes crash?

Process == Signup \cup Login \cup Patch \cup Viewer
Key == {"user", "profile"} \X Signup

ASSUME AccountsAssumption ==
  /\ UserOf \in [Login \cup Patch \cup Viewer -> Signup]
  /\ Signup \cap (Login \cup Patch \cup Viewer) = {}
  /\ Login \cap (Patch \cup Viewer) = {} /\ Patch \cap Viewer = {}
  /\ \A scene \in Scenes : scene.cast \subseteq Process
  /\ Faults \in BOOLEAN

VARIABLES form,     \* the name and the mail of each signup, in lower case
          exists,   \* the rows in the database
          row,      \* for each, the logins and patches whose values it carries
          warm,     \* the rows of which memcached has a copy
          cached,   \* the copies; {} for the others
          pc,       \* what each process does next, to what, or how it ended
          got,      \* the row it has loaded and will store or save
          knew      \* which users, or saved patches, there were when it looked

database == <<form, exists, row>>
memcached == <<warm, cached>>
vars == <<database, memcached, pc, got, knew>>

User(p) == IF p \in Signup THEN p ELSE UserOf[p]
KeyOf(p) == <<pc[p][2], User(p)>>
UserKey(p) == <<"user", User(p)>>
Users == {s \in Signup : <<"user", s>> \in exists}

Ended == {"ended"} \X {"absent", "invalid", "error", "refused", "done", "crashed"}

Init ==
  /\ exists = {} /\ row = [k \in Key |-> {}]
  /\ warm = {} /\ cached = [k \in Key |-> {}]
  /\ \E scene \in Scenes :
       /\ form = scene.form
       /\ pc = [p \in Process |-> IF p \notin scene.cast THEN <<"ended", "absent">>
                                 ELSE CASE p \in Signup -> <<"check", "name">>
                                        [] p \in Login -> <<"log_in", "user">>
                                        [] p \in Patch -> <<"look_up", "profile">>
                                        [] OTHER -> <<"get", "user">>]
  /\ got = [p \in Process |-> {}] /\ knew = [p \in Process |-> {}]

Goto(p, next, what) == pc' = [pc EXCEPT ![p] = <<next, what>>]
At(p, here, what) == pc[p] = <<here, what>>
Doing(p, here) == pc[p][1] = here

Store(key, value) == warm' = warm \cup {key} /\ cached' = [cached EXCEPT ![key] = value]
Drop(key) == warm' = warm \ {key} /\ cached' = [cached EXCEPT ![key] = {}]

-----------------------------------------------------------------------------
(* SignupSerializer.validate and create.  The unique index refuses a second *)
(* user of a name, and nobody catches that; the mail has no such index.     *)
SameName(s) == {t \in Users : form[t].name = form[s].name}
SameMail(s) == {t \in Users : form[t].mail = form[s].mail}

CheckName(s) ==
  /\ At(s, "check", "name")
  /\ IF SameName(s) = {} THEN Goto(s, "check", "mail") ELSE Goto(s, "ended", "invalid")
  /\ UNCHANGED <<database, memcached, got, knew>>

Mutant_MailNotChecked(s) ==
  /\ At(s, "check", "mail")
  /\ Goto(s, "create", "user")
  /\ knew' = [knew EXCEPT ![s] = Users]
  /\ UNCHANGED <<database, memcached, got>>

CheckMail(s) ==
  /\ At(s, "check", "mail")
  /\ IF SameMail(s) = {} THEN Goto(s, "create", "user") ELSE Goto(s, "ended", "invalid")
  /\ knew' = [knew EXCEPT ![s] = Users]
  /\ UNCHANGED <<database, memcached, got>>

CreateUser(s) ==
  /\ At(s, "create", "user")
  /\ IF SameName(s) = {}
     THEN Goto(s, "forget", "user") /\ exists' = exists \cup {UserKey(s)}
     ELSE Goto(s, "ended", "error") /\ UNCHANGED exists
  /\ UNCHANGED <<form, row, memcached, got, knew>>

(* django_login saves last_login, and only that column.                     *)
LogIn(p) ==
  /\ At(p, "log_in", "user")
  /\ IF UserKey(p) \in exists
     THEN Goto(p, "forget", "user") /\ row' = [row EXCEPT ![UserKey(p)] = @ \cup {p}]
     ELSE Goto(p, "ended", "refused") /\ UNCHANGED row
  /\ UNCHANGED <<form, exists, memcached, got, knew>>

(* post_save: a new user's profile is made next, everybody else is done.    *)
Mutant_NoProfile(p) ==
  IF p \in Signup /\ p \notin row[UserKey(p)] THEN Goto(p, "log_in", "user")
  ELSE Goto(p, "ended", "done")

AfterForget(p) ==
  IF p \in Signup /\ p \notin row[UserKey(p)] THEN Goto(p, "get", "profile")
  ELSE Goto(p, "ended", "done")

Forget(p) ==
  /\ Doing(p, "forget")
  /\ Drop(KeyOf(p))
  /\ AfterForget(p)
  /\ UNCHANGED <<database, got, knew>>

-----------------------------------------------------------------------------
(* get_object_through_cache for a user, get_profile_through_cache for the   *)
(* profile: a page reads both, the end of a signup the profile.             *)
AfterRead(p) ==
  IF pc[p][2] = "user" THEN Goto(p, "get", "profile")
  ELSE IF p \in Signup THEN Goto(p, "log_in", "user") ELSE Goto(p, "get", "user")

Get(p) ==
  /\ Doing(p, "get")
  /\ User(p) \in Users
  /\ IF KeyOf(p) \in warm
     THEN AfterRead(p) ELSE Goto(p, "load", pc[p][2])
  /\ UNCHANGED <<database, memcached, got, knew>>

(* Every user has a row; a profile may have to be created.                  *)
Load(p) ==
  /\ Doing(p, "load")
  /\ IF KeyOf(p) \in exists THEN Goto(p, "fill", pc[p][2]) ELSE Goto(p, "create", "profile")
  /\ got' = [got EXCEPT ![p] = row[KeyOf(p)]]
  /\ UNCHANGED <<database, memcached, knew>>

Fill(p) ==
  /\ Doing(p, "fill")
  /\ Store(KeyOf(p), got[p])
  /\ AfterRead(p)
  /\ got' = [got EXCEPT ![p] = {}]
  /\ UNCHANGED <<database, knew>>

-----------------------------------------------------------------------------
(* UserProfileViewSet: get_object loads the row, past the cache, and        *)
(* serializer.save() writes every column of what it has loaded.             *)
Saved == {p \in Patch : pc[p] \in {<<"forget", "profile">>, <<"ended", "done">>}}

LookUp(p) ==
  /\ At(p, "look_up", "profile")
  /\ IF User(p) \notin Users THEN Goto(p, "ended", "refused")
     ELSE IF KeyOf(p) \in exists THEN Goto(p, "save", "profile")
                                 ELSE Goto(p, "create", "profile")
  /\ got' = [got EXCEPT ![p] = row[KeyOf(p)]]
  /\ knew' = [knew EXCEPT ![p] = Saved]
  /\ UNCHANGED <<database, memcached>>

Save(p) ==
  /\ At(p, "save", "profile")
  /\ row' = [row EXCEPT ![KeyOf(p)] = got[p] \cup {p}]
  /\ Goto(p, "forget", "profile")
  /\ got' = [got EXCEPT ![p] = {}]
  /\ UNCHANGED <<form, exists, memcached, knew>>

(* The INSERT of get_or_create, which found nothing.  If the unique index on*)
(* user_id refuses it, the row that was there first is read; if not,        *)
(* post_save drops a copy before the INSERT is committed.                   *)
AfterCreate(p) == IF p \in Patch THEN Goto(p, "save", "profile") ELSE Goto(p, "fill", "profile")

Mutant_UpdateOrCreate(p) ==
  /\ At(p, "create", "profile")
  /\ exists' = exists \cup {KeyOf(p)} /\ row' = [row EXCEPT ![KeyOf(p)] = {}]
  /\ got' = [got EXCEPT ![p] = {}]
  /\ Drop(KeyOf(p))
  /\ AfterCreate(p)
  /\ UNCHANGED <<form, knew>>

CreateProfile(p) ==
  /\ At(p, "create", "profile")
  /\ IF KeyOf(p) \in exists THEN UNCHANGED <<exists, memcached>>
     ELSE exists' = exists \cup {KeyOf(p)} /\ Drop(KeyOf(p))
  /\ got' = [got EXCEPT ![p] = row[KeyOf(p)]]
  /\ knew' = [knew EXCEPT ![p] = IF p \in Patch THEN Saved ELSE @]
  /\ AfterCreate(p)
  /\ UNCHANGED <<form, row>>

-----------------------------------------------------------------------------
(* memcached drops a copy when its TIMEOUT is over, or earlier.  A get that *)
(* fails is a miss, a set or a delete that fails is skipped.                *)
Mutant_NeverTimesOut == FALSE /\ UNCHANGED vars

Timeout ==
  /\ \E key \in warm : Drop(key)
  /\ UNCHANGED <<database, pc, got, knew>>

MemcachedFails(p) ==
  /\ Faults
  /\ \/ Doing(p, "get") /\ User(p) \in Users /\ Goto(p, "load", pc[p][2])
     \/ Doing(p, "fill") /\ AfterRead(p)
     \/ Doing(p, "forget") /\ AfterForget(p)
  /\ got' = [got EXCEPT ![p] = {}]
  /\ UNCHANGED <<database, memcached, knew>>

Crash(p) ==
  /\ Faults
  /\ p \notin Viewer /\ pc[p] \notin Ended
  /\ Goto(p, "ended", "crashed")
  /\ got' = [got EXCEPT ![p] = {}]
  /\ UNCHANGED <<database, memcached, knew>>

-----------------------------------------------------------------------------
ReadStep(p) == Get(p) \/ Load(p) \/ Fill(p)
RequestStep(p) ==
  \/ ReadStep(p) \/ CreateProfile(p) \/ Forget(p)
  \/ CheckName(p) \/ CheckMail(p) \/ CreateUser(p)
  \/ LogIn(p) \/ LookUp(p) \/ Save(p)

Next ==
  \/ \E p \in Process : RequestStep(p) \/ MemcachedFails(p) \/ Crash(p)
  \/ Timeout

Spec == Init /\ [][Next]_vars

(* Workers run the requests they have taken, and memcached drops every copy *)
(* that has timed out.                                                      *)
FairSpec ==
  /\ Spec
  /\ \A p \in Process : WF_vars(RequestStep(p))
  /\ \A key \in Key : WF_vars(key \in warm /\ Timeout /\ key \notin warm')

-----------------------------------------------------------------------------
Reading == {"get", "load", "fill"}

PlacesOf(p) ==
  IF p \in Signup
  THEN {<<"check", "name">>, <<"check", "mail">>, <<"create", "user">>, <<"forget", "user">>,
        <<"create", "profile">>, <<"log_in", "user">>} \cup (Reading \X {"profile"})
  ELSE IF p \in Login THEN {<<"log_in", "user">>, <<"forget", "user">>}
  ELSE IF p \in Patch THEN {"look_up", "create", "save", "forget"} \X {"profile"}
  ELSE {<<"create", "profile">>} \cup (Reading \X {"user", "profile"})

(* Types; each request is at a place of its own kind; a copy that memcached *)
(* does not have is {}.                                                     *)
TypeOK ==
  /\ form \in {scene.form : scene \in Scenes}
  /\ exists \subseteq Key /\ row \in [Key -> SUBSET Process]
  /\ warm \subseteq Key /\ cached \in [Key -> SUBSET Process]
  /\ \A key \in Key \ warm : cached[key] = {}
  /\ DOMAIN pc = Process
  /\ \A p \in Process : pc[p] \in Ended \cup PlacesOf(p)
  /\ got \in [Process -> SUBSET Process] /\ knew \in [Process -> SUBSET Process]

(* Two users have one mail only if neither was there when the other's signup*)
(* looked: the check, without an index behind it, keeps all others apart.   *)
MailSharedOnlyByOverlap ==
  \A s, t \in Users :
    s # t /\ form[s].mail = form[t].mail => s \notin knew[t] /\ t \notin knew[s]

(* A user who got the answer of a signup has a profile, whoever else created*)
(* it meanwhile and whatever failed (accounts/api/serializers.py:105).      *)
SignedUpHasProfile ==
  \A s \in Signup : pc[s] = <<"ended", "done">> => <<"profile", s>> \in exists

(* A saved PATCH is lost only to one that was under way with it: the later  *)
(* one had loaded the profile before, and writes all of it back.  No login, *)
(* no get_or_create of a page and no stale copy takes it away.  (The forms  *)
(* of accounts/admin.py write whole profiles back too; they are left out.)  *)
LostOnlyToOverlap ==
  \A p \in Saved : p \notin row[<<"profile", User(p)>>] =>
    \E q \in Patch : /\ q # p /\ User(q) = User(p) /\ p \notin knew[q]
                     /\ q \in Saved \/ pc[q] = <<"ended", "crashed">>

(* A stale copy, also one that a slow reader stored after the invalidation, *)
(* does not outlive its TIMEOUT for good: in the end memcached has the rows,*)
(* or nothing.                                                              *)
StaleEnds == <>[](\A key \in warm : cached[key] = row[key])
=============================================================================
