---------------------------- MODULE AccountsProofs ----------------------------
(***************************************************************************)
(* Proofs about Accounts, for any requests, forms and users, and, below,   *)
(* about Inbox, for any notifications and pages of any size.               *)
(***************************************************************************)
EXTENDS Accounts, Inbox, TLAPS, FiniteSetTheorems

-----------------------------------------------------------------------------
(* Every step keeps the types.                                              *)
LEMMA TypeStep == TypeOK /\ [Next]_vars => TypeOK'
<1> SUFFICES ASSUME TypeOK, [Next]_vars PROVE TypeOK'
  OBVIOUS
<1> USE AccountsAssumption
    DEF TypeOK, Process, Key, PlacesOf, Reading, Ended, At, Doing, Goto, database, memcached
<1>a. \A p \in Process : User(p) \in Signup
  BY DEF User
<1>b. \A p \in Process : KeyOf(p) \in Key \/ pc[p] \in Ended \/ Doing(p, "check")
  BY <1>a DEF KeyOf
<1>c. Saved \subseteq Process /\ Users \subseteq Process
  BY DEF Saved, Users
<1>1. ASSUME NEW s \in Process, CheckName(s) PROVE TypeOK'
  BY <1>1 DEF CheckName
<1>2. ASSUME NEW s \in Process, CheckMail(s) PROVE TypeOK'
  <2>1. knew' \in [Process -> SUBSET Process]
    BY <1>2, <1>c DEF CheckMail
  <2>2. DOMAIN pc' = Process /\ \A p \in Process : pc'[p] \in Ended \cup PlacesOf(p)
    BY <1>2 DEF CheckMail
  <2> QED
    BY <1>2, <2>1, <2>2 DEF CheckMail
<1>3. ASSUME NEW s \in Process, CreateUser(s) PROVE TypeOK'
  BY <1>3, <1>a DEF CreateUser, UserKey
<1>4. ASSUME NEW p \in Process, LogIn(p) PROVE TypeOK'
  <2>1. UserKey(p) \in Key
    BY <1>a DEF UserKey
  <2>2. row' \in [Key -> SUBSET Process]
    BY <1>4, <2>1 DEF LogIn
  <2>3. DOMAIN pc' = Process /\ \A q \in Process : pc'[q] \in Ended \cup PlacesOf(q)
    BY <1>4 DEF LogIn
  <2> QED
    BY <1>4, <2>2, <2>3 DEF LogIn
<1>5. ASSUME NEW p \in Process, Forget(p) PROVE TypeOK'
  BY <1>5, <1>b DEF Forget, Drop, AfterForget
<1>6. ASSUME NEW p \in Process, Get(p) PROVE TypeOK'
  BY <1>6 DEF Get, AfterRead
<1>7. ASSUME NEW p \in Process, Load(p) PROVE TypeOK'
  BY <1>7, <1>b DEF Load
<1>8. ASSUME NEW p \in Process, Fill(p) PROVE TypeOK'
  <2>1. KeyOf(p) \in Key
    BY <1>8, <1>b DEF Fill
  <2>2. /\ warm' \subseteq Key /\ cached' \in [Key -> SUBSET Process]
        /\ \A key \in Key \ warm' : cached'[key] = {}
    BY <1>8, <2>1 DEF Fill, Store
  <2>3. DOMAIN pc' = Process /\ \A q \in Process : pc'[q] \in Ended \cup PlacesOf(q)
    BY <1>8 DEF Fill, AfterRead
  <2> QED
    BY <1>8, <2>2, <2>3 DEF Fill
<1>9. ASSUME NEW p \in Process, LookUp(p) PROVE TypeOK'
  BY <1>9, <1>b, <1>c DEF LookUp
<1>10. ASSUME NEW p \in Process, Save(p) PROVE TypeOK'
  BY <1>10, <1>b DEF Save
<1>11. ASSUME NEW p \in Process, CreateProfile(p) PROVE TypeOK'
  BY <1>11, <1>b, <1>c DEF CreateProfile, AfterCreate, Drop
<1>12. ASSUME NEW p \in Process, MemcachedFails(p) PROVE TypeOK'
  BY <1>12 DEF MemcachedFails, AfterRead, AfterForget
<1>13. ASSUME NEW p \in Process, Crash(p) PROVE TypeOK'
  BY <1>13 DEF Crash
<1>14. CASE Timeout
  BY <1>14 DEF Timeout, Drop
<1>15. CASE UNCHANGED vars
  BY <1>15 DEF vars
<1> QED
  BY <1>1, <1>2, <1>3, <1>4, <1>5, <1>6, <1>7, <1>8, <1>9, <1>10, <1>11, <1>12,
     <1>13, <1>14, <1>15 DEF Next, RequestStep, ReadStep

LEMMA InitTypes ==
  Init => /\ TypeOK
          /\ \A p \in Process : /\ pc[p] # <<"ended", "done">> /\ pc[p][1] \notin {"fill", "save"}
                                /\ p \in Signup => pc[p] \in {<<"ended", "absent">>,
                                                          <<"check", "name">>}
<1> SUFFICES ASSUME Init
             PROVE  /\ TypeOK
                    /\ \A p \in Process :
                         /\ pc[p] # <<"ended", "done">> /\ pc[p][1] \notin {"fill", "save"}
                         /\ p \in Signup => pc[p] \in {<<"ended", "absent">>,
                                                     <<"check", "name">>}
  OBVIOUS
<1>1. PICK scene \in Scenes :
        /\ form = scene.form
        /\ pc = [p \in Process |-> IF p \notin scene.cast THEN <<"ended", "absent">>
                                  ELSE CASE p \in Signup -> <<"check", "name">>
                                         [] p \in Login -> <<"log_in", "user">>
                                         [] p \in Patch -> <<"look_up", "profile">>
                                         [] OTHER -> <<"get", "user">>]
  BY DEF Init
<1>2. \A p \in Process : pc[p] \in Ended \cup PlacesOf(p)
  BY <1>1, AccountsAssumption DEF Process, Ended, PlacesOf, Reading
<1>3. \A p \in Process : /\ pc[p] # <<"ended", "done">> /\ pc[p][1] \notin {"fill", "save"}
                         /\ p \in Signup => pc[p] \in {<<"ended", "absent">>, <<"check", "name">>}
  <2> SUFFICES ASSUME NEW p \in Process
               PROVE  /\ pc[p] # <<"ended", "done">> /\ pc[p][1] \notin {"fill", "save"}
                      /\ p \in Signup => pc[p] \in {<<"ended", "absent">>, <<"check", "name">>}
    OBVIOUS
  <2>1. CASE p \notin scene.cast
    BY <1>1, <2>1
  <2>2. CASE p \in scene.cast /\ p \in Signup
    BY <1>1, <2>2, AccountsAssumption
  <2>3. CASE p \in scene.cast /\ p \notin Signup
    BY <1>1, <2>3
  <2> QED
    BY <2>1, <2>2, <2>3
<1> QED
  BY <1>1, <1>2, <1>3 DEF Init, TypeOK

(* Every request is at a place of its own kind, what it has loaded is a set *)
(* of requests, and memcached holds nothing under a key it does not have.   *)
THEOREM AccountsTypes == Spec => []TypeOK
<1>1. TypeOK /\ [Next]_vars => TypeOK'
  BY TypeStep
<1> QED
  BY <1>1, InitTypes, PTL DEF Spec

-----------------------------------------------------------------------------
(* Signups: who has not come to its INSERT has no row, and who has knows of *)
(* nobody with its mail.                                                    *)
Before == {<<"check", "name">>, <<"check", "mail">>, <<"create", "user">>}

MailInv ==
  \A s \in Signup :
    /\ pc[s] \in Before => <<"user", s>> \notin exists
    /\ pc[s] = <<"create", "user">> \/ <<"user", s>> \in exists =>
         \A t \in knew[s] : form[t].mail # form[s].mail

LEMMA MailStep == TypeOK /\ MailInv /\ [Next]_vars => MailInv'
<1> SUFFICES ASSUME TypeOK, MailInv, [Next]_vars PROVE MailInv'
  OBVIOUS
<1> USE AccountsAssumption
<1>0. /\ DOMAIN pc = Process /\ DOMAIN knew = Process /\ Signup \subseteq Process
      /\ \A p \in Process : pc[p] \in Ended \cup PlacesOf(p)
  BY DEF TypeOK, Process
<1>1. ASSUME form' = form,
             \A s \in Signup : /\ knew'[s] = knew[s]
                               /\ <<"user", s>> \in exists' => <<"user", s>> \in exists
                               /\ pc'[s] \in Before => pc'[s] = pc[s]
      PROVE  MailInv'
  BY <1>1 DEF MailInv, Before
<1>2. ASSUME NEW p \in Process, CheckName(p) PROVE MailInv'
  <2>1. /\ form' = form /\ exists' = exists /\ knew' = knew
        /\ p \in Signup /\ pc[p] \in Before /\ pc'[p] # <<"create", "user">>
        /\ \A s \in Signup \ {p} : pc'[s] = pc[s]
    BY <1>0, <1>2
    DEF CheckName, Goto, At, Before, database, PlacesOf, Ended, Reading
  <2> QED
    BY <2>1 DEF MailInv
<1>3. ASSUME NEW p \in Process, CheckMail(p) PROVE MailInv'
  <2>1. p \in Signup /\ pc[p] \in Before
    BY <1>0, <1>3 DEF CheckMail, At, Before, PlacesOf, Ended, Reading
  <2>2. /\ form' = form /\ exists' = exists /\ knew'[p] = Users
        /\ pc'[p] = <<"create", "user">> => SameMail(p) = {}
        /\ \A s \in Signup \ {p} : pc'[s] = pc[s] /\ knew'[s] = knew[s]
    BY <1>0, <1>3 DEF CheckMail, Goto, database
  <2>3. <<"user", p>> \notin exists
    BY <2>1 DEF MailInv
  <2>4. SameMail(p) = {} => \A t \in Users : form[t].mail # form[p].mail
    BY DEF SameMail
  <2> QED
    BY <2>1, <2>2, <2>3, <2>4 DEF MailInv
<1>4. ASSUME NEW p \in Process, CreateUser(p) PROVE MailInv'
  <2>1. p \in Signup /\ pc[p] = <<"create", "user">>
    BY <1>0, <1>4 DEF CreateUser, At, PlacesOf, Ended, Reading
  <2>2. /\ form' = form /\ knew' = knew /\ pc'[p] \notin Before
        /\ \A s \in Signup \ {p} : /\ pc'[s] = pc[s]
                                   /\ <<"user", s>> \in exists' => <<"user", s>> \in exists
    BY <1>0, <1>4, <2>1 DEF CreateUser, Goto, UserKey, User, Before
  <2>3. \A t \in knew[p] : form[t].mail # form[p].mail
    BY <2>1 DEF MailInv
  <2> QED
    BY <2>2, <2>3 DEF MailInv, Before
<1>5. ASSUME NEW p \in Process, LogIn(p) \/ Forget(p) \/ ReadStep(p) \/ Save(p)
      PROVE  MailInv'
  <2>1. form' = form /\ exists' = exists /\ knew' = knew
    BY <1>5 DEF LogIn, Forget, ReadStep, Get, Load, Fill, Save, database
  <2>2. \A s \in Signup : pc'[s] \in Before => pc'[s] = pc[s]
    BY <1>0, <1>5
    DEF LogIn, Forget, ReadStep, Get, Load, Fill, Save, AfterForget, AfterRead, Goto, At, Doing,
        Before, PlacesOf, Ended, Reading
  <2> QED
    BY <1>1, <2>1, <2>2
<1>6. ASSUME NEW p \in Process, LookUp(p) \/ CreateProfile(p) PROVE MailInv'
  <2>1. \A s \in Signup : <<"user", s>> \in exists' => <<"user", s>> \in exists
    BY <1>6 DEF LookUp, CreateProfile, At, KeyOf, database
  <2>2. form' = form /\ \A s \in Signup : knew'[s] = knew[s]
    BY <1>0, <1>6 DEF LookUp, CreateProfile, database, At, PlacesOf, Ended, Reading, Process
  <2>3. \A s \in Signup : pc'[s] \in Before => pc'[s] = pc[s]
    BY <1>0, <1>6
    DEF LookUp, CreateProfile, AfterCreate, Goto, At, Before
  <2> QED
    BY <1>1, <2>1, <2>2, <2>3
<1>7. ASSUME NEW p \in Process, MemcachedFails(p) \/ Crash(p) PROVE MailInv'
  <2>1. form' = form /\ exists' = exists /\ knew' = knew
    BY <1>7 DEF MemcachedFails, Crash, database
  <2>2. \A s \in Signup : pc'[s] \in Before => pc'[s] = pc[s]
    BY <1>0, <1>7
    DEF MemcachedFails, Crash, AfterForget, AfterRead, Goto, Doing, Before
  <2> QED
    BY <1>1, <2>1, <2>2
<1>8. CASE Timeout \/ UNCHANGED vars
  BY <1>1, <1>8 DEF Timeout, vars, database
<1> QED
  BY <1>2, <1>3, <1>4, <1>5, <1>6, <1>7, <1>8 DEF Next, RequestStep

(* Two users have one mail only if the signup of neither could see the      *)
(* other: the check of the mail keeps every other pair apart, for any       *)
(* number of signups and whatever else runs beside them.                    *)
THEOREM MailShared == Spec => []MailSharedOnlyByOverlap
<1>1. Init => MailInv
  BY InitTypes DEF Init, MailInv, Before, Process
<1>2. MailInv => MailSharedOnlyByOverlap
  BY DEF MailInv, MailSharedOnlyByOverlap, Users
<1> QED
  BY <1>1, <1>2, InitTypes, TypeStep, MailStep, PTL DEF Spec

-----------------------------------------------------------------------------
(* Profiles: memcached only has rows that exist, and a signup comes to its  *)
(* login when the profile is there.                                         *)
ProfileInv ==
  /\ warm \subseteq exists
  /\ \A p \in Process : Doing(p, "fill") => KeyOf(p) \in exists
  /\ \A s \in Signup :
       pc[s] = <<"log_in", "user">> \/ s \in row[<<"user", s>>] => <<"profile", s>> \in exists
  /\ SignedUpHasProfile

LEMMA ProfileStep == TypeOK /\ ProfileInv /\ [Next]_vars => ProfileInv'
<1> SUFFICES ASSUME TypeOK, ProfileInv, [Next]_vars PROVE ProfileInv'
  OBVIOUS
<1> USE AccountsAssumption
<1>0. /\ DOMAIN pc = Process /\ Signup \subseteq Process
      /\ row \in [Key -> SUBSET Process]
      /\ \A p \in Process : User(p) \in Signup
      /\ \A p \in Process : pc[p] \in Ended \cup PlacesOf(p)
      /\ \A s \in Signup : /\ pc[s] \in Ended \cup PlacesOf(s) /\ User(s) = s
                           /\ <<"user", s>> \in Key /\ <<"profile", s>> \in Key
  BY DEF TypeOK, Process, User, Key
<1>1. ASSUME exists \subseteq exists', warm' \subseteq exists',
             \A p \in Process : pc'[p][1] = "fill" =>
               pc'[p] = pc[p] \/ <<pc'[p][2], User(p)>> \in exists',
             \A s \in Signup : <<"profile", s>> \notin exists' =>
               /\ pc'[s] \in {<<"log_in", "user">>, <<"ended", "done">>} => pc'[s] = pc[s]
               /\ s \in row'[<<"user", s>>] => s \in row[<<"user", s>>]
      PROVE  ProfileInv'
  <2>1. \A p \in Process : pc'[p][1] = "fill" => <<pc'[p][2], User(p)>> \in exists'
    BY <1>1 DEF ProfileInv, Doing, KeyOf
  <2>2. \A s \in Signup :
          pc'[s] = <<"log_in", "user">> \/ s \in row'[<<"user", s>>] => <<"profile", s>> \in exists'
    BY <1>1 DEF ProfileInv, SignedUpHasProfile
  <2>3. \A s \in Signup : pc'[s] = <<"ended", "done">> => <<"profile", s>> \in exists'
    BY <1>1 DEF ProfileInv, SignedUpHasProfile
  <2> QED
    BY <1>1, <2>1, <2>2, <2>3 DEF ProfileInv, SignedUpHasProfile, Doing, KeyOf, User
<1>2. ASSUME NEW p \in Process, CheckName(p) \/ CheckMail(p) \/ CreateUser(p) \/ LookUp(p)
      PROVE  ProfileInv'
  <2>1. exists \subseteq exists' /\ warm' = warm /\ row' = row /\ warm \subseteq exists
    BY <1>2 DEF CheckName, CheckMail, CreateUser, LookUp, database, memcached, ProfileInv
  <2>2. \A q \in Process : pc'[q] # pc[q] =>
          /\ pc'[q] \notin {<<"log_in", "user">>, <<"ended", "done">>}
          /\ pc'[q][1] # "fill"
    BY <1>0, <1>2 DEF CheckName, CheckMail, CreateUser, LookUp, Goto
  <2> QED
    BY <1>0, <1>1, <2>1, <2>2
<1>3. ASSUME NEW p \in Process, LogIn(p) PROVE ProfileInv'
  <2>1. exists' = exists /\ warm' = warm /\ warm \subseteq exists
    BY <1>3 DEF LogIn, memcached, ProfileInv
  <2>2. \A q \in Process : pc'[q] # pc[q] =>
          /\ pc'[q] \notin {<<"log_in", "user">>, <<"ended", "done">>}
          /\ pc'[q][1] # "fill"
    BY <1>0, <1>3 DEF LogIn, Goto
  <2>a. \A key \in Key : row'[key] \subseteq row[key] \cup {p}
    BY <1>0, <1>3 DEF LogIn
  <2>3. \A s \in Signup : s \in row'[<<"user", s>>] => s \in row[<<"user", s>>] \/ s = p
    BY <1>0, <2>a
  <2>4. p \in Signup => <<"profile", p>> \in exists
    BY <1>3 DEF LogIn, At, ProfileInv
  <2> QED
    BY <1>0, <1>1, <2>1, <2>2, <2>3, <2>4
<1>4. ASSUME NEW p \in Process, Forget(p) PROVE ProfileInv'
  <2>1. exists' = exists /\ warm' \subseteq exists /\ row' = row
    BY <1>4 DEF Forget, Drop, database, ProfileInv
  <2>2. \A q \in Process : pc'[q] # pc[q] =>
          q = p /\ pc'[q][1] # "fill" /\ pc'[q] # <<"log_in", "user">>
    BY <1>0, <1>4 DEF Forget, AfterForget, Goto
  <2>3. p \in Signup /\ pc'[p] = <<"ended", "done">> => <<"profile", p>> \in exists
    <3> SUFFICES ASSUME p \in Signup, pc'[p] = <<"ended", "done">>
                 PROVE  <<"profile", p>> \in exists
      OBVIOUS
    <3>1. p \in row[UserKey(p)]
      BY <1>0, <1>4 DEF Forget, AfterForget, Goto
    <3> QED
      BY <1>0, <3>1 DEF UserKey, ProfileInv
  <2> QED
    BY <1>0, <1>1, <2>1, <2>2, <2>3
<1>5. ASSUME NEW p \in Process, Get(p) \/ Load(p) \/ Fill(p) PROVE ProfileInv'
  <2>1. Doing(p, "fill") => KeyOf(p) \in exists
    BY DEF ProfileInv
  <2>2. warm \subseteq exists /\ exists' = exists /\ row' = row
    BY <1>5 DEF Get, Load, Fill, database, ProfileInv
  <2>3. warm' \subseteq exists
    BY <1>5, <2>1, <2>2 DEF Get, Load, Fill, Store, memcached
  <2>4. \A q \in Process \ {p} : pc'[q] = pc[q]
    BY <1>0, <1>5 DEF Get, Load, Fill, AfterRead, Goto
  <2>5. pc'[p][1] = "fill" => <<pc'[p][2], User(p)>> \in exists
    BY <1>0, <1>5 DEF Get, Load, Fill, AfterRead, Goto, KeyOf
  <2>a. p \in Signup => pc[p] \in Reading \X {"profile"}
    BY <1>0, <1>5 DEF Get, Load, Fill, Doing, PlacesOf, Ended, Reading
  <2>6. p \in Signup => pc[p][2] = "profile" /\ KeyOf(p) = <<"profile", p>>
    BY <1>0, <2>a DEF KeyOf, Reading
  <2>7. p \in Signup => /\ pc'[p] # <<"ended", "done">>
                        /\ pc'[p] = <<"log_in", "user">> => <<"profile", p>> \in exists
    BY <1>0, <1>5, <2>1, <2>2, <2>6 DEF Get, Load, Fill, AfterRead, Goto
  <2> QED
    BY <1>0, <1>1, <2>2, <2>3, <2>4, <2>5, <2>7
<1>6. ASSUME NEW p \in Process, Save(p) PROVE ProfileInv'
  <2>1. exists' = exists /\ warm' = warm /\ warm \subseteq exists
    BY <1>6 DEF Save, memcached, ProfileInv
  <2>2. \A q \in Process : pc'[q] # pc[q] =>
          /\ pc'[q] \notin {<<"log_in", "user">>, <<"ended", "done">>}
          /\ pc'[q][1] # "fill"
    BY <1>0, <1>6 DEF Save, Goto
  <2>3. \A s \in Signup : row'[<<"user", s>>] = row[<<"user", s>>]
    BY <1>0, <1>6 DEF Save, KeyOf, At
  <2> QED
    BY <1>0, <1>1, <2>1, <2>2, <2>3
<1>7. ASSUME NEW p \in Process, CreateProfile(p) PROVE ProfileInv'
  <2>1. /\ exists \subseteq exists' /\ warm' \subseteq exists' /\ row' = row
        /\ KeyOf(p) \in exists' /\ KeyOf(p) = <<"profile", User(p)>>
    BY <1>7 DEF CreateProfile, Drop, memcached, ProfileInv, At, KeyOf
  <2>2. \A q \in Process : pc'[q] # pc[q] =>
          /\ pc'[q] \notin {<<"log_in", "user">>, <<"ended", "done">>}
          /\ q = p /\ pc'[q][2] = "profile"
    BY <1>0, <1>7 DEF CreateProfile, AfterCreate, Goto
  <2> QED
    BY <1>0, <1>1, <2>1, <2>2
<1>8. ASSUME NEW p \in Process, MemcachedFails(p) PROVE ProfileInv'
  <2>1. exists' = exists /\ warm' = warm /\ warm \subseteq exists /\ row' = row
    BY <1>8 DEF MemcachedFails, database, memcached, ProfileInv
  <2>2. \A q \in Process : pc'[q] # pc[q] => q = p /\ pc'[q][1] # "fill"
    BY <1>0, <1>8 DEF MemcachedFails, AfterRead, AfterForget, Goto
  <2>3. ASSUME p \in Signup, pc'[p] \in {<<"log_in", "user">>, <<"ended", "done">>},
               pc'[p] # pc[p]
        PROVE  <<"profile", p>> \in exists
    <3>1. CASE Doing(p, "get") /\ Goto(p, "load", pc[p][2])
      BY <1>0, <2>3, <3>1 DEF Goto
    <3>2. CASE Doing(p, "fill") /\ AfterRead(p)
      <4>1. pc[p] = <<"fill", "profile">>
        BY <1>0, <2>3, <3>2 DEF Doing, PlacesOf, Ended, Reading
      <4>2. pc[p][1] = "fill" /\ pc[p][2] = "profile"
        BY <4>1
      <4>3. User(p) = p
        BY <2>3 DEF User
      <4>4. Doing(p, "fill") /\ KeyOf(p) = <<"profile", p>>
        BY <4>2, <4>3 DEF Doing, KeyOf
      <4> QED
        BY <4>4 DEF ProfileInv
    <3>3. CASE Doing(p, "forget") /\ AfterForget(p)
      <4>1. p \in row[UserKey(p)]
        BY <1>0, <2>3, <3>3 DEF AfterForget, Goto
      <4> QED
        BY <1>0, <2>3, <4>1 DEF UserKey, ProfileInv
    <3> QED
      BY <1>8, <3>1, <3>2, <3>3 DEF MemcachedFails
  <2> QED
    BY <1>0, <1>1, <2>1, <2>2, <2>3
<1>9. ASSUME NEW p \in Process, Crash(p) PROVE ProfileInv'
  <2>1. exists' = exists /\ warm' = warm /\ warm \subseteq exists /\ row' = row
    BY <1>9 DEF Crash, database, memcached, ProfileInv
  <2>2. \A q \in Process : pc'[q] = pc[q] \/ pc'[q] = <<"ended", "crashed">>
    BY <1>0, <1>9 DEF Crash, Goto
  <2> QED
    BY <1>0, <1>1, <2>1, <2>2
<1>10. CASE Timeout \/ UNCHANGED vars
  BY <1>0, <1>1, <1>10 DEF Timeout, Drop, vars, database, memcached, ProfileInv
<1> QED
  BY <1>2, <1>3, <1>4, <1>5, <1>6, <1>7, <1>8, <1>9, <1>10 DEF Next, RequestStep, ReadStep

(* Whoever got the answer of a signup has a profile, whoever else created it*)
(* meanwhile and whatever failed: memcached has no copy of a profile that is*)
(* not in the database, so the read that ends a signup finds a row.         *)
THEOREM SignedUp == Spec => []SignedUpHasProfile
<1>1. Init => ProfileInv
  <2> SUFFICES ASSUME Init PROVE ProfileInv
    OBVIOUS
  <2>1. /\ warm = {} /\ \A s \in Signup : s \in Process /\ row[<<"user", s>>] = {}
    BY DEF Init, Key, Process
  <2>2. \A s \in Signup : pc[s] # <<"log_in", "user">> /\ pc[s] # <<"ended", "done">>
    <3>1. \A s \in Signup : pc[s] \in {<<"ended", "absent">>, <<"check", "name">>}
      BY <2>1, InitTypes
    <3> QED
      BY <3>1
  <2>3. \A p \in Process : ~Doing(p, "fill")
    BY InitTypes DEF Doing
  <2> QED
    BY <2>1, <2>2, <2>3 DEF ProfileInv, SignedUpHasProfile
<1>2. ProfileInv => SignedUpHasProfile
  BY DEF ProfileInv
<1> QED
  BY <1>1, <1>2, InitTypes, TypeStep, ProfileStep, PTL DEF Spec

-----------------------------------------------------------------------------
(* Updates: a patch that has been saved and is not on its row has met an    *)
(* overlapping one, and a patch about to save carries what it knows of,     *)
(* except for what was lost before.                                         *)
Past == {<<"forget", "profile">>, <<"ended", "done">>, <<"ended", "crashed">>}

Overlapped(p) ==
  \E q \in Patch : q # p /\ User(q) = User(p) /\ p \notin knew[q] /\ pc[q] \in Past

PatchInv ==
  /\ \A p \in Saved : p \in row[<<"profile", User(p)>>] \/ Overlapped(p)
  /\ \A q \in Patch : \A p \in knew[q] : p \in Patch /\ pc[p] \in Past
  /\ \A q \in Patch : pc[q] = <<"save", "profile">> =>
       \A p \in Saved \cap knew[q] : User(p) = User(q) => p \in got[q] \/ Overlapped(p)

LEMMA PatchStep == TypeOK /\ PatchInv /\ [Next]_vars => PatchInv'
<1> SUFFICES ASSUME TypeOK, PatchInv, [Next]_vars PROVE PatchInv'
  OBVIOUS
<1> USE AccountsAssumption
<1> DEFINE Onward == \A q \in Patch : pc[q] \in Past => pc'[q] \in Past /\ knew'[q] = knew[q]
           SameRows == \A s \in Signup : row'[<<"profile", s>>] = row[<<"profile", s>>]
           Kept(q) == /\ knew'[q] = knew[q]
                      /\ pc'[q] = <<"save", "profile">> => pc[q] = pc'[q] /\ got'[q] = got[q]
<1>0. /\ DOMAIN pc = Process /\ DOMAIN knew = Process /\ DOMAIN got = Process
      /\ Patch \subseteq Process /\ Signup \subseteq Process
      /\ row \in [Key -> SUBSET Process]
      /\ \A p \in Process : User(p) \in Signup /\ <<"profile", User(p)>> \in Key
      /\ \A p \in Process : pc[p] \in Ended \cup PlacesOf(p)
      /\ \A p \in Patch : pc[p] \in Ended \cup {"look_up", "create", "save", "forget"} \X {"profile"}
  BY DEF TypeOK, Process, User, Key, PlacesOf
<1>a. Onward => \A p \in Patch : Overlapped(p) => Overlapped(p)'
  BY DEF Overlapped, User
<1>b. Saved \subseteq Patch
  BY DEF Saved
<1>1. ASSUME Onward, SameRows, Saved' \subseteq Saved, \A q \in Patch : Kept(q)
      PROVE  PatchInv'
  <2>1. \A p \in Saved' : p \in row'[<<"profile", User(p)>>] \/ Overlapped(p)'
    BY <1>0, <1>a, <1>b, <1>1 DEF PatchInv
  <2>2. \A q \in Patch : \A p \in knew'[q] : p \in Patch /\ pc'[p] \in Past
    BY <1>1 DEF PatchInv
  <2>3. ASSUME NEW q \in Patch, pc'[q] = <<"save", "profile">>,
               NEW p \in Saved' \cap knew'[q], User(p) = User(q)
        PROVE  p \in got'[q] \/ Overlapped(p)'
    BY <1>a, <1>b, <1>1, <2>3 DEF PatchInv
  <2> QED
    BY <2>1, <2>2, <2>3 DEF PatchInv, User
<1>2. ASSUME NEW p \in Patch, Onward, SameRows, Saved' \subseteq Saved,
             \A q \in Patch \ {p} : Kept(q),
             knew'[p] = Saved, got'[p] = row[<<"profile", User(p)>>]
      PROVE  PatchInv'
  <2>1. \A r \in Saved' : r \in row'[<<"profile", User(r)>>] \/ Overlapped(r)'
    BY <1>0, <1>a, <1>b, <1>2 DEF PatchInv
  <2>2. \A q \in Patch : \A r \in knew'[q] : r \in Patch /\ pc'[r] \in Past
    BY <1>b, <1>2 DEF PatchInv, Saved, Past
  <2>3. ASSUME NEW q \in Patch, pc'[q] = <<"save", "profile">>,
               NEW r \in Saved' \cap knew'[q], User(r) = User(q)
        PROVE  r \in got'[q] \/ Overlapped(r)'
    <3>1. CASE q = p
      BY <1>a, <1>b, <1>2, <2>3, <3>1 DEF PatchInv
    <3>2. CASE q # p
      BY <1>a, <1>b, <1>2, <2>3, <3>2 DEF PatchInv
    <3> QED
      BY <3>1, <3>2
  <2> QED
    BY <2>1, <2>2, <2>3 DEF PatchInv, User
<1>3. ASSUME NEW p \in Process, Save(p) PROVE PatchInv'
  <2>1. p \in Patch /\ pc[p] = <<"save", "profile">> /\ KeyOf(p) = <<"profile", User(p)>>
    BY <1>0, <1>3 DEF Save, At, KeyOf, PlacesOf, Ended, Reading
  <2>2. /\ knew' = knew /\ pc'[p] = <<"forget", "profile">>
        /\ \A q \in Process \ {p} : pc'[q] = pc[q] /\ got'[q] = got[q]
        /\ row'[<<"profile", User(p)>>] = got[p] \cup {p}
        /\ \A s \in Signup \ {User(p)} : row'[<<"profile", s>>] = row[<<"profile", s>>]
    BY <1>0, <1>3, <2>1 DEF Save, Goto
  <2>3. Onward /\ Saved' = Saved \cup {p}
    BY <1>0, <2>1, <2>2 DEF Past, Saved
  <2>4. ASSUME NEW r \in Saved' PROVE r \in row'[<<"profile", User(r)>>] \/ Overlapped(r)'
    <3>1. CASE r = p
      BY <2>2, <3>1
    <3>2. CASE r # p /\ User(r) # User(p)
      BY <1>0, <1>a, <1>b, <2>2, <2>3, <2>4, <3>2 DEF PatchInv
    <3>3. CASE r # p /\ User(r) = User(p) /\ r \in knew[p]
      BY <1>0, <1>a, <1>b, <2>1, <2>2, <2>3, <2>4, <3>3 DEF PatchInv
    <3>4. CASE r # p /\ User(r) = User(p) /\ r \notin knew[p]
      BY <2>1, <2>2, <3>4 DEF Overlapped, Past, User
    <3> QED
      BY <3>1, <3>2, <3>3, <3>4
  <2>5. \A q \in Patch : \A r \in knew'[q] : r \in Patch /\ pc'[r] \in Past
    BY <2>2, <2>3 DEF PatchInv
  <2>6. ASSUME NEW q \in Patch, pc'[q] = <<"save", "profile">>,
               NEW r \in Saved' \cap knew'[q], User(r) = User(q)
        PROVE  r \in got'[q] \/ Overlapped(r)'
    <3>1. q # p /\ r # p
      BY <2>1, <2>2, <2>6 DEF PatchInv, Past
    <3> QED
      BY <1>0, <1>a, <1>b, <2>2, <2>3, <2>6, <3>1 DEF PatchInv
  <2> QED
    BY <2>4, <2>5, <2>6 DEF PatchInv, User
<1>4. ASSUME NEW p \in Process, LookUp(p) PROVE PatchInv'
  <2>1. p \in Patch /\ pc[p] = <<"look_up", "profile">> /\ KeyOf(p) = <<"profile", User(p)>>
    BY <1>0, <1>4 DEF LookUp, At, KeyOf, PlacesOf, Ended, Reading
  <2>2. /\ row' = row /\ knew'[p] = Saved /\ got'[p] = row[<<"profile", User(p)>>]
        /\ pc'[p] \in {<<"ended", "refused">>, <<"save", "profile">>, <<"create", "profile">>}
        /\ \A q \in Patch \ {p} : pc'[q] = pc[q] /\ got'[q] = got[q] /\ knew'[q] = knew[q]
    BY <1>0, <1>4, <2>1 DEF LookUp, Goto, database
  <2>3. Onward /\ Saved' \subseteq Saved
    BY <2>1, <2>2 DEF Past, Saved
  <2> QED
    BY <1>2, <2>1, <2>2, <2>3
<1>5. ASSUME NEW p \in Process, CreateProfile(p) PROVE PatchInv'
  <2>1. pc[p] = <<"create", "profile">> /\ KeyOf(p) = <<"profile", User(p)>>
    BY <1>5 DEF CreateProfile, At, KeyOf
  <2>2. /\ row' = row /\ got'[p] = row[<<"profile", User(p)>>]
        /\ knew'[p] = IF p \in Patch THEN Saved ELSE knew[p]
        /\ pc'[p] \in {<<"save", "profile">>, <<"fill", "profile">>}
        /\ \A q \in Process \ {p} : pc'[q] = pc[q] /\ got'[q] = got[q] /\ knew'[q] = knew[q]
    BY <1>0, <1>5, <2>1 DEF CreateProfile, AfterCreate, Goto
  <2>3. Onward /\ Saved' \subseteq Saved
    BY <1>0, <2>1, <2>2 DEF Past, Saved
  <2>4. CASE p \in Patch
    BY <1>0, <1>2, <2>2, <2>3, <2>4
  <2>5. CASE p \notin Patch
    BY <1>0, <1>1, <2>2, <2>3, <2>5
  <2> QED
    BY <2>4, <2>5
<1>6. ASSUME NEW p \in Process, \/ CheckName(p) \/ CheckMail(p) \/ CreateUser(p)
                               \/ Get(p) \/ Load(p) \/ Fill(p)
      PROVE  PatchInv'
  <2>1. p \notin Patch /\ row' = row
    BY <1>0, <1>6 DEF CheckName, CheckMail, CreateUser, Get, Load, Fill, At, Doing, Ended, database
  <2>2. \A q \in Patch : pc'[q] = pc[q] /\ got'[q] = got[q] /\ knew'[q] = knew[q]
    BY <1>0, <1>6, <2>1 DEF CheckName, CheckMail, CreateUser, Get, Load, Fill, AfterRead, Goto
  <2> QED
    BY <1>1, <2>1, <2>2 DEF Saved
<1>7. ASSUME NEW p \in Process, LogIn(p) PROVE PatchInv'
  <2>a. p \notin Patch
    BY <1>0, <1>7 DEF LogIn, At, Ended
  <2>b. \A key \in Key : key # UserKey(p) => row'[key] = row[key]
    BY <1>0, <1>7 DEF LogIn
  <2>1. p \notin Patch /\ SameRows
    BY <1>0, <2>a, <2>b DEF UserKey, Key
  <2>2. \A q \in Patch : pc'[q] = pc[q] /\ got'[q] = got[q] /\ knew'[q] = knew[q]
    BY <1>0, <1>7, <2>1 DEF LogIn, Goto
  <2> QED
    BY <1>1, <2>1, <2>2 DEF Saved
<1>8. ASSUME NEW p \in Process, Forget(p) \/ MemcachedFails(p) \/ Crash(p) PROVE PatchInv'
  <2>1. row' = row /\ knew' = knew
    BY <1>8 DEF Forget, MemcachedFails, Crash, database
  <2>2. \A q \in Patch \ {p} : pc'[q] = pc[q] /\ got'[q] = got[q]
    BY <1>0, <1>8 DEF Forget, MemcachedFails, Crash, AfterForget, AfterRead, Goto
  <2>3. p \in Patch => \/ pc[p] = <<"forget", "profile">> /\ pc'[p] = <<"ended", "done">>
                       \/ pc[p] \notin Ended /\ pc'[p] = <<"ended", "crashed">>
    BY <1>0, <1>8
    DEF Forget, MemcachedFails, Crash, AfterForget, Goto, Doing, Ended
  <2>4. Onward /\ Saved' \subseteq Saved /\ \A q \in Patch : Kept(q)
    BY <2>1, <2>2, <2>3 DEF Past, Saved, Ended
  <2> QED
    BY <1>1, <2>1, <2>4
<1>9. CASE Timeout \/ UNCHANGED vars
  <2>1. row' = row /\ knew' = knew /\ pc' = pc /\ got' = got
    BY <1>9 DEF Timeout, vars, database
  <2> QED
    BY <1>1, <2>1 DEF Saved
<1> QED
  BY <1>3, <1>4, <1>5, <1>6, <1>7, <1>8, <1>9 DEF Next, RequestStep, ReadStep

(* A saved PATCH is lost only to an update that was under way with it:      *)
(* neither a login, nor a get_or_create, nor a copy in memcached can take a *)
(* saved value out of the row.                                              *)
THEOREM PatchLost == Spec => []LostOnlyToOverlap
<1>1. Init => PatchInv
  <2> SUFFICES ASSUME Init PROVE PatchInv
    OBVIOUS
  <2>1. \A p \in Patch : p \in Process /\ knew[p] = {} /\ pc[p] \in Ended \cup PlacesOf(p)
    BY InitTypes DEF Init, Process, TypeOK
  <2>2. \A p \in Patch : pc[p] # <<"ended", "done">> /\ pc[p][1] # "save"
    BY <2>1, InitTypes
  <2>3. \A p \in Patch : pc[p] # <<"forget", "profile">>
    BY <2>1 DEF Init
  <2> QED
    BY <2>1, <2>2, <2>3 DEF PatchInv, Saved
<1>2. PatchInv => LostOnlyToOverlap
  BY DEF PatchInv, LostOnlyToOverlap, Overlapped, Past, Saved
<1> QED
  BY <1>1, <1>2, InitTypes, TypeStep, PatchStep, PTL DEF Spec

-----------------------------------------------------------------------------
(* The pages of a list hold it, all but the last are full, and a longer     *)
(* list has no fewer.                                                       *)
LEMMA Division ==
  ASSUME NEW a \in Nat, NEW b \in Nat \ {0}
  PROVE  /\ a \div b \in Nat
         /\ b * (a \div b) <= a
         /\ a < b * (a \div b) + b
BY SMTT(30)

LEMMA PagesHold ==
  ASSUME NEW count \in Nat
  PROVE  Pages(count) \in Nat \ {0} /\ count <= Pages(count) * PageSize
<1> USE InboxAssumption
<1>1. CASE count = 0
  BY <1>1 DEF Pages
<1>2. CASE count # 0
  <2> DEFINE q == (count + PageSize - 1) \div PageSize
  <2>1. count + PageSize - 1 \in Nat
    BY <1>2
  <2>2. q \in Nat /\ count + PageSize - 1 < PageSize * q + PageSize
    BY <2>1, Division
  <2>3. Pages(count) = q
    BY <1>2 DEF Pages
  <2> HIDE DEF q
  <2>4. count <= PageSize * q
    BY <2>2
  <2>5. q # 0
    BY <2>4, <1>2
  <2> QED
    BY <2>2, <2>3, <2>4, <2>5
<1> QED
  BY <1>1, <1>2

LEMMA FullPages ==
  ASSUME NEW count \in Nat, NEW before \in Nat \ {0}, before < Pages(count)
  PROVE  before * PageSize <= count
<1> USE InboxAssumption
<1>1. count # 0
  BY DEF Pages
<1> DEFINE q == (count + PageSize - 1) \div PageSize
<1>2. count + PageSize - 1 \in Nat
  BY <1>1
<1>3. q \in Nat /\ PageSize * q <= count + PageSize - 1
  BY <1>2, Division
<1>4. Pages(count) = q
  BY <1>1 DEF Pages
<1> HIDE DEF q
<1>5. before + 1 <= q
  BY <1>3, <1>4
<1>6. PageSize * (before + 1) <= PageSize * q
  BY <1>3, <1>5
<1>7. PageSize * (before + 1) = (before * PageSize) + PageSize
  OBVIOUS
<1>8. before * PageSize \in Nat /\ PageSize * q \in Nat
  BY <1>3
<1> QED
  BY <1>3, <1>6, <1>7, <1>8

LEMMA PagesGrow ==
  ASSUME NEW count \in Nat, NEW more \in Nat, count <= more
  PROVE  Pages(count) <= Pages(more)
<1> USE InboxAssumption
<1>1. CASE count = 0
  BY <1>1, PagesHold DEF Pages
<1>2. CASE count # 0
  <2> DEFINE q == (count + PageSize - 1) \div PageSize
             r == (more + PageSize - 1) \div PageSize
  <2>1. count + PageSize - 1 \in Nat /\ more + PageSize - 1 \in Nat
    BY <1>2
  <2>2. q \in Nat /\ PageSize * q <= count + PageSize - 1
    BY <2>1, Division
  <2>3. r \in Nat /\ more + PageSize - 1 < PageSize * r + PageSize
    BY <2>1, Division
  <2>4. Pages(count) = q /\ Pages(more) = r
    BY <1>2 DEF Pages
  <2> HIDE DEF q, r
  <2>5. PageSize * q < PageSize * r + PageSize
    BY <2>2, <2>3
  <2>6. ASSUME q > r PROVE FALSE
    <3>1. PageSize * q >= PageSize * (r + 1)
      BY <2>6, <2>2, <2>3
    <3>2. PageSize * (r + 1) = PageSize * r + PageSize
      BY <2>3
    <3> QED
      BY <3>1, <3>2, <2>2, <2>3, <2>5
  <2> QED
    BY <2>2, <2>3, <2>4, <2>6
<1> QED
  BY <1>1, <1>2

(* A row's place in a list; one in a shorter list is no later.              *)
PlaceIn(n, list) == Cardinality({m \in list : m >= n})

LEMMA PlacesGrow ==
  ASSUME NEW list, NEW longer, IsFiniteSet(longer), list \subseteq longer, NEW n
  PROVE  /\ PlaceIn(n, list) \in Nat /\ PlaceIn(n, longer) \in Nat
         /\ PlaceIn(n, list) <= PlaceIn(n, longer)
         /\ PlaceIn(n, longer) <= Cardinality(longer)
<1> DEFINE after(some) == {m \in some : m >= n}
<1>1. IsFiniteSet(after(longer)) /\ Cardinality(after(longer)) <= Cardinality(longer)
  <2>1. after(longer) \subseteq longer
    OBVIOUS
  <2> QED
    BY <2>1, FS_Subset
<1>2. /\ IsFiniteSet(after(list))
      /\ Cardinality(after(list)) <= Cardinality(after(longer))
  <2>1. after(list) \subseteq after(longer)
    OBVIOUS
  <2> QED
    BY <2>1, <1>1, FS_Subset
<1>3. Cardinality(after(list)) \in Nat /\ Cardinality(after(longer)) \in Nat
  BY <1>1, <1>2, FS_CardinalityType
<1> QED
  BY <1>1, <1>2, <1>3 DEF PlaceIn

-----------------------------------------------------------------------------
(* The rows' ids, and the list of them that the client asks for.            *)
Finite == IsFiniteSet(Listed) /\ Cardinality(Listed) \in Nat

LEMMA Lists == InboxTypeOK => Finite /\ DOMAIN inbox = 1..Len(inbox) /\ Len(inbox) \in Nat
<1> SUFFICES ASSUME InboxTypeOK
             PROVE  Finite /\ DOMAIN inbox = 1..Len(inbox) /\ Len(inbox) \in Nat
  OBVIOUS
<1>1. DOMAIN inbox = 1..Len(inbox) /\ Len(inbox) \in Nat
  BY DEF InboxTypeOK
<1>2. IsFiniteSet(DOMAIN inbox)
  BY <1>1, FS_Interval
<1>3. Listed \subseteq DOMAIN inbox
  BY DEF Listed
<1>4. IsFiniteSet(Listed)
  BY <1>2, <1>3, FS_Subset
<1> QED
  BY <1>1, <1>4, FS_CardinalityType DEF Finite

(* Every step keeps the types.                                              *)
LEMMA InboxTypeStep == InboxTypeOK /\ [InboxNext]_inboxVars => InboxTypeOK'
<1> SUFFICES ASSUME InboxTypeOK, [InboxNext]_inboxVars PROVE InboxTypeOK'
  OBVIOUS
<1> USE InboxAssumption DEF rows, walk
<1>a. DOMAIN inbox = 1..Len(inbox) /\ Len(inbox) \in Nat /\ Cardinality(Listed) \in Nat
  BY Lists DEF Finite
<1>b. Listed \subseteq DOMAIN inbox
  BY DEF Listed
<1>1. ASSUME NEW n \in Notice, Notify(n) PROVE InboxTypeOK'
  <2>1. /\ due' \subseteq due /\ {entered', left', torn'} \subseteq BOOLEAN
        /\ UNCHANGED <<at, filter, page, total, shown, repeated>>
    BY <1>1 DEF Notify, Shifts, InboxTypeOK
  <2>2. CASE n \in Own
    BY <1>1, <2>1, <2>2 DEF Notify, InboxTypeOK
  <2>3. CASE n \notin Own
    <3>1. /\ inbox' = Append(inbox, n) /\ n \notin sent /\ sent' = sent \cup {n}
          /\ unread' = unread \cup {Len(inbox')}
      BY <1>1, <2>3 DEF Notify
    <3>2. /\ inbox' \in Seq(Notice \ Own) /\ Len(inbox') = Len(inbox) + 1
          /\ DOMAIN inbox' = 1..Len(inbox) + 1
      BY <3>1, <2>3 DEF InboxTypeOK
    <3>3. inbox'[Len(inbox) + 1] = n /\ \A m \in DOMAIN inbox : inbox'[m] = inbox[m]
      BY <3>1, <1>a DEF InboxTypeOK
    <3>4. \A m \in DOMAIN inbox' : m \in DOMAIN inbox \/ m = Len(inbox) + 1
      BY <3>2, <1>a
    <3>5. \A m \in DOMAIN inbox : inbox[m] # n /\ inbox[m] \in sent
      BY <3>1 DEF InboxTypeOK
    <3>6. \A m \in DOMAIN inbox' : inbox'[m] \in sent'
      BY <3>1, <3>3, <3>4, <3>5
    <3>7. \A l, m \in DOMAIN inbox' : inbox'[l] = inbox'[m] => l = m
      BY <3>3, <3>4, <3>5 DEF InboxTypeOK
    <3>8. DOMAIN inbox \subseteq DOMAIN inbox' /\ Len(inbox') \in DOMAIN inbox'
      BY <3>2, <1>a
    <3>9. unread' \cup shown' \cup due' \subseteq DOMAIN inbox'
      BY <3>1, <3>8, <2>1 DEF InboxTypeOK
    <3> QED
      BY <3>1, <3>2, <3>6, <3>7, <3>9, <2>1 DEF InboxTypeOK
  <2> QED
    BY <2>2, <2>3
<1>2. ASSUME NEW n \in DOMAIN inbox, Update(n) PROVE InboxTypeOK'
  BY <1>2 DEF Update, Shifts, InboxTypeOK
<1>3. ASSUME MarkAllAsRead PROVE InboxTypeOK'
  BY <1>3 DEF MarkAllAsRead, Shifts, InboxTypeOK
<1>4. ASSUME CountRows PROVE InboxTypeOK'
  BY <1>4, <1>a, <1>b DEF CountRows, InboxTypeOK
<1>5. ASSUME SelectRows PROVE InboxTypeOK'
  <2>1. Results \subseteq DOMAIN inbox
    BY <1>b DEF Results, Slice
  <2> QED
    BY <1>5, <2>1 DEF SelectRows, InboxTypeOK
<1>6. ASSUME UNCHANGED inboxVars PROVE InboxTypeOK'
  BY <1>6 DEF inboxVars, InboxTypeOK
<1> QED
  BY <1>1, <1>2, <1>3, <1>4, <1>5, <1>6 DEF InboxNext

(* Every notification is a like or comment by another user, once; what the  *)
(* client has got are rows.                                                 *)
THEOREM InboxTypes == InboxSpec => []InboxTypeOK
<1>1. InboxInit => InboxTypeOK
  <2> SUFFICES ASSUME InboxInit PROVE InboxTypeOK
    OBVIOUS
  <2>1. inbox \in Seq(Notice \ Own) /\ DOMAIN inbox = {}
    BY DEF InboxInit
  <2>2. /\ sent = {} /\ unread = {} /\ shown = {} /\ due = {} /\ at = "start"
        /\ page \in Nat \ {0} /\ total \in Nat
    BY DEF InboxInit
  <2>3. filter \in Filter /\ {entered, left, torn, repeated} \subseteq BOOLEAN
    BY Zenon DEF InboxInit
  <2> QED
    BY <2>1, <2>2, <2>3, InboxAssumption DEF InboxTypeOK
<1> QED
  BY <1>1, InboxTypeStep, PTL DEF InboxSpec

-----------------------------------------------------------------------------
(* The walk has asked for the rows up to this place.                        *)
Passed == (page - 1) * PageSize

Walking == at \in {"select", "next"}

(* Without a row that has entered, what was shown is behind the next page.  *)
ShownIsBehind ==
  /\ Walking /\ ~entered => \A n \in Listed \cap shown : Place(n) <= Passed
  /\ repeated => entered

(* Without one that has left, what is behind the next page was shown; after *)
(* the last page that is all, but for a row that came between COUNT and     *)
(* SELECT.                                                                  *)
DueIsShown ==
  /\ due \subseteq Listed
  /\ Walking /\ ~left => \A n \in due : Place(n) <= Passed => n \in shown
  /\ at = "end" /\ ~left /\ ~torn => due \subseteq shown

(* The COUNT is too small only once a row has come, too large only once one *)
(* has left; so the page that it promised is there.                         *)
CountIsGood ==
  /\ at = "select" /\ ~torn => Cardinality(Listed) <= total
  /\ at = "select" /\ ~left => total <= Cardinality(Listed)
  /\ at = "next" /\ ~left => page <= Pages(Cardinality(Listed))
  /\ at = "not_found" => left
  /\ left => filter # "all"

Begins == at = "start" => page = 1 /\ shown = {} /\ due = {} /\ ~repeated

WalkInv == Begins /\ ShownIsBehind /\ DueIsShown /\ CountIsGood

-----------------------------------------------------------------------------
(* Whoever writes leaves the walk where it is; without ?unread= nothing     *)
(* leaves its list.                                                         *)
Written == Shifts /\ UNCHANGED walk /\ (filter = "all" => Listed \subseteq Listed')

LEMMA WritesShift ==
  ASSUME InboxTypeOK, InboxTypeOK',
         (\E n \in Notice : Notify(n)) \/ (\E n \in DOMAIN inbox : Update(n)) \/ MarkAllAsRead
  PROVE  Written
<1>1. Shifts /\ UNCHANGED walk
  BY DEF Notify, Update, MarkAllAsRead, walk
<1>2. DOMAIN inbox \subseteq DOMAIN inbox'
  <2>1. ASSUME NEW n \in Notice, Notify(n) PROVE DOMAIN inbox \subseteq DOMAIN inbox'
    <3>1. CASE n \in Own
      BY <2>1, <3>1 DEF Notify
    <3>2. CASE n \notin Own
      <4>1. inbox \in Seq(Notice \ Own) /\ inbox' = Append(inbox, n)
        BY <2>1, <3>2 DEF Notify, InboxTypeOK
      <4> QED
        BY <4>1
    <3> QED
      BY <3>1, <3>2
  <2> QED
    BY <2>1 DEF Update, MarkAllAsRead
<1>3. filter' = filter
  BY <1>1 DEF walk
<1> QED
  BY <1>1, <1>2, <1>3 DEF Written, Listed

(* The walk's invariant outlasts what others write.                         *)
LEMMA WritesKeep ==
  ASSUME InboxTypeOK, InboxTypeOK', WalkInv, Written
  PROVE  WalkInv'
<1>1. /\ at' = at /\ filter' = filter /\ page' = page /\ total' = total
      /\ shown' = shown /\ repeated' = repeated
  BY DEF Written, walk
<1>2. /\ due' = due \cap Listed'
      /\ ~entered' => ~entered /\ Listed' \subseteq Listed
  BY DEF Written, Shifts
<1>3. /\ ~left' => ~left /\ Listed \subseteq Listed'
      /\ ~torn' /\ at = "select" => Listed' \subseteq Listed
      /\ ~torn' => ~torn
  BY DEF Written, Shifts
<1>4. /\ IsFiniteSet(Listed) /\ IsFiniteSet(Listed')
      /\ Cardinality(Listed) \in Nat /\ Cardinality(Listed') \in Nat
  <2>1. Finite /\ Finite'
    BY Lists, PTL
  <2> QED
    BY <2>1 DEF Finite
<1>5. /\ Listed \subseteq Listed' => Cardinality(Listed) <= Cardinality(Listed')
      /\ Listed' \subseteq Listed => Cardinality(Listed') <= Cardinality(Listed)
  BY <1>4, FS_Subset
<1>6. /\ \A n : Place(n) = PlaceIn(n, Listed) /\ Place(n)' = PlaceIn(n, Listed')
      /\ Passed' = Passed /\ Walking' = Walking
  BY <1>1 DEF Place, PlaceIn, Passed, Walking
<1>7. Passed \in Int
  BY InboxAssumption DEF Passed, InboxTypeOK
<1>8. Begins'
  BY <1>1, <1>2 DEF WalkInv, Begins
<1>9. ShownIsBehind'
  <2>1. ASSUME Walking, ~entered', NEW n \in Listed', n \in shown PROVE Place(n)' <= Passed'
    <3>1. ~entered /\ Listed' \subseteq Listed /\ n \in Listed
      BY <2>1, <1>2
    <3>2. Place(n) <= Passed
      BY <2>1, <3>1 DEF WalkInv, ShownIsBehind
    <3>3. /\ PlaceIn(n, Listed') \in Nat /\ PlaceIn(n, Listed) \in Nat
          /\ PlaceIn(n, Listed') <= PlaceIn(n, Listed)
      BY <3>1, <1>4, PlacesGrow
    <3> QED
      BY <3>2, <3>3, <1>6, <1>7
  <2>2. repeated' => entered'
    BY <1>1, <1>2 DEF WalkInv, ShownIsBehind
  <2> QED
    BY <2>1, <2>2, <1>1, <1>6 DEF ShownIsBehind
<1>10. DueIsShown'
  <2>1. ASSUME Walking, ~left', NEW n \in due', Place(n)' <= Passed' PROVE n \in shown'
    <3>1. ~left /\ Listed \subseteq Listed' /\ n \in due
      BY <2>1, <1>2, <1>3
    <3>2. /\ PlaceIn(n, Listed') \in Nat /\ PlaceIn(n, Listed) \in Nat
          /\ PlaceIn(n, Listed) <= PlaceIn(n, Listed')
      BY <3>1, <1>4, PlacesGrow
    <3>3. Place(n) <= Passed
      BY <3>2, <2>1, <1>6, <1>7
    <3> QED
      BY <3>1, <3>3, <2>1, <1>1 DEF WalkInv, DueIsShown
  <2>2. at' = "end" /\ ~left' /\ ~torn' => due' \subseteq shown'
    BY <1>1, <1>2, <1>3 DEF WalkInv, DueIsShown
  <2> QED
    BY <2>1, <2>2, <1>2, <1>6 DEF DueIsShown
<1>11. CountIsGood'
  <2>1. at' = "select" /\ ~torn' => Cardinality(Listed') <= total'
    BY <1>1, <1>3, <1>4, <1>5 DEF WalkInv, CountIsGood, InboxTypeOK
  <2>2. at' = "select" /\ ~left' => total' <= Cardinality(Listed')
    BY <1>1, <1>3, <1>4, <1>5 DEF WalkInv, CountIsGood, InboxTypeOK
  <2>3. at' = "next" /\ ~left' => page' <= Pages(Cardinality(Listed'))
    <3> SUFFICES ASSUME at' = "next", ~left' PROVE page' <= Pages(Cardinality(Listed'))
      OBVIOUS
    <3>1. page <= Pages(Cardinality(Listed))
      BY <1>1, <1>3 DEF WalkInv, CountIsGood
    <3>2. Pages(Cardinality(Listed)) <= Pages(Cardinality(Listed'))
      BY <1>3, <1>4, <1>5, PagesGrow
    <3>3. /\ Pages(Cardinality(Listed)) \in Nat /\ Pages(Cardinality(Listed')) \in Nat
          /\ page \in Nat
      BY <1>4, PagesHold DEF InboxTypeOK
    <3> QED
      BY <3>1, <3>2, <3>3, <1>1
  <2>4. at' = "not_found" => left'
    BY <1>1, <1>3 DEF WalkInv, CountIsGood
  <2>5. left' => filter' # "all"
    BY <1>1 DEF Written, Shifts, WalkInv, CountIsGood
  <2>6. Pages(Cardinality(Listed))' = Pages(Cardinality(Listed'))
    BY DEF Pages
  <2> QED
    BY <2>1, <2>2, <2>3, <2>4, <2>5, <2>6 DEF CountIsGood
<1> QED
  BY <1>8, <1>9, <1>10, <1>11 DEF WalkInv

-----------------------------------------------------------------------------
(* The COUNT of a page.                                                     *)
LEMMA CountKeeps ==
  ASSUME InboxTypeOK, WalkInv, CountRows
  PROVE  WalkInv'
<1>1. /\ Listed' = Listed /\ filter' = filter /\ page' = page /\ shown' = shown
      /\ torn' = torn /\ repeated' = repeated /\ Passed' = Passed
      /\ \A n : Place(n)' = Place(n)
      /\ Pages(Cardinality(Listed))' = Pages(Cardinality(Listed))
  BY DEF CountRows, rows, Listed, Passed, Place, Pages
<1>2. Finite
  BY Lists
<1>3. CASE at = "start"
  <2>1. /\ at' = "select" /\ total' = Cardinality(Listed)
        /\ due' = Listed /\ ~entered' /\ ~left'
    BY <1>3 DEF CountRows
  <2>2. page = 1 /\ shown = {} /\ ~repeated
    BY <1>3 DEF WalkInv, Begins
  <2>3. Passed = 0
    BY <2>2, InboxAssumption DEF Passed
  <2>4. Begins' /\ ShownIsBehind'
    BY <1>1, <2>1, <2>2 DEF Begins, ShownIsBehind
  <2>5. DueIsShown'
    <3>1. \A n \in Listed : Place(n) > 0
      <4> TAKE n \in Listed
      <4>1. n \in {m \in Listed : m >= n}
        <5>1. n \in Nat
          BY Lists DEF Listed
        <5> QED
          BY <5>1
      <4>2. IsFiniteSet({m \in Listed : m >= n})
        BY <1>2, FS_Subset, {m \in Listed : m >= n} \subseteq Listed DEF Finite
      <4> QED
        BY <4>1, <4>2, FS_EmptySet, FS_CardinalityType DEF Place
    <3>2. \A n \in due' : ~(Place(n)' <= Passed')
      <4>1. \A n \in Listed : Place(n) \in Nat
        BY <1>2, PlacesGrow DEF Finite, Place, PlaceIn
      <4> QED
        BY <3>1, <4>1, <2>1, <2>3, <1>1
    <3> QED
      BY <3>2, <1>1, <2>1 DEF DueIsShown
  <2>6. CountIsGood'
    BY <1>1, <1>2, <2>1 DEF CountIsGood, Finite
  <2> QED
    BY <2>4, <2>5, <2>6 DEF WalkInv
<1>4. CASE at = "next"
  <2>1. due' = due /\ entered' = entered /\ left' = left
    BY <1>4 DEF CountRows
  <2>2. \/ page <= Pages(Cardinality(Listed)) /\ at' = "select" /\ total' = Cardinality(Listed)
        \/ ~(page <= Pages(Cardinality(Listed))) /\ at' = "not_found"
    BY <1>4 DEF CountRows
  <2>3. Begins' /\ ShownIsBehind' /\ DueIsShown'
    BY <1>1, <1>4, <2>1, <2>2 DEF WalkInv, Begins, ShownIsBehind, DueIsShown, Walking
  <2>4. CountIsGood'
    BY <1>1, <1>2, <1>4, <2>1, <2>2 DEF WalkInv, CountIsGood, Finite
  <2> QED
    BY <2>3, <2>4 DEF WalkInv
<1> QED
  BY <1>3, <1>4 DEF CountRows

(* The SELECT of a page.                                                    *)
LEMMA SelectKeeps ==
  ASSUME InboxTypeOK, WalkInv, SelectRows
  PROVE  WalkInv'
<1> DEFINE upTo == page * PageSize
<1>1. /\ Listed' = Listed /\ filter' = filter /\ total' = total /\ due' = due
      /\ entered' = entered /\ left' = left /\ torn' = torn
      /\ \A n : Place(n)' = Place(n)
      /\ Pages(Cardinality(Listed))' = Pages(Cardinality(Listed))
  BY DEF SelectRows, rows, Listed, Place, Pages
<1>2. /\ at = "select" /\ shown' = shown \cup Results
      /\ repeated' = (repeated \/ Results \cap shown # {})
  BY DEF SelectRows
<1>3. \/ page < Pages(total) /\ at' = "next" /\ page' = page + 1
      \/ ~(page < Pages(total)) /\ at' = "end" /\ page' = page
  BY DEF SelectRows
<1>4. Finite /\ \A n : Place(n) \in Nat /\ Place(n) <= Cardinality(Listed)
  <2>1. Finite
    BY Lists
  <2> QED
    BY <2>1, PlacesGrow DEF Finite, Place, PlaceIn
<1>5. /\ upTo \in Nat /\ Passed \in Nat /\ Passed < upTo
      /\ at' = "next" => Passed' = upTo
  <2>1. page \in Nat \ {0} /\ PageSize \in Nat \ {0}
    BY InboxAssumption DEF InboxTypeOK
  <2>2. Passed \in Nat /\ upTo = Passed + PageSize
    BY <2>1 DEF Passed
  <2>3. at' = "next" => Passed' = upTo
    BY <1>3, <2>1 DEF Passed
  <2> QED
    BY <2>1, <2>2, <2>3
<1> HIDE DEF upTo
<1>6. \A n : n \in Results => (n \in Listed /\ Passed < Place(n) /\ Place(n) <= upTo)
  <2>1. Results = {n \in Listed : Place(n) \in (Passed + 1)..upTo /\ Place(n) <= total}
    BY DEF Results, Slice, Passed, upTo
  <2> QED
    BY <2>1, <1>4, <1>5
<1>c. ASSUME NEW n \in Listed, Passed < Place(n), Place(n) <= upTo, Place(n) <= total
      PROVE  n \in Results
  <2>1. Results = {m \in Listed : Place(m) \in (Passed + 1)..upTo /\ Place(m) <= total}
    BY DEF Results, Slice, Passed, upTo
  <2>2. Place(n) \in (Passed + 1)..upTo
    BY <1>c, <1>4, <1>5
  <2> QED
    BY <2>1, <2>2, <1>c
<1>d. at' = "next" => upTo <= total
  <2> SUFFICES ASSUME at' = "next" PROVE upTo <= total
    OBVIOUS
  <2>1. page \in Nat \ {0} /\ total \in Nat /\ page < Pages(total)
    BY <1>3 DEF InboxTypeOK
  <2> QED
    BY <2>1, FullPages DEF upTo
<1>7. Begins'
  BY <1>3 DEF Begins
<1>8. ShownIsBehind'
  <2>1. ~entered => Results \cap shown = {}
    BY <1>2, <1>4, <1>5, <1>6 DEF WalkInv, ShownIsBehind, Walking
  <2>2. repeated' => entered'
    BY <1>1, <1>2, <2>1 DEF WalkInv, ShownIsBehind
  <2>3. ASSUME at' = "next", ~entered, NEW n \in Listed, n \in shown' PROVE Place(n) <= upTo
    <3>1. n \in shown => Place(n) <= Passed
      BY <2>3, <1>2 DEF WalkInv, ShownIsBehind, Walking
    <3> QED
      BY <3>1, <2>3, <1>2, <1>4, <1>5, <1>6
  <2> QED
    BY <2>2, <2>3, <1>1, <1>3, <1>5 DEF ShownIsBehind, Walking
<1>9. ASSUME ~left, NEW n \in due, Place(n) <= upTo, Place(n) <= total PROVE n \in shown'
  <2>1. Place(n) <= Passed => n \in shown
    BY <1>2, <1>9 DEF WalkInv, DueIsShown, Walking
  <2>2. n \in Listed
    BY DEF WalkInv, DueIsShown
  <2> QED
    BY <2>1, <2>2, <1>2, <1>4, <1>5, <1>c, <1>9
<1>10. DueIsShown'
  <2>1. at' = "end" /\ ~left /\ ~torn => due \subseteq shown'
    <3> SUFFICES ASSUME at' = "end", ~left, ~torn, NEW n \in due PROVE n \in shown'
      OBVIOUS
    <3>1. Cardinality(Listed) <= total /\ total \in Nat
      BY <1>2 DEF WalkInv, CountIsGood, InboxTypeOK
    <3>2. Pages(total) \in Nat /\ total <= Pages(total) * PageSize
      BY <3>1, PagesHold
    <3>3. page \in Nat /\ Pages(total) <= page
      BY <1>3, <3>2 DEF InboxTypeOK
    <3>4. Pages(total) * PageSize <= upTo
      BY <3>2, <3>3, InboxAssumption DEF upTo
    <3>5. Place(n) <= upTo
      <4>1. Pages(total) * PageSize \in Nat
        BY <3>2, InboxAssumption
      <4> QED
        BY <3>1, <3>2, <3>4, <4>1, <1>4, <1>5 DEF Finite
    <3>6. Place(n) <= total
      BY <3>1, <1>4 DEF Finite
    <3> QED
      BY <3>5, <3>6, <1>9
  <2>2. due \subseteq Listed
    BY DEF WalkInv, DueIsShown
  <2>3. ASSUME at' = "next", ~left, NEW n \in due, Place(n) <= upTo PROVE n \in shown'
    <3>1. Place(n) <= total
      BY <2>3, <1>d, <1>4, <1>5 DEF InboxTypeOK
    <3> QED
      BY <3>1, <2>3, <1>9
  <2> QED
    BY <2>1, <2>2, <2>3, <1>1, <1>3, <1>5 DEF DueIsShown, Walking
<1>11. CountIsGood'
  <2>1. ASSUME at' = "next", ~left PROVE page' <= Pages(Cardinality(Listed))
    <3>1. total <= Cardinality(Listed) /\ total \in Nat
      BY <1>2, <2>1 DEF WalkInv, CountIsGood, InboxTypeOK
    <3>2. /\ Pages(total) <= Pages(Cardinality(Listed))
          /\ Pages(total) \in Nat /\ Pages(Cardinality(Listed)) \in Nat
      BY <3>1, <1>4, PagesGrow, PagesHold DEF Finite
    <3> QED
      BY <3>2, <2>1, <1>3 DEF InboxTypeOK
  <2>2. left => filter # "all"
    BY DEF WalkInv, CountIsGood
  <2> QED
    BY <2>1, <2>2, <1>1, <1>3 DEF CountIsGood
<1> QED
  BY <1>7, <1>8, <1>10, <1>11 DEF WalkInv

LEMMA WalkStep == InboxTypeOK /\ InboxTypeOK' /\ WalkInv /\ [InboxNext]_inboxVars => WalkInv'
<1> SUFFICES ASSUME InboxTypeOK, InboxTypeOK', WalkInv, [InboxNext]_inboxVars PROVE WalkInv'
  OBVIOUS
<1>1. CASE (\E n \in Notice : Notify(n)) \/ (\E n \in DOMAIN inbox : Update(n)) \/ MarkAllAsRead
  BY <1>1, WritesShift, WritesKeep
<1>2. CASE CountRows
  BY <1>2, CountKeeps
<1>3. CASE SelectRows
  BY <1>3, SelectKeeps
<1>4. CASE UNCHANGED inboxVars
  BY <1>4 DEF inboxVars, rows, walk, WalkInv, Begins, ShownIsBehind, DueIsShown, CountIsGood,
       Walking, Passed, Listed, Place, Pages
<1> QED
  BY <1>1, <1>2, <1>3, <1>4 DEF InboxNext

(* Numbered pages shift under a client only as others write: a row is       *)
(* missed only if another has left the list or come between a COUNT and its *)
(* SELECT, shown twice only if another has come, and the link to the next   *)
(* page is broken only if rows have left.                                   *)
THEOREM PagesShiftByWrites == InboxSpec => []PagesShiftOnlyByWrites
<1>1. InboxInit => WalkInv
  <2> SUFFICES ASSUME InboxInit PROVE WalkInv
    OBVIOUS
  <2>1. at = "start" /\ page = 1 /\ shown = {} /\ due = {} /\ ~repeated /\ ~left
    BY DEF InboxInit
  <2> QED
    BY <2>1 DEF WalkInv, Begins, ShownIsBehind, DueIsShown, CountIsGood, Walking
<1>2. InboxTypeOK /\ WalkInv => PagesShiftOnlyByWrites
  BY DEF WalkInv, ShownIsBehind, DueIsShown, CountIsGood, PagesShiftOnlyByWrites
<1> QED
  BY <1>1, <1>2, WalkStep, InboxTypes, PTL DEF InboxSpec
=============================================================================
