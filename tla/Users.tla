-------------------------------- MODULE Users --------------------------------
(***************************************************************************)
(* The hubspot_account_membership resource and the hubspot_crm_user_profile*)
(* resource that depends on it.  The membership is a user of the account,  *)
(* known by a Settings user ID; the profile is what the CRM makes of that  *)
(* user some time later, known by another ID.  The provider removes a      *)
(* member only if it was allowed to earlier, and writes to either only     *)
(* what the configuration manages.                                         *)
(***************************************************************************)
EXTENDS WorkingHours

CONSTANTS
  Ids,         \* Settings user IDs
  CrmIds,      \* CRM user IDs
  Emails,      \* addresses
  Texts,       \* names and titles that people write
  Configs,     \* what the author may ask for, None to destroy
  Polls,       \* reads of a wait, of which the code makes twenty
  MaxTrouble,  \* bound on failures, crashes and foreign changes
  Blank,       \* the empty text
  Garbled,     \* working hours in a format the provider does not know
  None         \* nothing: no user, no profile, not managed

Fields == {"title", "zone", "hours"}
Names == Texts \cup {Blank}
Values == Names \cup {None, Garbled} \cup SUBSET Intervals

\* What may be asked for: a name or a property that is left out is None.
Wishes ==
  [email : Emails, first : Texts \cup {None}, last : Texts \cup {None}, welcome : BOOLEAN,
   allow : BOOLEAN, profile : {None} \cup [Fields -> Values]]

Persons == [email : Emails, first : Names, last : Names, life : {"active", "leaving", "gone"},
            super : BOOLEAN, assigned : BOOLEAN]
Profiles == [settings : Ids, values : [Fields -> Values]]
Members == [id : Ids, email : Emails, first : Names \cup {None}, last : Names \cup {None},
            welcome : BOOLEAN, allow : BOOLEAN]
Owned == [id : CrmIds, member : Ids, values : [Fields -> Values]]
Sights == [id : CrmIds, values : [Fields -> Values]]

ASSUME UsersAssumption ==
  /\ Ids \subseteq Nat \ {0} /\ CrmIds \subseteq Nat \ {0} /\ IsFiniteSet(CrmIds)
  /\ Polls \in Nat \ {0} /\ MaxTrouble \in Nat
  /\ Configs \subseteq {None} \cup Wishes
  /\ \A c \in Configs \ {None} : c.profile # None => c.profile["hours"] # Garbled
  /\ None \notin Persons \cup Profiles \cup Members \cup Owned \cup Sights \cup Wishes
  /\ Garbled # None

VARIABLES
  users,      \* the users of the account, by Settings ID
  profiles,   \* the CRM users, by CRM ID
  late,       \* requests whose caller has given up, still on their way
  config,     \* the configuration being applied
  member,     \* accountMembershipResourceModel
  profile,    \* crmUserProfileResourceModel
  tainted,    \* whether the creation of the member ended in an error
  phase,      \* what Terraform is doing
  todo,       \* the handlers of this run that remain, the running one first
  pc,         \* where the running one stands
  seen,       \* what it has read
  sent,       \* the profile properties it has sent last
  clear,      \* whether a removed member has been absent in every read so far
  count,      \* rounds of reads made
  failed,     \* whether this run has reported an error
  quiet,      \* whether nobody else has changed anything during this run
  consented,  \* members that an earlier run was told may be removed
  trouble     \* how much has gone wrong so far

portal == <<users, profiles, late>>
files == <<member, profile, tainted>>
handler == <<todo, pc, seen, sent, clear, count>>
frame == <<config, phase, quiet, consented>>
vars == <<portal, files, handler, failed, frame, trouble>>

Op == IF todo = <<>> THEN "none" ELSE Head(todo)

Init ==
  /\ \E e \in Emails, t \in Texts, s, a \in BOOLEAN :
       /\ ~(s /\ a)
       /\ users \in {[i \in Ids |-> None], [i \in Ids |-> IF i # 1 THEN None ELSE
            [email |-> e, first |-> t, last |-> t, life |-> "active", super |-> s, assigned |-> a]]}
  /\ profiles = [c \in CrmIds |-> None] /\ late = {}
  /\ config \in Configs
  /\ member = None /\ profile = None /\ tainted = FALSE
  /\ phase = "idle" /\ todo = <<>> /\ pc = "done"
  /\ seen = None /\ sent = {} /\ clear = TRUE /\ count = 0
  /\ failed = FALSE /\ quiet = TRUE /\ consented = {} /\ trouble = 0

----------------------------------------------------------------------------
(* HubSpot.                                                                *)

Active(i) == i \in Ids /\ users[i] # None /\ users[i].life = "active"
Holder(e) == {i \in Ids : users[i] # None /\ users[i].email = e}
ByEmail(e) == {i \in Holder(e) : Active(i)}

\* Adding an address that had been a member before brings that member back.
IdFor(e) == Holder(e) \cup (IF Holder(e) # {} THEN {} ELSE
              {i \in Ids : users[i] = None /\ \A j \in Ids : users[j] = None => i <= j})

Accepts(r) ==
  CASE r.kind = "create" -> ByEmail(r.email) = {} /\ IdFor(r.email) # {}
    [] r.kind \in {"rename", "remove"} -> Active(r.id)
    [] r.kind = "patch" -> /\ profiles[r.id] # None
                           /\ r.values["hours"] # None =>
                                profiles[r.id].values["zone"] # Blank

\* Whether a name update that leaves assignments out clears them is not
\* documented.  A removed member may stay in the collection for a while.
Outcomes(r) ==
  CASE r.kind = "create" ->
         {[email |-> r.email, first |-> r.first, last |-> r.last, life |-> "active",
           super |-> FALSE, assigned |-> FALSE]}
    [] r.kind = "rename" ->
         {[users[r.id] EXCEPT !.first = r.first, !.last = r.last, !.assigned = a] :
            a \in {users[r.id].assigned, FALSE}}
    [] r.kind = "remove" -> {[users[r.id] EXCEPT !.life = l] : l \in {"leaving", "gone"}}

TakeEffect(r) ==
  /\ Accepts(r)
  /\ IF r.kind = "patch"
       THEN /\ profiles' = [profiles EXCEPT ![r.id].values =
                 [f \in Fields |-> IF r.values[f] = None THEN @[f] ELSE r.values[f]]]
            /\ UNCHANGED users
       ELSE /\ \E i \in IF r.kind = "create" THEN IdFor(r.email) ELSE {r.id} :
                 \E u \in Outcomes(r) : users' = [users EXCEPT ![i] = u]
            /\ UNCHANGED profiles

Disturb == trouble < MaxTrouble /\ trouble' = trouble + 1

----------------------------------------------------------------------------
(* How a handler goes on and ends.                                         *)

Entry == [readMember |-> "get", readProfile |-> "check", createMember |-> "create",
          updateMember |-> "look", deleteMember |-> "guard", createProfile |-> "check",
          updateProfile |-> "check", dropProfile |-> "drop"]

Turn(rest) ==
  /\ todo' = rest
  /\ pc' = IF rest = <<>> THEN "done" ELSE Entry[Head(rest)]
  /\ seen' = None /\ sent' = {} /\ clear' = TRUE /\ count' = 0

\* What depends on a failed handler is not run.
Fail == Turn(<<>>) /\ failed' = TRUE /\ UNCHANGED files

SetMember(m) ==
  /\ Turn(Tail(todo))
  /\ member' = m /\ tainted' = FALSE
  /\ UNCHANGED <<profile, failed>>
SetProfile(p) ==
  /\ Turn(Tail(todo))
  /\ profile' = p
  /\ UNCHANGED <<member, tainted, failed>>

Goto(l, s) ==
  /\ pc' = l /\ seen' = s
  /\ UNCHANGED <<todo, sent, clear, count, files, failed>>

\* One more round of a wait, from where it begins.
AgainOnceMore(l) ==
  /\ count < Polls
  /\ count' = count + 1 /\ pc' = l /\ clear' = TRUE
  /\ UNCHANGED <<todo, seen, sent, files, failed>>
Again(l) ==
  /\ count + 1 < Polls
  /\ count' = count + 1 /\ pc' = l /\ clear' = TRUE
  /\ UNCHANGED <<todo, seen, sent, files, failed>>
AgainOrFail(l) == Again(l) \/ (count + 1 = Polls /\ Fail)

\* accountMembershipModelFromRemote
Member(i, w, a) == [id |-> i, email |-> users[i].email, first |-> users[i].first,
                    last |-> users[i].last, welcome |-> w, allow |-> a]

----------------------------------------------------------------------------
(* The membership.                                                         *)

ReadMember ==
  /\ pc = "get"
  /\ IF Active(member.id)
       THEN /\ member' = Member(member.id, member.welcome, member.allow)
            /\ Turn(Tail(todo))
            /\ UNCHANGED <<profile, tainted, failed>>
       ELSE SetMember(None)

\* The ID is kept before anything is verified.
CreateMember ==
  /\ pc = "create"
  /\ LET r == [kind |-> "create", email |-> config.email,
               first |-> IF config.first = None THEN Blank ELSE config.first,
               last |-> IF config.last = None THEN Blank ELSE config.last]
     IN  \/ /\ TakeEffect(r)
            /\ \E i \in IdFor(r.email) :
                 member' = [id |-> i, email |-> r.email, first |-> config.first,
                            last |-> config.last, welcome |-> config.welcome,
                            allow |-> config.allow]
            /\ tainted' = TRUE
            /\ pc' = "verify"
            /\ UNCHANGED <<todo, seen, sent, clear, count, profile, failed, late, trouble>>
         \/ ~Accepts(r) /\ Fail /\ UNCHANGED <<portal, trouble>>
         \/ \* no answer with an ID, whatever became of the request
            /\ \/ TakeEffect(r) /\ UNCHANGED late
               \/ late' = late \cup {r} /\ UNCHANGED <<users, profiles>>
               \/ UNCHANGED portal
            /\ Fail
            /\ Disturb
  /\ UNCHANGED frame

\* membershipMatchesCreate, and what Update expects.
MatchesAddress(i, names) == users[i].email = member.email
Matches(i, names) ==
  /\ users[i].email = member.email
  /\ names.first \in {None, users[i].first}
  /\ names.last \in {None, users[i].last}

VerifyMember ==
  /\ pc \in {"verify", "renamed"}
  /\ LET i == member.id
         asked == IF pc = "renamed" THEN seen ELSE [first |-> config.first, last |-> config.last]
     IN  IF Active(i) /\ Matches(i, asked)
           THEN SetMember(Member(i, config.welcome, config.allow))
           ELSE Fail

\* configuredNameChanged: a name that is not configured is never sent.
NameChanges == \/ config.first \notin {None, member.first}
               \/ config.last \notin {None, member.last}

Look ==
  /\ pc = "look"
  /\ IF ~NameChanges THEN SetMember([member EXCEPT !.allow = config.allow])
     ELSE IF Active(member.id) /\ users[member.id].email = member.email
       THEN Goto("lookEmail", users[member.id])
       ELSE Fail

SameByEmail == ByEmail(member.email) = {member.id}
AssignedIgnored == FALSE
Assigned == seen.assigned \/ users[member.id].assigned

\* Both names are sent; one that is not configured as it has been read.
LookEmail ==
  /\ pc = "lookEmail"
  /\ LET asked == [first |-> IF config.first = None THEN seen.first ELSE config.first,
                   last |-> IF config.last = None THEN seen.last ELSE config.last]
     IN  IF ~SameByEmail \/ Assigned THEN Fail
         ELSE IF asked = [first |-> seen.first, last |-> seen.last]
           THEN SetMember([id |-> member.id, email |-> member.email,
                           first |-> asked.first, last |-> asked.last,
                           welcome |-> config.welcome, allow |-> config.allow])
           ELSE Goto("rename", asked)

\* Only what an earlier run has put into state counts.
MayRemoveAsPlanned == member.allow \/ (config # None /\ config.allow)
MayRemove == member.allow

Guard ==
  /\ pc = "guard"
  /\ IF ~MayRemove THEN Fail
     ELSE IF ~Active(member.id) THEN SetMember(None)
     ELSE IF users[member.id].email = member.email
       THEN Goto("guardEmail", users[member.id])
       ELSE Fail

Protected == seen.super \/ users[member.id].super

GuardEmail ==
  /\ pc = "guardEmail"
  /\ IF ~SameByEmail \/ Protected THEN Fail ELSE Goto("remove", None)

\* WaitForAbsence: by ID, by address, and in the collection.
Absent ==
  CASE pc = "gone"  -> ~Active(member.id)
    [] pc = "goneEmail" -> ByEmail(member.email) = {}
    [] pc = "goneList"  -> \A i \in {member.id} \cup Holder(member.email) :
                             users[i].life = "gone"
NextRead == [gone |-> "goneEmail", goneEmail |-> "goneList"]
WaitForAbsence ==
  /\ pc \in {"gone", "goneEmail", "goneList"}
  /\ IF pc # "goneList"
       THEN /\ pc' = NextRead[pc] /\ clear' = (clear /\ Absent)
            /\ UNCHANGED <<todo, seen, sent, count, files, failed>>
       ELSE IF clear /\ Absent THEN SetMember(None)
       ELSE AgainOrFail("gone")

----------------------------------------------------------------------------
(* The profile.                                                            *)

\* The member it belongs to, and the properties that count.
Owner == IF Op = "createProfile" THEN member.id ELSE profile.member
Wanted == IF Op = "readProfile" THEN profile.values ELSE config.profile
Nothing == [f \in Fields |-> None]
Managed(values) == {f \in Fields : values[f] # None}

NotFound == IF Op = "readProfile" THEN SetProfile(None) ELSE Fail

\* verifiedProfile: the member, the CRM ID when it is not known yet, and the
\* profile with the properties that are asked for and no others.
CheckMember ==
  /\ pc = "check"
  /\ IF ~Active(Owner) THEN NotFound
     ELSE Goto(IF Op = "createProfile" /\ seen = None THEN "find" ELSE "fetch", seen)

\* WaitForSettingsID: more than one match is final, none is not.
FirstOf(found) == CHOOSE c \in found : \A d \in found : c <= d
Ambiguous(found) == Cardinality(found) > 1
Find ==
  /\ pc = "find"
  /\ LET found == {c \in CrmIds : profiles[c] # None /\ profiles[c].settings = Owner}
     IN  \/ /\ found # {}
            /\ IF Ambiguous(found) THEN Fail ELSE Goto("fetch", [id |-> FirstOf(found), values |-> Nothing])
         \/ found = {} /\ AgainOrFail("find")

ProfileModel(p) ==
  [id |-> p.id, member |-> Owner,
   values |-> [f \in Fields |-> IF Wanted[f] = None THEN None ELSE p.values[f]]]

\* reconcile: what is sent next; working hours only once the rest is there.
NeedAtOnce(p) == {f \in Managed(config.profile) : p.values[f] # config.profile[f]}
Need(p) ==
  LET first == NeedAtOnce(p) \ {"hours"} IN IF first = {} THEN NeedAtOnce(p) ELSE first

Reconcile(p) ==
  IF Need(p) = {} THEN SetProfile(ProfileModel(p))
  ELSE /\ pc' = "patch" /\ seen' = p /\ sent' = Need(p)
       /\ UNCHANGED <<todo, clear, count, files, failed>>

\* What is known afterwards: what has just been read, over what was known.
Asked == IF sent = {} THEN Managed(Wanted) ELSE sent
Known(c) ==
  [id |-> c, values |-> [f \in Fields |-> IF f \in Asked THEN profiles[c].values[f]
                                        ELSE IF seen = None THEN None ELSE seen.values[f]]]
Wrong(c) ==
  \/ profiles[c].settings # Owner
  \/ "hours" \in Asked /\ profiles[c].values["hours"] = Garbled
  \/ \E f \in sent : profiles[c].values[f] # Wanted[f]

Fetch ==
  /\ pc = "fetch"
  /\ LET c == IF seen # None THEN seen.id ELSE profile.id
     IN  IF profiles[c] = None THEN NotFound
         ELSE IF Wrong(c) THEN Fail
         ELSE IF Op = "readProfile" THEN SetProfile(ProfileModel(Known(c)))
         ELSE Reconcile(Known(c))

DropProfile == pc = "drop" /\ SetProfile(None)

Reads ==
  /\ \/ ReadMember \/ VerifyMember \/ Look \/ LookEmail \/ Guard \/ GuardEmail
     \/ WaitForAbsence \/ CheckMember \/ Find \/ Fetch \/ DropProfile
  /\ UNCHANGED <<portal, frame, trouble>>

\* A read fails otherwise than by 404.
ReadFails ==
  /\ pc \notin {"done", "create", "rename", "remove", "patch", "drop"}
  /\ Fail /\ Disturb
  /\ UNCHANGED <<portal, frame>>

----------------------------------------------------------------------------
(* The other writes.                                                       *)

Request ==
  CASE pc = "rename" -> [kind |-> "rename", id |-> member.id, first |-> seen.first,
                         last |-> seen.last]
    [] pc = "remove" -> [kind |-> "remove", id |-> member.id]
    [] pc = "patch"  -> [kind |-> "patch", id |-> seen.id,
                         values |-> [f \in Fields |-> IF f \in sent THEN config.profile[f]
                                                                 ELSE None]]

After == [rename |-> "renamed", remove |-> "gone", patch |-> "check"]
Written == Goto(After[pc], seen)

Write ==
  /\ pc \in DOMAIN After
  /\ \/ TakeEffect(Request) /\ Written
     \/ /\ ~Accepts(Request)
        /\ IF pc = "remove" THEN Written ELSE Fail
        /\ UNCHANGED <<users, profiles>>
  /\ UNCHANGED <<late, frame, trouble>>

\* An ambiguous error, read over by what follows, or one that is final, which
\* may also come after the effect.
WriteFails ==
  /\ pc \in DOMAIN After
  /\ \/ TakeEffect(Request) /\ UNCHANGED late /\ (Written \/ Fail)
     \/ late' = late \cup {Request} /\ UNCHANGED <<users, profiles>> /\ Written
     \/ UNCHANGED portal /\ (Written \/ Fail)
  /\ Disturb
  /\ UNCHANGED frame

Handle == Reads \/ ReadFails \/ Write \/ WriteFails \/ CreateMember

----------------------------------------------------------------------------
(* Terraform.                                                              *)

Start(rest) ==
  /\ todo' = rest
  /\ pc' = IF rest = <<>> THEN "done" ELSE Entry[Head(rest)]
  /\ UNCHANGED <<seen, sent, clear, count>>

StartRun ==
  /\ phase = "idle" /\ phase' = "refresh"
  /\ config' \in Configs
  /\ Start((IF member = None THEN <<>> ELSE <<"readMember">>)
              \o (IF profile = None THEN <<>> ELSE <<"readProfile">>))
  /\ quiet' = (late = {})
  /\ UNCHANGED <<portal, files, failed, consented, trouble>>

Replaces == tainted \/ member.email # config.email \/ member.welcome # config.welcome

MemberPlan ==
  CASE member = None -> IF config = None THEN <<>> ELSE <<"createMember">>
    [] member # None /\ config = None -> <<"deleteMember">>
    [] OTHER -> IF Replaces THEN <<"deleteMember", "createMember">>
                ELSE IF NameChanges \/ member.allow # config.allow THEN <<"updateMember">>
                ELSE <<>>

\* A member that is created has no ID yet, so its profile is managed anew.
Elsewhere == \/ "createMember" \in Range(MemberPlan)
             \/ profile.member # member.id
Kept == config # None /\ config.profile # None
DropPlan == IF profile # None /\ (~Kept \/ Elsewhere) THEN <<"dropProfile">> ELSE <<>>
ProfilePlan ==
  CASE ~Kept -> <<>>
    [] Kept /\ (profile = None \/ Elsewhere) -> <<"createProfile">>
    [] OTHER -> IF profile.values # config.profile THEN <<"updateProfile">> ELSE <<>>

\* A profile is let go of before its member and managed after it.
Plan ==
  /\ phase = "refresh" /\ todo = <<>> /\ ~failed
  /\ phase' = "apply"
  /\ Start(DropPlan \o MemberPlan \o ProfilePlan)
  /\ UNCHANGED <<portal, files, failed, config, quiet, consented, trouble>>

Stop ==
  /\ phase' = "idle"
  /\ Turn(<<>>)
  /\ failed' = FALSE /\ quiet' = TRUE
  /\ consented' = consented \cup
       (IF phase = "apply" /\ member # None /\ config # None /\ config.allow
          THEN {member.id} ELSE {})
  /\ UNCHANGED <<users, profiles, config, files>>

EndRun ==
  /\ todo = <<>>
  /\ phase = "apply" \/ failed
  /\ Stop
  /\ UNCHANGED <<late, trouble>>

\* The process is killed; a request just sent may still arrive.
Crash ==
  /\ phase # "idle" /\ Disturb
  /\ late' \in {late} \cup (IF pc \in DOMAIN After THEN {late \cup {Request}} ELSE {})
  /\ Stop

\* terraform import of a member, by either identity, or of a profile.
Unset(f, v) == (f = "zone" /\ v = Blank) \/ (f = "hours" /\ v = {})
ImportMask(values) == [f \in Fields |-> IF Unset(f, values[f]) THEN None ELSE values[f]]

Import ==
  /\ phase = "idle"
  /\ \/ /\ member = None /\ member' \in {Member(i, FALSE, FALSE) : i \in {j \in Ids : Active(j)}}
        /\ UNCHANGED profile
     \/ /\ profile = None
        /\ \E c \in {d \in CrmIds : profiles[d] # None} :
             /\ Active(profiles[c].settings) /\ profiles[c].values["hours"] # Garbled
             /\ profile' = [id |-> c, member |-> profiles[c].settings,
                            values |-> ImportMask(profiles[c].values)]
        /\ UNCHANGED member
  /\ UNCHANGED <<portal, tainted, handler, failed, frame, trouble>>

----------------------------------------------------------------------------
(* Everybody else.                                                         *)

\* The account forgets removed members, and the CRM makes profiles of the
\* active ones and drops those of the others.
Settle ==
  /\ \/ \E i \in Ids : /\ users[i] # None /\ users[i].life = "leaving"
                       /\ users' = [users EXCEPT ![i].life = "gone"]
                       /\ UNCHANGED profiles
     \/ \E c \in CrmIds :
          /\ \/ /\ profiles[c] = None
                /\ \E i \in Ids :
                     /\ Active(i) /\ \A d \in CrmIds : profiles[d] # None => profiles[d].settings # i
                     /\ profiles' = [profiles EXCEPT ![c] =
                          [settings |-> i, values |->
                            [f \in Fields |-> IF f = "hours" THEN {} ELSE Blank]]]
             \/ /\ profiles[c] # None /\ ~Active(profiles[c].settings)
                /\ profiles' = [profiles EXCEPT ![c] = None]
          /\ UNCHANGED users
  /\ UNCHANGED <<late, files, handler, failed, frame, trouble>>

\* Somebody changes a member or a profile, adds or removes a member, or the
\* CRM loses a profile or makes a second one.
Foreign ==
  /\ Disturb
  /\ \/ /\ UNCHANGED profiles
        /\ \E i \in Ids :
          \/ /\ Active(i)
             /\ \/ \E t \in Texts : users' = [users EXCEPT ![i].first = t]
                \/ \E t \in Texts : users' = [users EXCEPT ![i].last = t]
                \/ users' = [users EXCEPT ![i].super = ~@]
                \/ users' = [users EXCEPT ![i].assigned = ~@]
                \/ users' = [users EXCEPT ![i].life = "gone"]
                \/ \E e \in Emails : Holder(e) = {} /\ users' = [users EXCEPT ![i].email = e]
          \/ \E e \in Emails, t \in Texts :
               /\ i \in IdFor(e) /\ ~Active(i)
               /\ users' = [users EXCEPT ![i] =
                    [email |-> e, first |-> t, last |-> t, life |-> "active",
                     super |-> FALSE, assigned |-> FALSE]]
     \/ /\ UNCHANGED users
        /\ \E c \in CrmIds :
             \/ /\ profiles[c] # None
                /\ \/ \E t \in Names : profiles' = [profiles EXCEPT ![c].values["title"] = t]
                   \/ \E t \in Texts : profiles' = [profiles EXCEPT ![c].values["zone"] = t]
                   \/ profiles' = [profiles EXCEPT ![c].values["hours"] = Garbled]
                   \/ profiles' = [profiles EXCEPT ![c] = None]
             \/ /\ profiles[c] = None
                /\ \E d \in CrmIds : profiles[d] # None
                                    /\ profiles' = [profiles EXCEPT ![c] = profiles[d]]
  /\ <<users, profiles>>' # <<users, profiles>>
  /\ quiet' = (phase = "idle")
  /\ UNCHANGED <<late, files, handler, failed, config, phase, consented>>

\* A request arrives after its caller gave up, or never does.
ArriveLate ==
  \E r \in late :
    /\ late' = late \ {r}
    /\ TakeEffect(r) \/ UNCHANGED <<users, profiles>>
    /\ UNCHANGED <<files, handler, failed, frame, trouble>>

Next ==
  \/ Handle \/ StartRun \/ Plan \/ EndRun \/ Crash \/ Import
  \/ Settle \/ Foreign \/ ArriveLate

Spec == Init /\ [][Next]_vars
----------------------------------------------------------------------------
(* Properties.                                                             *)

\* Every variable stays in its domain; in particular no working hours that the
\* provider does not understand get into state, and a wait ends in time.
TypeOK ==
  /\ users \in [Ids -> Persons \cup {None}]
  /\ profiles \in [CrmIds -> Profiles \cup {None}]
  /\ config \in Configs
  /\ member \in Members \cup {None}
  /\ profile \in Owned \cup {None} /\ (profile # None => profile.values["hours"] # Garbled)
  /\ tainted \in BOOLEAN /\ (tainted => member # None)
  /\ phase \in {"idle", "refresh", "apply"}
  /\ Range(todo) \subseteq DOMAIN Entry /\ (pc = "done" <=> todo = <<>>)
  /\ sent \subseteq Fields /\ count \in 0..(Polls - 1)
  /\ {clear, failed, quiet} \subseteq BOOLEAN
  /\ consented \subseteq Ids /\ trouble \in 0..MaxTrouble

\* Before there are users: working hours are refused exactly when two
\* intervals meet, and their order is never a difference.
HoursAreSets == \A c \in CrmIds : profiles[c] = None => OverlapsAreFound /\ OrderIsNoChange

\* The provider ends a membership only when an earlier run, not the one that
\* removes it, was told that it may; and, with nobody interfering, never that
\* of a Super Admin.
RemovalIsGuarded ==
  [][\A i \in Ids : Active(i) /\ ~Active(i)' /\ trouble' = trouble =>
       i \in consented /\ (quiet /\ late' = late => ~users[i].super)]_vars

\* As long as nobody interferes, the provider changes no name and no profile
\* property that the configuration leaves out, those of somebody else least
\* of all, takes no role or team away, and takes up a profile only if it is
\* the only one of the member.
NothingElseTouched ==
  [][quiet /\ pc' # pc =>
       /\ \A i \in Ids : Active(i) /\ Active(i)' =>
            /\ users'[i].assigned = users[i].assigned
            /\ users'[i].first # users[i].first => users'[i].first = config.first
            /\ users'[i].last # users[i].last => users'[i].last = config.last
       /\ \A c \in CrmIds, f \in Fields :
            /\ profiles[c] # None /\ profiles'[c] # None
            /\ profiles'[c].values[f] # profiles[c].values[f]
            => profiles[c].settings = member.id /\ profiles'[c].values[f] = config.profile[f]
       /\ Op = "createProfile" /\ profile' # profile =>
            {c \in CrmIds : profiles[c] # None /\ profiles[c].settings = member.id}
              = {profile'.id}]_vars

\* A run that ends without an error has left the member with the address,
\* the managed names and the permission that were asked for, and its own
\* profile, known by its one CRM ID, with the managed properties.
SuccessIsVerified ==
  phase = "apply" /\ todo = <<>> /\ quiet /\ ~failed =>
    IF config = None THEN member = None /\ profile = None
    ELSE /\ member # None /\ ~tainted /\ member.allow = config.allow
         /\ Active(member.id) /\ users[member.id].email = config.email
         /\ config.first \in {None, users[member.id].first}
         /\ config.last \in {None, users[member.id].last}
         /\ IF config.profile = None THEN profile = None
            ELSE /\ profile # None /\ profile.member = member.id
                 /\ profiles[profile.id] # None
                 /\ profiles[profile.id].settings = member.id
                 /\ \A f \in Managed(config.profile) :
                      profiles[profile.id].values[f] = config.profile[f]
=============================================================================
