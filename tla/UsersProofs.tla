---------------------------- MODULE UsersProofs ----------------------------
(***************************************************************************)
(* Proofs about Users.tla, for any sets of users, CRM users, addresses and *)
(* texts, any configurations, any number of polls and of troubles.         *)
(*                                                                         *)
(* The invariant says what a request may carry (RequestsValid), where a    *)
(* handler stands and what it has in hand there (Standing), what the       *)
(* handlers that remain can rely on (Prepared), where the permission to    *)
(* remove a member comes from (Consented), and what a run that nobody      *)
(* disturbed knows of the portal and has achieved so far (MemberInSync,    *)
(* ProfileInSync).                                                         *)
(*                                                                         *)
(* The last part is about WorkingHours.tla: lists of intervals of any      *)
(* length, what the check of neighbours finds and how they are written.    *)
(***************************************************************************)
EXTENDS Users, FiniteSetTheorems, TLAPS

Left == Range(todo)

\* What may come after a handler in the same run.
Follows ==
  [readMember |-> {"readProfile"}, readProfile |-> {},
   dropProfile |-> {"deleteMember", "createMember", "updateMember", "createProfile"},
   deleteMember |-> {"createMember", "createProfile"}, createMember |-> {"createProfile"},
   updateMember |-> {"createProfile", "updateProfile"},
   createProfile |-> {}, updateProfile |-> {}]

Orderly(s) ==
  /\ s \in Seq(DOMAIN Entry)
  /\ \A i, j \in 1..Len(s) : i < j => s[j] \in Follows[s[i]]

\* A request names a known kind and carries what a configuration may hold;
\* whom it removes was to be let go of.
ValidRequest(r) ==
  \/ r.kind = "create" /\ r.email \in Emails /\ r.first \in Names /\ r.last \in Names
  \/ r.kind = "rename" /\ r.id \in Ids /\ r.first \in Names /\ r.last \in Names
  \/ r.kind = "remove" /\ r.id \in consented /\ r = [kind |-> "remove", id |-> r.id]
  \/ r.kind = "patch" /\ r.id \in CrmIds /\ r.values \in [Fields -> Values]

RequestsValid == \A r \in late : ValidRequest(r)

\* Which handler stands where, and with what in hand.
Stages ==
  [readMember |-> {"get"}, readProfile |-> {"check", "fetch"}, dropProfile |-> {"drop"},
   createMember |-> {"create", "verify"},
   updateMember |-> {"look", "lookEmail", "rename", "renamed"},
   deleteMember |-> {"guard", "guardEmail", "remove", "gone", "goneEmail", "goneList"},
   createProfile |-> {"check", "find", "fetch", "patch"},
   updateProfile |-> {"check", "fetch", "patch"}]

Sight == {s \in Sights : s.values["hours"] # Garbled}

Standing ==
  /\ Orderly(todo)
  /\ todo # <<>> => pc \in Stages[Op] /\ ~failed /\ phase # "idle"
  /\ phase = "idle" => ~failed
  /\ pc = "done" => seen = None /\ sent = {} /\ clear /\ count = 0
  /\ pc \in {"lookEmail", "guardEmail"} => seen \in Persons
  /\ pc \in {"rename", "renamed"} => seen \in [first : Names, last : Names]
  /\ pc \in {"check", "fetch", "patch"} => seen \in Sight \cup {None}
  /\ pc = "patch" \/ (pc = "fetch" /\ Op = "createProfile") => seen # None
  /\ Op = "readProfile" => seen = None

\* What there is for the handlers that remain.
Prepared ==
  /\ phase = "refresh" => Left \subseteq {"readMember", "readProfile"}
  /\ phase = "apply" => Left \cap {"readMember", "readProfile"} = {}
  /\ Left \cap {"readMember", "deleteMember", "updateMember"} # {} => member # None
  /\ Left \cap {"readProfile", "updateProfile"} # {} => profile # None
  /\ Left \cap {"createMember", "updateMember"} # {} => config # None
  /\ Left \cap {"createProfile", "updateProfile"} # {} => Kept
  /\ "updateProfile" \in Left => profile.member = member.id
  /\ pc = "verify" => member # None
  /\ phase = "apply" /\ ~failed /\ config # None /\ "createMember" \notin Left =>
       member # None /\ "deleteMember" \notin Left
  /\ phase = "apply" /\ ~failed /\ Kept
       /\ Left \cap {"dropProfile", "deleteMember", "createMember"} # {} =>
       "createProfile" \in Left

\* A permission that is in state comes from an earlier run, or from this one,
\* which then removes nothing any more.
Consented ==
  /\ member # None /\ member.allow =>
       \/ member.id \in consented
       \/ /\ phase = "apply" /\ config # None /\ config.allow
          /\ "deleteMember" \notin Left
  /\ pc \in {"guardEmail", "remove"} => member.allow
  /\ pc = "remove" /\ quiet => ~users[member.id].super

Calm == quiet /\ ~failed /\ phase # "idle"

\* A request that may still arrive repeats what the run asked for, or removes
\* the member whose absence is waited for.
Harmless(r) ==
  \/ /\ r.kind = "rename" /\ config # None
     /\ config.first \in {None, r.first} /\ config.last \in {None, r.last}
  \/ /\ r.kind = "patch" /\ Kept
     /\ \A f \in Fields : r.values[f] \in {None, config.profile[f]}
  \/ /\ r.kind = "remove" /\ pc \in {"gone", "goneEmail", "goneList"}
     /\ r.id = member.id /\ Active(r.id)

LateHarmless ==
  Calm =>
    /\ \A r \in late : Harmless(r)
    /\ \/ phase = "refresh"
       \/ /\ Left \cap {"deleteMember", "updateMember"} # {}
          /\ pc \notin {"gone", "goneEmail", "goneList", "renamed"}
       => late = {}

NamedAs(i, names) ==
  names.first \in {None, users[i].first} /\ names.last \in {None, users[i].last}

\* The member is as it has been read.
AsRead ==
  /\ Active(member.id) /\ users[member.id].email = member.email
  /\ users[member.id].first = member.first /\ users[member.id].last = member.last

MemberInSync ==
  Calm =>
    /\ phase = "refresh" /\ "readMember" \notin Left /\ member # None => AsRead
    /\ phase = "apply" /\ config = None /\ "deleteMember" \notin Left => member = None
    /\ phase = "apply" /\ config # None /\ Left \cap {"deleteMember", "createMember"} = {} =>
         /\ ~tainted /\ Active(member.id)
         /\ users[member.id].email = config.email /\ member.email = config.email
         /\ "updateMember" \notin Left =>
              member.allow = config.allow /\ NamedAs(member.id, config)
    /\ "updateMember" \in Left /\ pc \in {"drop", "look", "lookEmail"} => AsRead
    /\ pc = "lookEmail" => seen = users[member.id]
    /\ pc \in {"rename", "renamed"} =>
         config.first \in {None, seen.first} /\ config.last \in {None, seen.last}
    /\ pc = "rename" =>
         /\ ~users[member.id].assigned
         /\ seen.first \in {users[member.id].first, config.first}
         /\ seen.last \in {users[member.id].last, config.last}
    /\ pc = "verify" => member.email = config.email
    /\ pc \in {"guardEmail", "remove"} => Active(member.id)
    /\ pc \in {"goneEmail", "goneList"} /\ clear => ~Active(member.id)

\* The profile c is that of the member i.
BelongsTo(c, i) == profiles[c] # None /\ profiles[c].settings = i

ProfileInSync ==
  Calm =>
    /\ phase = "refresh" /\ "readProfile" \notin Left /\ profile # None =>
         /\ Active(profile.member) /\ BelongsTo(profile.id, profile.member)
         /\ \A f \in Fields : profile.values[f] \in {None, profiles[profile.id].values[f]}
    /\ phase = "refresh" /\ pc = "fetch" => Active(profile.member)
    /\ phase = "apply" /\ Left \cap {"dropProfile", "createProfile", "updateProfile"} = {} =>
         IF Kept
           THEN /\ profile # None /\ profile.member = member.id
                /\ BelongsTo(profile.id, member.id)
                /\ \A f \in Managed(config.profile) :
                     profiles[profile.id].values[f] = config.profile[f]
           ELSE profile = None
    /\ phase = "apply" /\ pc \in {"check", "fetch", "patch"} /\ seen # None =>
         /\ BelongsTo(seen.id, member.id)
         /\ \A f \in Managed(config.profile) :
              seen.values[f] = config.profile[f] =>
                profiles[seen.id].values[f] = config.profile[f]
         /\ Op = "createProfile" => \A c \in CrmIds : BelongsTo(c, member.id) => c = seen.id

IInv ==
  /\ TypeOK /\ RequestsValid /\ Standing /\ Prepared /\ Consented
  /\ LateHarmless /\ MemberInSync /\ ProfileInSync

----------------------------------------------------------------------------
(* The handlers that remain.                                               *)

\* Nothing is left exactly when the sequence of handlers is at its end.
LEMMA NothingLeft ==
  ASSUME NEW s \in Seq(DOMAIN Entry)
  PROVE  s = <<>> <=> Range(s) = {}
<1>1. s # <<>> => Head(s) = s[1] /\ 1 \in DOMAIN s
  OBVIOUS
<1>2. s # <<>> => s[1] \in Range(s)
  BY <1>1 DEF Range
<1>3. s = <<>> => DOMAIN s = {}
  OBVIOUS
<1>4. s = <<>> => Range(s) = {}
  BY <1>3 DEF Range
<1> QED BY <1>2, <1>4

\* What is left after the first handler may follow it, in order.
LEMMA OrderlyTail ==
  ASSUME NEW s, Orderly(s), s # <<>>
  PROVE  /\ Head(s) \in DOMAIN Entry
         /\ Orderly(Tail(s))
         /\ Range(s) = {Head(s)} \cup Range(Tail(s))
         /\ Range(Tail(s)) \subseteq Follows[Head(s)]
<1> DEFINE t == Tail(s)
<1>1. s \in Seq(DOMAIN Entry) /\ Len(s) \in Nat /\ Len(s) >= 1
  BY DEF Orderly
<1>2. /\ Head(s) = s[1] /\ Head(s) \in DOMAIN Entry /\ 1 \in DOMAIN s
      /\ t \in Seq(DOMAIN Entry) /\ Len(t) = Len(s) - 1
      /\ DOMAIN s = 1..Len(s) /\ DOMAIN t = 1..Len(t)
      /\ \A i \in 1..Len(t) : t[i] = s[i + 1] /\ i + 1 \in 1..Len(s)
  BY <1>1
<1>3. \A i, j \in 1..Len(t) : i < j => t[j] \in Follows[t[i]]
  BY <1>1, <1>2 DEF Orderly
<1>4. \A i \in 1..Len(t) : t[i] \in Follows[s[1]]
  BY <1>1, <1>2 DEF Orderly
<1>5. \A i \in 1..Len(s) : i = 1 \/ (i - 1 \in 1..Len(t) /\ s[i] = t[i - 1])
  BY <1>1, <1>2
<1>6. Range(s) = {Head(s)} \cup Range(t)
  <2>1. ASSUME NEW x \in Range(s), x # Head(s) PROVE x \in Range(t)
    <3>1. PICK i \in DOMAIN s : x = s[i]
      BY <2>1 DEF Range
    <3>2. i - 1 \in DOMAIN t /\ x = t[i - 1]
      BY <1>2, <1>5, <2>1, <3>1
    <3> HIDE DEF t
    <3> QED BY <3>2 DEF Range
  <2>2. Head(s) \in Range(s)
    BY <1>2 DEF Range
  <2>3. Range(t) \subseteq Range(s)
    BY <1>2 DEF Range
  <2> QED BY <2>1, <2>2, <2>3
<1>7. Range(t) \subseteq Follows[Head(s)]
  BY <1>2, <1>4 DEF Range
<1> QED BY <1>2, <1>3, <1>6, <1>7 DEF Orderly

\* Two plans make one when all of the second may follow all of the first.
LEMMA OrderlyJoin ==
  ASSUME NEW a, NEW b, Orderly(a), Orderly(b),
         \A x \in Range(a) : Range(b) \subseteq Follows[x]
  PROVE  Orderly(a \o b) /\ Range(a \o b) = Range(a) \cup Range(b)
<1> DEFINE ab == a \o b
<1>1. a \in Seq(DOMAIN Entry) /\ b \in Seq(DOMAIN Entry) /\ Len(a) \in Nat /\ Len(b) \in Nat
  BY DEF Orderly
<1>2. /\ ab \in Seq(DOMAIN Entry) /\ Len(ab) = Len(a) + Len(b)
      /\ DOMAIN ab = 1..Len(ab) /\ DOMAIN a = 1..Len(a) /\ DOMAIN b = 1..Len(b)
  BY <1>1
<1>3. \A i \in 1..Len(a) : i \in 1..Len(ab) /\ ab[i] = a[i]
  BY <1>1, <1>2
<1>4. \A i \in 1..Len(b) : Len(a) + i \in 1..Len(ab) /\ ab[Len(a) + i] = b[i]
  BY <1>1, <1>2
<1>5. \A i \in 1..Len(ab) : \/ i \in 1..Len(a) /\ ab[i] = a[i]
                            \/ i > Len(a) /\ i - Len(a) \in 1..Len(b) /\ ab[i] = b[i - Len(a)]
  BY <1>1, <1>2
<1>6. Range(ab) = Range(a) \cup Range(b)
  <2>1. Range(ab) \subseteq Range(a) \cup Range(b)
    BY <1>2, <1>5 DEF Range
  <2>2. Range(a) \subseteq Range(ab)
    BY <1>2, <1>3 DEF Range
  <2>3. Range(b) \subseteq Range(ab)
    BY <1>2, <1>4 DEF Range
  <2> QED BY <2>1, <2>2, <2>3
<1>7. ASSUME NEW i \in 1..Len(ab), NEW j \in 1..Len(ab), i < j
      PROVE  ab[j] \in Follows[ab[i]]
  <2>1. CASE j \in 1..Len(a) /\ ab[j] = a[j]
    BY <1>1, <1>5, <1>7, <2>1 DEF Orderly
  <2>2. CASE j > Len(a) /\ j - Len(a) \in 1..Len(b) /\ ab[j] = b[j - Len(a)]
    <3>1. CASE i \in 1..Len(a) /\ ab[i] = a[i]
      <4>1. ab[i] \in Range(a) /\ ab[j] \in Range(b)
        BY <1>2, <2>2, <3>1 DEF Range
      <4> QED BY <4>1
    <3>2. CASE i > Len(a) /\ i - Len(a) \in 1..Len(b) /\ ab[i] = b[i - Len(a)]
      <4>1. i - Len(a) < j - Len(a)
        BY <1>1, <1>2, <1>7
      <4> QED BY <2>2, <3>2, <4>1 DEF Orderly
    <3> QED BY <1>5, <3>1, <3>2
  <2> QED BY <1>5, <2>1, <2>2
<1> QED BY <1>2, <1>6, <1>7 DEF Orderly

\* The plans of no handler, of one, and of a replacement.
LEMMA ShortPlans ==
  /\ Orderly(<<>>) /\ Range(<<>>) = {}
  /\ \A x \in DOMAIN Entry : Orderly(<<x>>) /\ Range(<<x>>) = {x}
  /\ /\ Orderly(<<"deleteMember", "createMember">>)
     /\ Range(<<"deleteMember", "createMember">>) = {"deleteMember", "createMember"}
<1>1. Orderly(<<>>) /\ Range(<<>>) = {}
  BY DEF Orderly, Range
<1>2. ASSUME NEW x \in DOMAIN Entry PROVE Orderly(<<x>>) /\ Range(<<x>>) = {x}
  BY DEF Orderly, Range
<1>3. /\ Orderly(<<"deleteMember", "createMember">>)
      /\ Range(<<"deleteMember", "createMember">>) = {"deleteMember", "createMember"}
  <2> DEFINE s == <<"deleteMember", "createMember">>
  <2>1. /\ s \in Seq(DOMAIN Entry) /\ Len(s) = 2 /\ s[1] = "deleteMember"
        /\ s[2] = "createMember" /\ DOMAIN s = 1..2
    BY DEF Entry
  <2>2. \A i, j \in 1..2 : i < j => i = 1 /\ j = 2
    OBVIOUS
  <2>3. "createMember" \in Follows["deleteMember"]
    BY DEF Follows
  <2> HIDE DEF s
  <2>4. Orderly(s)
    BY <2>1, <2>2, <2>3 DEF Orderly
  <2>5. Range(s) = {s[1], s[2]}
    BY <2>1 DEF Range
  <2> QED BY <2>1, <2>4, <2>5
<1> QED BY <1>1, <1>2, <1>3

----------------------------------------------------------------------------
(* How a handler begins and ends.                                          *)

\* A handler begins at one of its own places, with nothing in hand.
LEMMA EntryStages ==
  \A x \in DOMAIN Entry :
    /\ Entry[x] \in Stages[x]
    /\ Entry[x] \in {"get", "check", "create", "look", "guard", "drop"}
<1> SUFFICES ASSUME NEW x \in DOMAIN Entry
             PROVE  /\ Entry[x] \in Stages[x]
                    /\ Entry[x] \in {"get", "check", "create", "look", "guard", "drop"}
  OBVIOUS
<1>1. CASE x \in {"readMember", "readProfile", "createMember", "updateMember"}
  BY <1>1 DEF Entry, Stages
<1>2. CASE x \in {"deleteMember", "createProfile", "updateProfile", "dropProfile"}
  BY <1>2 DEF Entry, Stages
<1> QED BY <1>1, <1>2 DEF Entry

\* Where a run of the handlers rest begins.
LEMMA Beginning ==
  ASSUME NEW rest, Orderly(rest),
         todo' = rest, pc' = IF rest = <<>> THEN "done" ELSE Entry[Head(rest)]
  PROVE  /\ pc' \in {"done", "get", "check", "create", "look", "guard", "drop"}
         /\ pc' = "done" <=> todo' = <<>>
         /\ todo' # <<>> => pc' \in Stages[Op']
         /\ Left' \subseteq DOMAIN Entry
         /\ todo' = <<>> <=> Left' = {}
<1>1. rest \in Seq(DOMAIN Entry)
  BY DEF Orderly
<1>2. Left' = Range(rest)
  BY DEF Left
<1>3. rest = <<>> <=> Left' = {}
  BY <1>1, <1>2, NothingLeft
<1>4. Left' \subseteq DOMAIN Entry
  BY <1>1, <1>2 DEF Range
<1>5. CASE rest = <<>>
  BY <1>3, <1>4, <1>5
<1>6. CASE rest # <<>>
  <2>1. Head(rest) \in DOMAIN Entry
    BY <1>6, OrderlyTail
  <2>2. Op' = Head(rest)
    BY <1>6 DEF Op
  <2>3. pc' = Entry[Head(rest)]
    BY <1>6
  <2> QED BY <1>3, <1>4, <1>6, <2>1, <2>2, <2>3, EntryStages
<1> QED BY <1>5, <1>6

\* What the turn to the next handler does to the handlers that remain.
LEMMA TurnStands ==
  ASSUME Standing, todo # <<>>, Turn(Tail(todo)), UNCHANGED <<failed, phase>>
  PROVE  /\ Standing'
         /\ pc' = "done" <=> todo' = <<>>
         /\ pc' \in {"done", "get", "check", "create", "look", "guard", "drop"}
         /\ seen' = None /\ sent' = {} /\ clear' = TRUE /\ count' = 0
         /\ Op \in DOMAIN Entry
         /\ Left = {Op} \cup Left'
         /\ Left' \subseteq Follows[Op]
         /\ Left' \subseteq DOMAIN Entry
<1>1. Orderly(todo)
  BY DEF Standing
<1>2. /\ Op = Head(todo) /\ Op \in DOMAIN Entry /\ Orderly(Tail(todo))
      /\ Range(todo) = {Op} \cup Range(Tail(todo))
      /\ Range(Tail(todo)) \subseteq Follows[Op]
  BY <1>1, OrderlyTail DEF Op
<1>3. /\ todo' = Tail(todo)
      /\ pc' = IF Tail(todo) = <<>> THEN "done" ELSE Entry[Head(Tail(todo))]
      /\ seen' = None /\ sent' = {} /\ clear' = TRUE /\ count' = 0
  BY DEF Turn
<1>4. /\ pc' \in {"done", "get", "check", "create", "look", "guard", "drop"}
      /\ pc' = "done" <=> todo' = <<>>
      /\ todo' # <<>> => pc' \in Stages[Op']
      /\ Left' \subseteq DOMAIN Entry
  BY <1>2, <1>3, Beginning
<1>5. Left = {Op} \cup Left' /\ Left' \subseteq Follows[Op]
  BY <1>2, <1>3 DEF Left
<1>6. failed' = failed /\ phase' = phase /\ ~failed /\ phase # "idle"
  BY DEF Standing
<1>7. Orderly(todo')
  BY <1>2, <1>3
<1>8. Standing'
  <2>1. clear'
    BY <1>3
  <2>2. seen' = None /\ sent' = {} /\ count' = 0
    BY <1>3
  <2>3. todo' # <<>> => pc' \in Stages[Op'] /\ ~failed' /\ phase' # "idle"
    BY <1>4, <1>6
  <2>4. phase' # "idle"
    BY <1>6
  <2> QED BY <1>4, <1>7, <2>1, <2>2, <2>3, <2>4 DEF Standing
<1> QED BY <1>2, <1>3, <1>4, <1>5, <1>8

\* With nothing left there is nothing to prepare.
LEMMA AtEnd ==
  ASSUME todo = <<>>
  PROVE  Left = {} /\ Op = "none"
BY ShortPlans DEF Left, Op

\* A handler that fails ends the run; whatever happened to the portal.
LEMMA FailKeeps ==
  ASSUME IInv, Fail, UNCHANGED frame, phase # "idle",
         users' \in [Ids -> Persons \cup {None}],
         profiles' \in [CrmIds -> Profiles \cup {None}],
         RequestsValid', trouble' \in 0..MaxTrouble
  PROVE  IInv'
<1>1. /\ todo' = <<>> /\ pc' = "done" /\ seen' = None /\ sent' = {} /\ clear' = TRUE
      /\ count' = 0 /\ failed' = TRUE
      /\ member' = member /\ profile' = profile /\ tainted' = tainted
      /\ config' = config /\ phase' = phase /\ quiet' = quiet /\ consented' = consented
  BY DEF Fail, Turn, files, frame
<1>2. Left' = {} /\ Op' = "none"
  BY <1>1, ShortPlans DEF Left, Op
<1>3. TypeOK'
  BY <1>1, <1>2, UsersAssumption DEF IInv, TypeOK, Left
<1>4. Standing'
  <2>1. Orderly(todo')
    BY <1>1, ShortPlans
  <2>2. phase' # "idle" /\ clear'
    BY <1>1
  <2> QED BY <1>1, <2>1, <2>2 DEF Standing
<1>5. Prepared'
  BY <1>1, <1>2 DEF IInv, Prepared
<1>6. Consented'
  BY <1>1, <1>2 DEF IInv, Consented
<1>7. ~Calm'
  BY <1>1 DEF Calm
<1>8. LateHarmless' /\ MemberInSync' /\ ProfileInSync'
  BY <1>7 DEF LateHarmless, MemberInSync, ProfileInSync
<1> QED BY <1>3, <1>4, <1>5, <1>6, <1>8 DEF IInv

\* A handler of the membership ends with m in state: what has to be known of
\* m when it comes from a read, and when it is what was asked for.
LEMMA SetMemberKeeps ==
  ASSUME IInv, todo # <<>>, UNCHANGED <<portal, frame, trouble>>,
         NEW m \in Members \cup {None},
         Turn(Tail(todo)), member' = m, UNCHANGED <<profile, failed>>,
         tainted' = FALSE \/ (tainted' = tainted /\ Op = "readMember" /\ m # None),
         Op \in {"readMember", "createMember", "updateMember", "deleteMember"},
         m = None => Op \in {"readMember", "deleteMember"},
         m # None => Op # "deleteMember",
         m # None /\ Op = "readMember" => m.id = member.id /\ m.allow = member.allow,
         m # None /\ Op \in {"createMember", "updateMember"} => m.allow = config.allow,
         m # None /\ Op = "updateMember" => m.id = member.id,
         Calm /\ m # None /\ Op = "readMember" =>
           /\ Active(m.id) /\ users[m.id].email = m.email
           /\ users[m.id].first = m.first /\ users[m.id].last = m.last,
         Calm /\ m # None /\ Op \in {"createMember", "updateMember"} =>
           /\ Active(m.id) /\ users[m.id].email = config.email /\ m.email = config.email
           /\ NamedAs(m.id, config),
         Calm => \A r \in late : r.kind # "remove"
  PROVE  IInv'
<1>1. /\ Turn(Tail(todo)) /\ member' = m
      /\ tainted' = FALSE \/ (tainted' = tainted /\ Op = "readMember" /\ m # None)
      /\ profile' = profile /\ failed' = failed
      /\ users' = users /\ profiles' = profiles /\ late' = late
      /\ config' = config /\ phase' = phase /\ quiet' = quiet /\ consented' = consented
      /\ trouble' = trouble
  BY DEF portal, frame
<1>2. TypeOK /\ RequestsValid /\ Standing /\ Prepared /\ Consented
      /\ LateHarmless /\ MemberInSync /\ ProfileInSync
  BY DEF IInv
<1>3. /\ Standing'
      /\ pc' = "done" <=> todo' = <<>>
      /\ pc' \in {"done", "get", "check", "create", "look", "guard", "drop"}
      /\ seen' = None /\ sent' = {} /\ clear' = TRUE /\ count' = 0
      /\ Left = {Op} \cup Left'
      /\ Left' \subseteq Follows[Op]
      /\ Left' \subseteq DOMAIN Entry
  BY <1>1, <1>2, TurnStands
<1>4. ~failed /\ phase # "idle" /\ Op \in Left
  BY <1>2, <1>3 DEF Standing
<1>5. /\ Op = "readMember" => Left' \subseteq {"readProfile"}
      /\ Op = "createMember" => Left' \subseteq {"createProfile"}
      /\ Op = "updateMember" => Left' \subseteq {"createProfile", "updateProfile"}
      /\ Op = "deleteMember" => Left' \subseteq {"createMember", "createProfile"}
  BY <1>3 DEF Follows
<1>6. /\ Op = "readMember" => phase = "refresh"
      /\ Op \in {"createMember", "updateMember", "deleteMember"} => phase = "apply"
  BY <1>2, <1>4 DEF TypeOK, Prepared
<1>7. TypeOK'
  <2>1. /\ users' \in [Ids -> Persons \cup {None}]
        /\ profiles' \in [CrmIds -> Profiles \cup {None}]
        /\ config' \in Configs /\ phase' \in {"idle", "refresh", "apply"}
        /\ consented' \subseteq Ids /\ trouble' \in 0..MaxTrouble
        /\ profile' \in Owned \cup {None} /\ (profile' # None => profile'.values["hours"] # Garbled)
    BY <1>1, <1>2 DEF TypeOK
  <2>2. member' \in Members \cup {None} /\ tainted' \in BOOLEAN
        /\ (tainted' => member' # None)
    BY <1>1, <1>2 DEF TypeOK
  <2>3. sent' \subseteq Fields /\ count' \in 0..(Polls - 1)
    BY <1>3, UsersAssumption
  <2>4. {clear', failed', quiet'} \subseteq BOOLEAN
    BY <1>1, <1>2, <1>3 DEF TypeOK
  <2>5. Range(todo') \subseteq DOMAIN Entry
    BY <1>3 DEF Left
  <2> QED BY <1>3, <2>1, <2>2, <2>3, <2>4, <2>5 DEF TypeOK
<1>8. RequestsValid'
  BY <1>1, <1>2 DEF RequestsValid, ValidRequest
<1>9. Prepared'
  BY <1>1, <1>2, <1>3, <1>4, <1>5, <1>6 DEF Prepared, Kept
<1>10. Consented'
  <2>1. pc' \notin {"guardEmail", "remove"}
    BY <1>3
  <2>2. ASSUME m # None, m.allow
        PROVE  m.id \in consented \/ (phase = "apply" /\ config # None /\ config.allow
                                        /\ "deleteMember" \notin Left')
    <3>1. CASE Op = "readMember"
      <4>1. member # None /\ phase = "refresh"
        BY <1>2, <1>4, <1>6, <3>1 DEF Prepared
      <4> QED BY <1>2, <2>2, <3>1, <4>1 DEF Consented
    <3>2. CASE Op \in {"createMember", "updateMember"}
      <4>1. config # None /\ phase = "apply" /\ "deleteMember" \notin Left'
        BY <1>2, <1>4, <1>5, <1>6, <3>2 DEF Prepared
      <4> QED BY <2>2, <3>2, <4>1
    <3> QED BY <2>2, <3>1, <3>2
  <2> QED BY <1>1, <2>1, <2>2 DEF Consented
<1>11. Calm' = Calm
  BY <1>1 DEF Calm
<1>12. LateHarmless'
  <2> SUFFICES ASSUME Calm
               PROVE  /\ \A r \in late : Harmless(r)'
                      /\ \/ phase' = "refresh"
                         \/ /\ Left' \cap {"deleteMember", "updateMember"} # {}
                            /\ pc' \notin {"gone", "goneEmail", "goneList", "renamed"}
                         => late' = {}
    BY <1>1, <1>11 DEF LateHarmless
  <2>1. ASSUME NEW r \in late PROVE Harmless(r)'
    BY <1>1, <1>2, <2>1 DEF LateHarmless, Harmless, Kept
  <2>2. Left' \cap {"deleteMember", "updateMember"} = {}
    BY <1>5
  <2>3. phase' = "refresh" => late' = {}
    BY <1>1, <1>2 DEF LateHarmless
  <2> QED BY <2>1, <2>2, <2>3
<1>13. MemberInSync'
  <2> SUFFICES ASSUME Calm PROVE MemberInSync'
    BY <1>11 DEF MemberInSync
  <2>1. pc' \notin {"lookEmail", "rename", "renamed", "verify", "guardEmail", "remove",
                    "goneEmail", "goneList"} /\ "updateMember" \notin Left'
    BY <1>3, <1>5
  <2>2. phase' = "refresh" /\ member' # None => AsRead'
    BY <1>1, <1>6 DEF AsRead, Active
  <2>3. phase' = "apply" /\ config' = None => member' = None
    BY <1>1, <1>2, <1>4, <1>6 DEF Prepared
  <2>4. phase' = "apply" /\ config' # None /\ Left' \cap {"deleteMember", "createMember"} = {} =>
          /\ ~tainted' /\ Active(member.id)'
          /\ users'[member'.id].email = config'.email /\ member'.email = config'.email
          /\ member'.allow = config'.allow /\ NamedAs(member.id, config)'
    <3>1. CASE Op = "deleteMember"
      <4>1. phase' = "apply" /\ config' # None => "createMember" \in Left'
        BY <1>1, <1>2, <1>3, <1>4, <3>1 DEF Prepared
      <4> QED BY <4>1
    <3>2. CASE Op \in {"createMember", "updateMember"}
      <4>1. m # None
        BY <3>2
      <4>2. NamedAs(m.id, config) = NamedAs(member.id, config)' /\ Active(m.id) = Active(member.id)'
        BY <1>1 DEF NamedAs, Active
      <4> QED BY <1>1, <3>2, <4>1, <4>2
    <3>3. CASE Op = "readMember"
      BY <1>1, <1>6, <3>3
    <3> QED BY <3>1, <3>2, <3>3
  <2> QED BY <1>11, <2>1, <2>2, <2>3, <2>4 DEF MemberInSync
<1>14. ProfileInSync'
  <2> SUFFICES ASSUME Calm PROVE ProfileInSync'
    BY <1>11 DEF ProfileInSync
  <2>1. pc' # "fetch" /\ seen' = None
    BY <1>3
  <2>2. CASE phase = "refresh"
    BY <1>1, <1>2, <1>3, <1>6, <2>1, <2>2 DEF ProfileInSync, BelongsTo, Active
  <2>3. CASE phase = "apply" /\ Left' \cap {"dropProfile", "createProfile", "updateProfile"} = {}
    <3>1. Left \cap {"dropProfile", "createProfile", "updateProfile"} = {}
      BY <1>3, <2>3
    <3>2. Kept => Op = "updateMember"
      BY <1>2, <1>4, <1>6, <2>3, <3>1 DEF Prepared
    <3>3. Kept => m # None /\ m.id = member.id
      BY <3>2
    <3> QED BY <1>1, <1>2, <2>1, <2>3, <3>1, <3>3 DEF ProfileInSync, BelongsTo, Managed, Kept
  <2>4. CASE phase = "apply" /\ Left' \cap {"dropProfile", "createProfile", "updateProfile"} # {}
    BY <1>1, <2>1, <2>4 DEF ProfileInSync
  <2> QED BY <1>2, <1>4, <2>2, <2>3, <2>4 DEF TypeOK
<1> QED BY <1>3, <1>7, <1>8, <1>9, <1>10, <1>12, <1>13, <1>14 DEF IInv

\* A handler of the profile ends with p in state, likewise.
LEMMA SetProfileKeeps ==
  ASSUME IInv, todo # <<>>, UNCHANGED <<portal, frame, trouble>>,
         NEW p \in Owned \cup {None}, SetProfile(p),
         Op \in {"readProfile", "dropProfile", "createProfile", "updateProfile"},
         p # None => p.values["hours"] # Garbled,
         Op = "dropProfile" => p = None,
         Op \in {"createProfile", "updateProfile"} => p # None /\ p.member = member.id,
         Calm /\ Op = "readProfile" /\ p # None =>
           /\ Active(p.member) /\ BelongsTo(p.id, p.member)
           /\ \A f \in Fields : p.values[f] \in {None, profiles[p.id].values[f]},
         Calm /\ Op \in {"createProfile", "updateProfile"} =>
           /\ BelongsTo(p.id, member.id)
           /\ \A f \in Managed(config.profile) :
                profiles[p.id].values[f] = config.profile[f]
  PROVE  IInv'
<1>1. /\ Turn(Tail(todo)) /\ profile' = p
      /\ member' = member /\ tainted' = tainted /\ failed' = failed
      /\ users' = users /\ profiles' = profiles /\ late' = late
      /\ config' = config /\ phase' = phase /\ quiet' = quiet /\ consented' = consented
      /\ trouble' = trouble
  BY DEF SetProfile, portal, frame
<1>2. TypeOK /\ RequestsValid /\ Standing /\ Prepared /\ Consented
      /\ LateHarmless /\ MemberInSync /\ ProfileInSync
  BY DEF IInv
<1>3. /\ Standing'
      /\ pc' = "done" <=> todo' = <<>>
      /\ pc' \in {"done", "get", "check", "create", "look", "guard", "drop"}
      /\ seen' = None /\ sent' = {} /\ clear' = TRUE /\ count' = 0
      /\ Left = {Op} \cup Left'
      /\ Left' \subseteq Follows[Op]
      /\ Left' \subseteq DOMAIN Entry
  BY <1>1, <1>2, TurnStands
<1>4. ~failed /\ phase # "idle" /\ Op \in Left /\ pc \in Stages[Op]
  BY <1>2, <1>3 DEF Standing
<1>5. /\ Op \in {"readProfile", "createProfile", "updateProfile"} => Left' = {}
      /\ Op = "dropProfile" => Left' \subseteq
           {"deleteMember", "createMember", "updateMember", "createProfile"}
      /\ Op = "dropProfile" => pc = "drop"
  BY <1>3, <1>4 DEF Follows, Stages
<1>6. /\ Op = "readProfile" => phase = "refresh"
      /\ Op \in {"createProfile", "updateProfile"} => phase = "apply" /\ Kept
      /\ Op = "dropProfile" => phase = "apply"
  BY <1>2, <1>4 DEF TypeOK, Prepared
<1>7. TypeOK'
  <2>1. /\ users' \in [Ids -> Persons \cup {None}]
        /\ profiles' \in [CrmIds -> Profiles \cup {None}]
        /\ config' \in Configs /\ phase' \in {"idle", "refresh", "apply"}
        /\ consented' \subseteq Ids /\ trouble' \in 0..MaxTrouble
        /\ member' \in Members \cup {None}
        /\ tainted' \in BOOLEAN /\ (tainted' => member' # None)
    BY <1>1, <1>2 DEF TypeOK
  <2>2. profile' \in Owned \cup {None} /\ (profile' # None => profile'.values["hours"] # Garbled)
    BY <1>1
  <2>3. sent' \subseteq Fields /\ count' \in 0..(Polls - 1)
    BY <1>3, UsersAssumption
  <2>4. {clear', failed', quiet'} \subseteq BOOLEAN
    BY <1>1, <1>2, <1>3 DEF TypeOK
  <2>5. Range(todo') \subseteq DOMAIN Entry
    BY <1>3 DEF Left
  <2> QED BY <1>3, <2>1, <2>2, <2>3, <2>4, <2>5 DEF TypeOK
<1>8. RequestsValid'
  BY <1>1, <1>2 DEF RequestsValid, ValidRequest
<1>9. Prepared'
  BY <1>1, <1>2, <1>3, <1>4, <1>5, <1>6 DEF Prepared, Kept
<1>10. Consented'
  <2>1. pc' \notin {"guardEmail", "remove"}
    BY <1>3
  <2> QED BY <1>1, <1>2, <1>3, <2>1 DEF Consented
<1>11. Calm' = Calm
  BY <1>1 DEF Calm
<1>12. LateHarmless'
  <2> SUFFICES ASSUME Calm
               PROVE  /\ \A r \in late : Harmless(r)'
                      /\ \/ phase' = "refresh"
                         \/ /\ Left' \cap {"deleteMember", "updateMember"} # {}
                            /\ pc' \notin {"gone", "goneEmail", "goneList", "renamed"}
                         => late' = {}
    BY <1>1, <1>11 DEF LateHarmless
  <2>1. pc \notin {"gone", "goneEmail", "goneList", "renamed"}
    BY <1>4 DEF Stages
  <2>2. ASSUME NEW r \in late PROVE Harmless(r)'
    BY <1>1, <1>2, <2>1, <2>2 DEF LateHarmless, Harmless, Kept
  <2>3. Left' \subseteq Left
    BY <1>3
  <2> QED BY <1>1, <1>2, <2>1, <2>2, <2>3 DEF LateHarmless
<1>13. MemberInSync'
  <2> SUFFICES ASSUME Calm PROVE MemberInSync'
    BY <1>11 DEF MemberInSync
  <2>1. pc' \notin {"lookEmail", "rename", "renamed", "verify", "guardEmail", "remove",
                    "goneEmail", "goneList"}
    BY <1>3
  <2>2. /\ "readMember" \notin Left <=> "readMember" \notin Left'
        /\ "deleteMember" \notin Left <=> "deleteMember" \notin Left'
        /\ "updateMember" \notin Left <=> "updateMember" \notin Left'
        /\ "createMember" \notin Left <=> "createMember" \notin Left'
    BY <1>3
  <2>3. "updateMember" \in Left' => pc = "drop"
    BY <1>5
  <2> QED BY <1>1, <1>2, <1>11, <2>1, <2>2, <2>3 DEF MemberInSync, AsRead, NamedAs, Active
<1>14. ProfileInSync'
  <2> SUFFICES ASSUME Calm PROVE ProfileInSync'
    BY <1>11 DEF ProfileInSync
  <2>1. pc' # "fetch" /\ seen' = None
    BY <1>3
  <2>2. CASE phase = "refresh"
    <3>1. Op = "readProfile"
      BY <1>6, <2>2
    <3> QED BY <1>1, <2>1, <2>2, <3>1 DEF ProfileInSync, BelongsTo, Active
  <2>3. CASE phase = "apply" /\ Left' \cap {"dropProfile", "createProfile", "updateProfile"} = {}
    <3>1. CASE Op = "dropProfile"
      <4>1. ~Kept
        BY <1>2, <1>3, <1>4, <2>3, <3>1 DEF Prepared
      <4> QED BY <1>1, <2>1, <2>3, <3>1, <4>1 DEF ProfileInSync, Kept
    <3>2. CASE Op \in {"createProfile", "updateProfile"}
      BY <1>1, <1>6, <2>1, <2>3, <3>2 DEF ProfileInSync, BelongsTo, Kept, Managed
    <3> QED BY <1>6, <2>3, <3>1, <3>2
  <2>4. CASE phase = "apply" /\ Left' \cap {"dropProfile", "createProfile", "updateProfile"} # {}
    BY <1>1, <2>1, <2>4 DEF ProfileInSync
  <2> QED BY <1>2, <1>4, <2>2, <2>3, <2>4 DEF TypeOK
<1> QED BY <1>3, <1>7, <1>8, <1>9, <1>10, <1>12, <1>13, <1>14 DEF IInv

\* A handler goes on after a read: what has to hold where it goes.
LEMMA WithinKeeps ==
  ASSUME IInv, todo # <<>>,
         UNCHANGED <<portal, frame, trouble, todo, files, failed>>,
         pc' \in Stages[Op] \ {"done", "verify"},
         sent' \subseteq Fields, count' \in 0..(Polls - 1), clear' \in BOOLEAN,
         pc' \in {"lookEmail", "guardEmail"} => seen' \in Persons,
         pc' \in {"rename", "renamed"} => seen' \in [first : Names, last : Names],
         pc' \in {"check", "fetch", "patch"} => seen' \in Sight \cup {None},
         pc' = "patch" \/ (pc' = "fetch" /\ Op = "createProfile") => seen' # None,
         Op = "readProfile" => seen' = None,
         pc' \in {"guardEmail", "remove"} => member.allow,
         pc' = "remove" /\ quiet => ~users[member.id].super,
         pc \in {"gone", "goneEmail", "goneList"} <=> pc' \in {"gone", "goneEmail", "goneList"},
         pc # "renamed",
         pc' \in {"drop", "look", "lookEmail"} => pc \in {"drop", "look", "lookEmail"},
         Calm /\ pc' = "lookEmail" => seen' = users[member.id],
         Calm /\ pc' \in {"rename", "renamed"} =>
           config.first \in {None, seen'.first} /\ config.last \in {None, seen'.last},
         Calm /\ pc' = "rename" =>
           /\ ~users[member.id].assigned
           /\ seen'.first \in {users[member.id].first, config.first}
           /\ seen'.last \in {users[member.id].last, config.last},
         Calm /\ pc' \in {"guardEmail", "remove"} => Active(member.id),
         Calm /\ pc' \in {"goneEmail", "goneList"} /\ clear' => ~Active(member.id),
         Calm /\ phase = "refresh" /\ pc' = "fetch" => Active(profile.member),
         Calm /\ phase = "apply" /\ pc' \in {"check", "fetch", "patch"} /\ seen' # None =>
           /\ BelongsTo(seen'.id, member.id)
           /\ \A f \in Managed(config.profile) :
                seen'.values[f] = config.profile[f] =>
                  profiles[seen'.id].values[f] = config.profile[f]
           /\ Op = "createProfile" => \A c \in CrmIds : BelongsTo(c, member.id) => c = seen'.id
  PROVE  IInv'
<1>1. /\ todo' = todo /\ member' = member /\ tainted' = tainted /\ profile' = profile
      /\ failed' = failed /\ users' = users /\ profiles' = profiles /\ late' = late
      /\ config' = config /\ phase' = phase /\ quiet' = quiet /\ consented' = consented
      /\ trouble' = trouble
  BY DEF portal, frame, files
<1>2. TypeOK /\ RequestsValid /\ Standing /\ Prepared /\ Consented
      /\ LateHarmless /\ MemberInSync /\ ProfileInSync
  BY DEF IInv
<1>3. Left' = Left /\ Op' = Op /\ Calm' = Calm
  BY <1>1 DEF Left, Op, Calm
<1>4. pc' # "done" /\ pc' # "verify" /\ pc # "done"
  BY <1>2 DEF TypeOK
<1>5. TypeOK'
  BY <1>1, <1>2, <1>4 DEF TypeOK
<1>6. RequestsValid'
  BY <1>1, <1>2 DEF RequestsValid, ValidRequest
<1>7. Standing'
  BY <1>1, <1>2, <1>3, <1>4 DEF Standing
<1>8. Prepared'
  BY <1>1, <1>2, <1>3, <1>4 DEF Prepared, Kept
<1>9. Consented'
  BY <1>1, <1>2, <1>3, <1>4 DEF Consented
<1>10. LateHarmless'
  <2> SUFFICES ASSUME Calm PROVE LateHarmless'
    BY <1>3 DEF LateHarmless
  <2>1. ASSUME NEW r \in late PROVE Harmless(r)'
    BY <1>1, <1>2, <2>1 DEF LateHarmless, Harmless, Kept, Active
  <2> QED BY <1>1, <1>2, <1>3, <2>1 DEF LateHarmless
<1>11. MemberInSync'
  <2> SUFFICES ASSUME Calm PROVE MemberInSync'
    BY <1>3 DEF MemberInSync
  <2>1. (pc' \in {"drop", "look", "lookEmail"} /\ "updateMember" \in Left => AsRead')
    BY <1>1, <1>2 DEF MemberInSync, AsRead, Active
  <2>2. \A i : Active(i)' <=> Active(i)
    BY <1>1 DEF Active
  <2>3. NamedAs(member.id, config)' <=> NamedAs(member.id, config)
    BY <1>1 DEF NamedAs
  <2>4. AsRead' <=> AsRead
    BY <1>1 DEF AsRead, Active
  <2>5. Active(member.id)' <=> Active(member.id)
    BY <1>1 DEF Active
  <2> QED BY <1>1, <1>2, <1>3, <1>4, <2>1, <2>3, <2>4, <2>5 DEF MemberInSync
<1>12. ProfileInSync'
  <2> SUFFICES ASSUME Calm PROVE ProfileInSync'
    BY <1>3 DEF ProfileInSync
  <2> QED BY <1>1, <1>2, <1>3, <1>4 DEF ProfileInSync, BelongsTo, Active, Managed, Kept
<1> QED BY <1>5, <1>6, <1>7, <1>8, <1>9, <1>10, <1>11, <1>12 DEF IInv

----------------------------------------------------------------------------
(* The reads of the membership.                                            *)

\* Which handler stands where, and in which phase.
LEMMA Where ==
  ASSUME IInv, pc # "done"
  PROVE  /\ todo # <<>> /\ ~failed /\ phase # "idle" /\ Op \in Left /\ pc \in Stages[Op]
         /\ pc = "get" => Op = "readMember"
         /\ pc \in {"create", "verify"} => Op = "createMember"
         /\ pc \in {"look", "lookEmail", "rename", "renamed"} => Op = "updateMember"
         /\ pc \in {"guard", "guardEmail", "remove", "gone", "goneEmail", "goneList"} =>
              Op = "deleteMember"
         /\ pc \in {"check", "fetch"} => Op \in {"readProfile", "createProfile", "updateProfile"}
         /\ pc = "find" => Op = "createProfile"
         /\ pc = "patch" => Op \in {"createProfile", "updateProfile"}
         /\ pc = "drop" => Op = "dropProfile"
         /\ Op \in {"readMember", "readProfile"} => phase = "refresh"
         /\ Op \notin {"readMember", "readProfile"} => phase = "apply"
<1>1. TypeOK /\ Standing /\ Prepared
  BY DEF IInv
<1>2. todo # <<>> /\ ~failed /\ phase # "idle" /\ pc \in Stages[Op]
  BY <1>1 DEF TypeOK, Standing
<1>3. Op \in DOMAIN Entry /\ Op \in Left
  BY <1>1, <1>2, OrderlyTail DEF Standing, Op, Left
<1>4. /\ Op \in {"readMember", "readProfile"} => phase = "refresh"
      /\ Op \notin {"readMember", "readProfile"} => phase = "apply"
  BY <1>1, <1>2, <1>3 DEF TypeOK, Prepared
<1>5. CASE Op \in {"readMember", "readProfile", "createMember", "updateMember"}
  BY <1>2, <1>3, <1>4, <1>5 DEF Stages
<1>6. CASE Op \in {"deleteMember", "createProfile", "updateProfile", "dropProfile"}
  BY <1>2, <1>3, <1>4, <1>6 DEF Stages
<1> QED BY <1>3, <1>5, <1>6 DEF Entry

\* A read that ends its handler in an error keeps the invariant.
LEMMA FailedRead ==
  ASSUME IInv, pc # "done", Fail, UNCHANGED <<portal, frame>>, trouble' \in 0..MaxTrouble
  PROVE  IInv'
<1>1. phase # "idle"
  BY Where
<1>2. /\ users' = users /\ profiles' = profiles /\ late' = late
      /\ UNCHANGED frame /\ consented' = consented
  BY DEF portal, frame
<1>3. /\ users' \in [Ids -> Persons \cup {None}]
      /\ profiles' \in [CrmIds -> Profiles \cup {None}]
  BY <1>2 DEF IInv, TypeOK
<1>4. RequestsValid'
  BY <1>2 DEF IInv, RequestsValid, ValidRequest
<1> QED BY <1>1, <1>2, <1>3, <1>4, FailKeeps

\* What is known of a user that is active.
LEMMA ActiveUser ==
  ASSUME TypeOK, NEW i, Active(i)
  PROVE  /\ i \in Ids /\ users[i] \in Persons
         /\ \A w, a \in BOOLEAN : Member(i, w, a) \in Members
<1>1. i \in Ids /\ users[i] \in Persons
  BY DEF Active, TypeOK
<1>2. /\ users[i].email \in Emails /\ users[i].first \in Names /\ users[i].last \in Names
  BY <1>1 DEF Persons
<1> QED BY <1>1, <1>2 DEF Member, Members

\* What is known of a member in state.
LEMMA MemberFields ==
  ASSUME NEW m \in Members
  PROVE  /\ m # None /\ m.id \in Ids /\ m.email \in Emails
         /\ m.first \in Names \cup {None} /\ m.last \in Names \cup {None}
         /\ m.welcome \in BOOLEAN /\ m.allow \in BOOLEAN
BY UsersAssumption DEF Members

\* What is known of a configuration.
LEMMA ConfigFields ==
  ASSUME TypeOK, config # None
  PROVE  /\ config \in Wishes /\ config.email \in Emails
         /\ config.first \in Texts \cup {None} /\ config.last \in Texts \cup {None}
         /\ config.welcome \in BOOLEAN /\ config.allow \in BOOLEAN
         /\ config.profile # None =>
              config.profile \in [Fields -> Values] /\ config.profile["hours"] # Garbled
<1>1. config \in Configs /\ config \in Wishes
  BY UsersAssumption DEF TypeOK
<1>2. /\ config.email \in Emails
      /\ config.first \in Texts \cup {None} /\ config.last \in Texts \cup {None}
      /\ config.welcome \in BOOLEAN /\ config.allow \in BOOLEAN
      /\ config.profile \in {None} \cup [Fields -> Values]
  BY <1>1 DEF Wishes
<1> QED BY <1>1, <1>2, UsersAssumption

LEMMA ReadMemberKeeps ==
  ASSUME IInv, ReadMember, UNCHANGED <<portal, frame, trouble>>
  PROVE  IInv'
<1>1. pc = "get" /\ todo # <<>> /\ Op = "readMember" /\ Op \in Left /\ phase = "refresh"
  BY Where DEF ReadMember
<1>2. TypeOK /\ LateHarmless /\ Prepared
  BY DEF IInv
<1>3. member # None /\ member \in Members
  BY <1>1, <1>2 DEF Prepared, TypeOK
<1>4. Calm => late = {}
  BY <1>1, <1>2 DEF LateHarmless
<1>5. CASE Active(member.id)
  <2>1. PICK m : m = Member(member.id, member.welcome, member.allow)
    OBVIOUS
  <2>2. m \in Members
    BY <1>2, <1>3, <1>5, <2>1, ActiveUser, MemberFields
  <2>3. m # None /\ m \in Members \cup {None}
    BY <2>2, MemberFields
  <2>4. /\ m.id = member.id /\ m.allow = member.allow /\ m.email = users[member.id].email
        /\ m.first = users[member.id].first /\ m.last = users[member.id].last
    BY <2>1 DEF Member
  <2>5. Turn(Tail(todo)) /\ member' = m /\ UNCHANGED <<profile, tainted, failed>>
    BY <1>1, <1>5, <2>1 DEF ReadMember
  <2> QED BY <1>1, <1>4, <1>5, <2>3, <2>4, <2>5, SetMemberKeeps
<1>6. CASE ~Active(member.id)
  BY <1>1, <1>4, <1>6, SetMemberKeeps DEF ReadMember, SetMember
<1> QED BY <1>5, <1>6

LEMMA VerifyMemberKeeps ==
  ASSUME IInv, VerifyMember, UNCHANGED <<portal, frame, trouble>>
  PROVE  IInv'
<1>1. /\ pc \in {"verify", "renamed"} /\ pc # "done" /\ todo # <<>> /\ Op \in Left
      /\ pc = "verify" => Op = "createMember"
      /\ pc = "renamed" => Op = "updateMember"
      /\ phase = "apply"
  BY Where DEF VerifyMember
<1>2. TypeOK /\ LateHarmless /\ Prepared /\ MemberInSync
  BY DEF IInv
<1>3. member # None /\ member \in Members /\ config # None
  BY <1>1, <1>2 DEF Prepared, TypeOK
<1>4. PICK asked :
        asked = IF pc = "renamed" THEN seen ELSE [first |-> config.first, last |-> config.last]
  OBVIOUS
<1>5. CASE Active(member.id) /\ Matches(member.id, asked)
  <2>1. PICK m : m = Member(member.id, config.welcome, config.allow)
    OBVIOUS
  <2>2. m \in Members \cup {None} /\ m # None
    BY <1>2, <1>3, <1>5, <2>1, ActiveUser, ConfigFields, MemberFields
  <2>3. m.id = member.id /\ m.allow = config.allow /\ m.email = users[member.id].email
    BY <2>1 DEF Member
  <2>4. SetMember(m)
    BY <1>4, <1>5, <2>1 DEF VerifyMember
  <2>5. Calm => users[m.id].email = config.email /\ NamedAs(m.id, config)
    <3> SUFFICES ASSUME Calm PROVE users[m.id].email = config.email /\ NamedAs(m.id, config)
      OBVIOUS
    <3>1. member.email = config.email
      <4>1. pc = "renamed" => Left \cap {"deleteMember", "createMember"} = {}
        <5>1. Orderly(todo) /\ Op = Head(todo) /\ Left = Range(todo)
          BY <1>1 DEF IInv, Standing, Op, Left
        <5>2. Left \subseteq {Op} \cup Follows[Op]
          BY <1>1, <5>1, OrderlyTail
        <5> QED BY <1>1, <5>2 DEF Follows
      <4> QED BY <1>1, <1>2, <1>3, <4>1 DEF MemberInSync
    <3>2. /\ users[member.id].email = member.email
          /\ asked.first \in {None, users[member.id].first}
          /\ asked.last \in {None, users[member.id].last}
      BY <1>5 DEF Matches
    <3>3. CASE pc = "verify"
      BY <1>4, <2>3, <3>1, <3>2, <3>3 DEF NamedAs
    <3>4. CASE pc = "renamed"
      <4>1. config.first \in {None, seen.first} /\ config.last \in {None, seen.last}
        BY <1>2, <3>4 DEF MemberInSync
      <4>2. asked = seen
        BY <1>4, <3>4
      <4> QED BY <2>3, <3>1, <3>2, <4>1, <4>2 DEF NamedAs
    <3> QED BY <1>1, <3>3, <3>4
  <2>6. Calm => \A r \in late : r.kind # "remove"
    BY <1>1, <1>2 DEF LateHarmless, Harmless
  <2> QED BY <1>1, <1>5, <2>2, <2>3, <2>4, <2>5, <2>6, SetMemberKeeps DEF SetMember
<1>6. CASE ~(Active(member.id) /\ Matches(member.id, asked))
  <2>1. Fail
    BY <1>4, <1>6 DEF VerifyMember
  <2>2. trouble' \in 0..MaxTrouble
    BY <1>2 DEF TypeOK
  <2> QED BY <1>1, <2>1, <2>2, FailedRead
<1> QED BY <1>5, <1>6

\* While a member is updated nothing is left that creates or removes one.
LEMMA WhileUpdating ==
  ASSUME IInv, Op = "updateMember", todo # <<>>
  PROVE  /\ Left \cap {"deleteMember", "createMember"} = {} /\ "updateMember" \in Left
         /\ config # None /\ member # None /\ member \in Members /\ phase = "apply"
         /\ Calm => /\ ~tainted /\ Active(member.id)
                    /\ users[member.id].email = config.email /\ member.email = config.email
<1>1. Orderly(todo) /\ Op = Head(todo) /\ Left = Range(todo)
  BY DEF IInv, Standing, Op, Left
<1>2. Left \subseteq {Op} \cup Follows[Op] /\ "updateMember" \in Left
  BY <1>1, OrderlyTail
<1>3. Left \cap {"deleteMember", "createMember"} = {}
  BY <1>2 DEF Follows
<1>4. config # None /\ member # None
  BY <1>2 DEF IInv, Prepared
<1>5. member \in Members
  BY <1>4 DEF IInv, TypeOK
<1>6. phase = "apply"
  BY <1>2 DEF IInv, Prepared, TypeOK, Standing
<1> QED BY <1>2, <1>3, <1>4, <1>5, <1>6 DEF IInv, MemberInSync

LEMMA LookKeeps ==
  ASSUME IInv, Look, UNCHANGED <<portal, frame, trouble>>
  PROVE  IInv'
<1>1. pc = "look" /\ todo # <<>> /\ Op = "updateMember" /\ Op \in Left /\ phase = "apply"
  BY Where DEF Look
<1>2. TypeOK /\ LateHarmless /\ MemberInSync
  BY DEF IInv
<1>3. /\ config # None /\ member # None /\ member \in Members
      /\ Calm => /\ ~tainted /\ Active(member.id)
                 /\ users[member.id].email = config.email /\ member.email = config.email
  BY <1>1, WhileUpdating
<1>4. Calm => AsRead
  BY <1>1, <1>2 DEF MemberInSync
<1>5. CASE ~NameChanges
  <2>1. PICK m : m = [member EXCEPT !.allow = config.allow]
    OBVIOUS
  <2>2. /\ m \in Members \cup {None} /\ m # None
        /\ m.id = member.id /\ m.allow = config.allow /\ m.email = member.email
    BY <1>2, <1>3, <2>1, ConfigFields, UsersAssumption DEF Members
  <2>3. SetMember(m)
    BY <1>5, <2>1 DEF Look
  <2>4. Calm => Active(m.id) /\ NamedAs(m.id, config)
    BY <1>3, <1>4, <1>5, <2>2 DEF NamedAs, NameChanges, AsRead
  <2>5. Calm => \A r \in late : r.kind # "remove"
    BY <1>1, <1>2 DEF LateHarmless
  <2> QED BY <1>1, <1>3, <2>2, <2>3, <2>4, <2>5, SetMemberKeeps DEF SetMember
<1>6. CASE NameChanges /\ Active(member.id) /\ users[member.id].email = member.email
  <2>1. Goto("lookEmail", users[member.id])
    BY <1>6 DEF Look
  <2>2. /\ pc' = "lookEmail" /\ seen' = users[member.id]
        /\ UNCHANGED <<todo, sent, clear, count, files, failed>>
    BY <2>1 DEF Goto
  <2>3. users[member.id] \in Persons
    BY <1>2, <1>6, ActiveUser
  <2>4. pc' \in Stages[Op] \ {"done", "verify"}
    BY <1>1, <2>2 DEF Stages
  <2>5. sent' \subseteq Fields /\ count' \in 0..(Polls - 1) /\ clear' \in BOOLEAN
    BY <1>2, <2>2 DEF TypeOK
  <2> QED BY <1>1, <2>2, <2>3, <2>4, <2>5, WithinKeeps
<1>7. CASE NameChanges /\ ~(Active(member.id) /\ users[member.id].email = member.email)
  <2>1. Fail
    BY <1>7 DEF Look
  <2>2. trouble' \in 0..MaxTrouble
    BY <1>2 DEF TypeOK
  <2> QED BY <1>1, <2>1, <2>2, FailedRead
<1> QED BY <1>5, <1>6, <1>7

\* The names that are sent: those that are configured, the others as read.
LEMMA NamesSent ==
  ASSUME TypeOK, config # None, seen \in Persons, NEW asked,
         asked = [first |-> IF config.first = None THEN seen.first ELSE config.first,
                  last |-> IF config.last = None THEN seen.last ELSE config.last]
  PROVE  /\ asked \in [first : Names, last : Names]
         /\ asked.first \in {seen.first, config.first} /\ asked.last \in {seen.last, config.last}
         /\ config.first \in {None, asked.first} /\ config.last \in {None, asked.last}
<1>1. seen.first \in Names /\ seen.last \in Names
  BY DEF Persons
<1>2. /\ config.first = None \/ config.first \in Names
      /\ config.last = None \/ config.last \in Names
  BY ConfigFields DEF Names
<1> QED BY <1>1, <1>2

LEMMA LookEmailKeeps ==
  ASSUME IInv, LookEmail, UNCHANGED <<portal, frame, trouble>>
  PROVE  IInv'
<1>1. pc = "lookEmail" /\ todo # <<>> /\ Op = "updateMember" /\ Op \in Left /\ phase = "apply"
  BY Where DEF LookEmail
<1>2. TypeOK /\ LateHarmless /\ MemberInSync
  BY DEF IInv
<1>3. /\ config # None /\ member # None /\ member \in Members
      /\ Calm => /\ ~tainted /\ Active(member.id)
                 /\ users[member.id].email = config.email /\ member.email = config.email
  BY <1>1, WhileUpdating
<1>4. seen \in Persons /\ (Calm => seen = users[member.id])
  BY <1>1, <1>2 DEF IInv, Standing, MemberInSync
<1>5. PICK asked :
        asked = [first |-> IF config.first = None THEN seen.first ELSE config.first,
                 last |-> IF config.last = None THEN seen.last ELSE config.last]
  OBVIOUS
<1>6. /\ asked \in [first : Names, last : Names]
      /\ asked.first \in {seen.first, config.first} /\ asked.last \in {seen.last, config.last}
      /\ config.first \in {None, asked.first} /\ config.last \in {None, asked.last}
  BY <1>2, <1>3, <1>4, <1>5, NamesSent
<1>7. CASE ~SameByEmail \/ Assigned
  <2>1. Fail
    BY <1>7 DEF LookEmail
  <2>2. trouble' \in 0..MaxTrouble
    BY <1>2 DEF TypeOK
  <2> QED BY <1>1, <2>1, <2>2, FailedRead
<1>8. CASE SameByEmail /\ ~Assigned /\ asked = [first |-> seen.first, last |-> seen.last]
  <2>1. PICK m : m = [id |-> member.id, email |-> member.email,
                      first |-> asked.first, last |-> asked.last,
                      welcome |-> config.welcome, allow |-> config.allow]
    OBVIOUS
  <2>2. m \in Members
    BY <1>2, <1>3, <1>6, <2>1, ConfigFields, MemberFields DEF Members
  <2>3. /\ m.id = member.id /\ m.allow = config.allow /\ m.email = member.email
        /\ m # None /\ m \in Members \cup {None}
    BY <2>1, <2>2, MemberFields
  <2>4. SetMember(m)
    BY <1>5, <1>8, <2>1 DEF LookEmail
  <2>5. Calm => Active(m.id) /\ NamedAs(m.id, config)
    BY <1>3, <1>4, <1>6, <1>8, <2>3 DEF NamedAs
  <2>6. Calm => \A r \in late : r.kind # "remove"
    BY <1>1, <1>2 DEF LateHarmless
  <2> QED BY <1>1, <1>3, <2>3, <2>4, <2>5, <2>6, SetMemberKeeps DEF SetMember
<1>9. CASE SameByEmail /\ ~Assigned /\ asked # [first |-> seen.first, last |-> seen.last]
  <2>1. Goto("rename", asked)
    BY <1>5, <1>9 DEF LookEmail
  <2>2. /\ pc' = "rename" /\ seen' = asked
        /\ UNCHANGED <<todo, sent, clear, count, files, failed>>
    BY <2>1 DEF Goto
  <2>3. pc' \in Stages[Op] \ {"done", "verify"}
    BY <1>1, <2>2 DEF Stages
  <2>4. sent' \subseteq Fields /\ count' \in 0..(Polls - 1) /\ clear' \in BOOLEAN
    BY <1>2, <2>2 DEF TypeOK
  <2>5. ~users[member.id].assigned
    BY <1>9 DEF Assigned
  <2>6. Calm => /\ seen'.first \in {users[member.id].first, config.first}
                /\ seen'.last \in {users[member.id].last, config.last}
    BY <1>4, <1>6, <2>2
  <2> QED BY <1>1, <1>6, <2>2, <2>3, <2>4, <2>5, <2>6, WithinKeeps
<1> QED BY <1>5, <1>7, <1>8, <1>9

\* While a member is removed: it is one that this run found in state.
LEMMA WhileRemoving ==
  ASSUME IInv, Op = "deleteMember", todo # <<>>
  PROVE  /\ "deleteMember" \in Left /\ member # None /\ member \in Members /\ phase = "apply"
         /\ member.allow => member.id \in consented
<1>1. "deleteMember" \in Left
  BY OrderlyTail DEF IInv, Standing, Op, Left
<1>2. member # None /\ member \in Members /\ phase = "apply"
  BY <1>1 DEF IInv, Prepared, TypeOK, Standing
<1>3. member.allow => member.id \in consented
  BY <1>1, <1>2 DEF IInv, Consented
<1> QED BY <1>1, <1>2, <1>3

LEMMA GuardKeeps ==
  ASSUME IInv, Guard, UNCHANGED <<portal, frame, trouble>>
  PROVE  IInv'
<1>1. pc = "guard" /\ todo # <<>> /\ Op = "deleteMember" /\ Op \in Left /\ phase = "apply"
  BY Where DEF Guard
<1>2. TypeOK /\ LateHarmless
  BY DEF IInv
<1>3. CASE ~MayRemove
  <2>1. Fail /\ trouble' \in 0..MaxTrouble
    BY <1>2, <1>3 DEF Guard, TypeOK
  <2> QED BY <1>1, <2>1, FailedRead
<1>4. CASE MayRemove /\ ~Active(member.id)
  <2>1. SetMember(None)
    BY <1>4 DEF Guard
  <2>2. Calm => \A r \in late : r.kind # "remove"
    BY <1>1, <1>2 DEF LateHarmless
  <2> QED BY <1>1, <2>1, <2>2, SetMemberKeeps DEF SetMember
<1>5. CASE MayRemove /\ Active(member.id) /\ users[member.id].email = member.email
  <2>1. Goto("guardEmail", users[member.id])
    BY <1>5 DEF Guard
  <2>2. /\ pc' = "guardEmail" /\ seen' = users[member.id]
        /\ UNCHANGED <<todo, sent, clear, count, files, failed>>
    BY <2>1 DEF Goto
  <2>3. users[member.id] \in Persons
    BY <1>2, <1>5, ActiveUser
  <2>4. pc' \in Stages[Op] \ {"done", "verify"}
    BY <1>1, <2>2 DEF Stages
  <2>5. sent' \subseteq Fields /\ count' \in 0..(Polls - 1) /\ clear' \in BOOLEAN
    BY <1>2, <2>2 DEF TypeOK
  <2>6. member.allow
    BY <1>5 DEF MayRemove
  <2> QED BY <1>1, <1>5, <2>2, <2>3, <2>4, <2>5, <2>6, WithinKeeps
<1>6. CASE MayRemove /\ Active(member.id) /\ users[member.id].email # member.email
  <2>1. Fail /\ trouble' \in 0..MaxTrouble
    BY <1>2, <1>6 DEF Guard, TypeOK
  <2> QED BY <1>1, <2>1, FailedRead
<1> QED BY <1>3, <1>4, <1>5, <1>6

LEMMA GuardEmailKeeps ==
  ASSUME IInv, GuardEmail, UNCHANGED <<portal, frame, trouble>>
  PROVE  IInv'
<1>1. pc = "guardEmail" /\ todo # <<>> /\ Op = "deleteMember" /\ Op \in Left /\ phase = "apply"
  BY Where DEF GuardEmail
<1>2. TypeOK /\ Consented /\ MemberInSync
  BY DEF IInv
<1>3. CASE ~SameByEmail \/ Protected
  <2>1. Fail /\ trouble' \in 0..MaxTrouble
    BY <1>2, <1>3 DEF GuardEmail, TypeOK
  <2> QED BY <1>1, <2>1, FailedRead
<1>4. CASE SameByEmail /\ ~Protected
  <2>1. Goto("remove", None)
    BY <1>4 DEF GuardEmail
  <2>2. /\ pc' = "remove" /\ seen' = None
        /\ UNCHANGED <<todo, sent, clear, count, files, failed>>
    BY <2>1 DEF Goto
  <2>3. pc' \in Stages[Op] \ {"done", "verify"}
    BY <1>1, <2>2 DEF Stages
  <2>4. sent' \subseteq Fields /\ count' \in 0..(Polls - 1) /\ clear' \in BOOLEAN
    BY <1>2, <2>2 DEF TypeOK
  <2>5. member.allow /\ ~users[member.id].super
    BY <1>1, <1>2, <1>4 DEF Consented, Protected
  <2>6. Calm => Active(member.id)
    BY <1>1, <1>2 DEF MemberInSync
  <2> QED BY <1>1, <2>2, <2>3, <2>4, <2>5, <2>6, WithinKeeps
<1> QED BY <1>3, <1>4

\* A wait that begins again, or gives up.
LEMMA WaitForAbsenceKeeps ==
  ASSUME IInv, WaitForAbsence, UNCHANGED <<portal, frame, trouble>>
  PROVE  IInv'
<1>1. /\ pc \in {"gone", "goneEmail", "goneList"} /\ pc # "done"
      /\ todo # <<>> /\ Op = "deleteMember" /\ Op \in Left /\ phase = "apply"
  BY Where DEF WaitForAbsence
<1>2. TypeOK /\ LateHarmless /\ MemberInSync
  BY DEF IInv
<1>3. Polls \in Nat \ {0} /\ count \in 0..(Polls - 1) /\ clear \in BOOLEAN /\ sent \subseteq Fields
  BY <1>2, UsersAssumption DEF TypeOK
<1>4. CASE pc # "goneList"
  <2>1. /\ pc' = NextRead[pc] /\ clear' = (clear /\ Absent)
        /\ UNCHANGED <<todo, seen, sent, count, files, failed>>
    BY <1>4 DEF WaitForAbsence
  <2>2. pc' \in {"goneEmail", "goneList"} /\ (pc' = "goneList" => pc = "goneEmail")
        /\ (pc' = "goneEmail" => pc = "gone")
    BY <1>1, <1>4, <2>1 DEF NextRead
  <2>3. clear' \in BOOLEAN
    BY <2>1, Zenon
  <2>4. pc' \in Stages[Op] \ {"done", "verify"}
    BY <1>1, <2>2 DEF Stages
  <2>5. clear' => clear /\ Absent
    BY <2>1
  <2>6. Calm /\ clear' => ~Active(member.id)
    <3>1. CASE pc = "gone"
      BY <2>5, <3>1 DEF Absent
    <3>2. CASE pc = "goneEmail"
      BY <1>2, <2>5, <3>2 DEF MemberInSync
    <3> QED BY <1>1, <1>4, <3>1, <3>2
  <2> QED BY <1>1, <1>3, <2>1, <2>2, <2>3, <2>4, <2>6, WithinKeeps
<1>5. CASE pc = "goneList" /\ clear /\ Absent
  <2>1. SetMember(None)
    BY <1>5 DEF WaitForAbsence
  <2>2. Calm => ~Active(member.id)
    BY <1>2, <1>5 DEF MemberInSync
  <2>3. Calm => \A r \in late : r.kind # "remove"
    BY <1>2, <2>2 DEF LateHarmless, Harmless
  <2> QED BY <1>1, <2>1, <2>3, SetMemberKeeps DEF SetMember
<1>6. CASE pc = "goneList" /\ ~(clear /\ Absent)
  <2>1. AgainOrFail("gone")
    BY <1>6 DEF WaitForAbsence
  <2>2. CASE Again("gone")
    <3>1. /\ count + 1 < Polls /\ count' = count + 1 /\ pc' = "gone" /\ clear' = TRUE
          /\ UNCHANGED <<todo, seen, sent, files, failed>>
      BY <2>2 DEF Again
    <3>2. pc' \in Stages[Op] \ {"done", "verify"}
      BY <1>1, <3>1 DEF Stages
    <3>3. count' \in 0..(Polls - 1)
      BY <1>3, <3>1
    <3> QED BY <1>1, <1>3, <3>1, <3>2, <3>3, WithinKeeps
  <2>3. CASE Fail
    <3>1. trouble' \in 0..MaxTrouble
      BY <1>2 DEF TypeOK
    <3> QED BY <1>1, <2>3, <3>1, FailedRead
  <2> QED BY <2>1, <2>2, <2>3 DEF AgainOrFail
<1> QED BY <1>1, <1>4, <1>5, <1>6

----------------------------------------------------------------------------
(* The reads of the profile.                                               *)

\* While the profile is managed nothing else is left, and the member it
\* belongs to is there.
LEMMA WhileManaging ==
  ASSUME IInv, Op \in {"createProfile", "updateProfile"}, todo # <<>>
  PROVE  /\ Left = {Op} /\ phase = "apply" /\ Kept /\ member # None /\ member \in Members
         /\ Op = "updateProfile" =>
              profile # None /\ profile \in Owned /\ profile.member = member.id
         /\ Owner = member.id /\ Wanted = config.profile
         /\ config.profile \in [Fields -> Values]
         /\ Calm => Active(member.id)
<1>1. Orderly(todo) /\ Op = Head(todo) /\ Left = Range(todo) /\ ~failed /\ phase # "idle"
  BY DEF IInv, Standing, Op, Left
<1>2. Left \subseteq {Op} \cup Follows[Op] /\ Op \in Left
  BY <1>1, OrderlyTail
<1>3. Left = {Op}
  <2>1. Follows["createProfile"] = {} /\ Follows["updateProfile"] = {}
    BY DEF Follows
  <2> QED BY <1>2, <2>1
<1>4. phase = "apply" /\ Kept
  BY <1>1, <1>3 DEF IInv, TypeOK, Prepared
<1>5. config # None /\ config.profile # None
  BY <1>4 DEF Kept
<1>6. member # None /\ member \in Members
  BY <1>1, <1>3, <1>4, <1>5 DEF IInv, Prepared, TypeOK
<1>7. Op = "updateProfile" => profile # None /\ profile \in Owned /\ profile.member = member.id
  BY <1>3 DEF IInv, Prepared, TypeOK
<1>8. Owner = member.id /\ Wanted = config.profile
  BY <1>7 DEF Owner, Wanted
<1>9. config.profile \in [Fields -> Values]
  BY <1>5, ConfigFields DEF IInv
<1>10. Calm => Active(member.id)
  BY <1>3, <1>4, <1>5 DEF IInv, MemberInSync
<1> QED BY <1>3, <1>4, <1>6, <1>7, <1>8, <1>9, <1>10

\* While the profile is read nothing else is left, and state holds one.
LEMMA WhileReading ==
  ASSUME IInv, Op = "readProfile", todo # <<>>
  PROVE  /\ Left = {"readProfile"} /\ phase = "refresh" /\ profile # None /\ profile \in Owned
         /\ Owner = profile.member /\ Wanted = profile.values
<1>1. Orderly(todo) /\ Op = Head(todo) /\ Left = Range(todo) /\ phase # "idle"
  BY DEF IInv, Standing, Op, Left
<1>2. Left \subseteq {Op} \cup Follows[Op] /\ Op \in Left
  BY <1>1, OrderlyTail
<1>3. Left = {"readProfile"}
  BY <1>2 DEF Follows
<1>4. phase = "refresh" /\ profile # None /\ profile \in Owned
  BY <1>1, <1>3 DEF IInv, TypeOK, Prepared
<1>5. Owner = profile.member /\ Wanted = profile.values
  BY DEF Owner, Wanted
<1> QED BY <1>3, <1>4, <1>5

\* A profile that is not there: a read lets go of it, the others fail.
LEMMA NotFoundKeeps ==
  ASSUME IInv, NotFound, UNCHANGED <<portal, frame, trouble>>, pc # "done",
         Op \in {"readProfile", "createProfile", "updateProfile"}
  PROVE  IInv'
<1>1. todo # <<>>
  BY Where
<1>2. CASE Op = "readProfile"
  <2>1. SetProfile(None)
    BY <1>2 DEF NotFound
  <2> QED BY <1>1, <1>2, <2>1, SetProfileKeeps
<1>3. CASE Op # "readProfile"
  <2>1. Fail /\ trouble' \in 0..MaxTrouble
    BY <1>3 DEF NotFound, IInv, TypeOK
  <2> QED BY <2>1, FailedRead
<1> QED BY <1>2, <1>3

LEMMA CheckMemberKeeps ==
  ASSUME IInv, CheckMember, UNCHANGED <<portal, frame, trouble>>
  PROVE  IInv'
<1>1. /\ pc = "check" /\ pc # "done" /\ todo # <<>>
      /\ Op \in {"readProfile", "createProfile", "updateProfile"}
      /\ Op = "readProfile" => phase = "refresh"
      /\ Op # "readProfile" => phase = "apply"
  BY Where DEF CheckMember
<1>2. TypeOK /\ Standing /\ ProfileInSync
  BY DEF IInv
<1>3. CASE ~Active(Owner)
  <2>1. NotFound
    BY <1>3 DEF CheckMember
  <2> QED BY <1>1, <2>1, NotFoundKeeps
<1>4. CASE Active(Owner)
  <2>1. Goto(IF Op = "createProfile" /\ seen = None THEN "find" ELSE "fetch", seen)
    BY <1>4 DEF CheckMember
  <2>2. /\ pc' = IF Op = "createProfile" /\ seen = None THEN "find" ELSE "fetch"
        /\ seen' = seen
        /\ UNCHANGED <<todo, sent, clear, count, files, failed>>
    BY <2>1 DEF Goto
  <2>3. pc' \in Stages[Op] \ {"done", "verify"}
    BY <1>1, <2>2 DEF Stages
  <2>4. sent' \subseteq Fields /\ count' \in 0..(Polls - 1) /\ clear' \in BOOLEAN
    BY <1>2, <2>2 DEF TypeOK
  <2>5. seen' \in Sight \cup {None} /\ (Op = "readProfile" => seen' = None)
    BY <1>1, <1>2, <2>2 DEF Standing
  <2>6. phase = "refresh" => Active(profile.member)
    BY <1>1, <1>4, WhileReading
  <2>7. Calm /\ phase = "apply" /\ seen' # None =>
           /\ BelongsTo(seen'.id, member.id)
           /\ \A f \in Managed(config.profile) :
                seen'.values[f] = config.profile[f] =>
                  profiles[seen'.id].values[f] = config.profile[f]
           /\ Op = "createProfile" => \A c \in CrmIds : BelongsTo(c, member.id) => c = seen'.id
    BY <1>1, <1>2, <2>2 DEF ProfileInSync
  <2> QED BY <1>1, <2>2, <2>3, <2>4, <2>5, <2>6, <2>7, WithinKeeps
<1> QED BY <1>3, <1>4

\* Candidates that are not ambiguous are one, which is the first.
LEMMA OnlyOne ==
  ASSUME NEW found \in SUBSET CrmIds, found # {}, ~Ambiguous(found)
  PROVE  FirstOf(found) \in CrmIds /\ found = {FirstOf(found)}
<1>1. IsFiniteSet(found)
  BY FS_Subset, UsersAssumption
<1>2. Cardinality(found) \in Nat /\ Cardinality(found) # 0
  BY <1>1, FS_CardinalityType, FS_EmptySet
<1>3. Cardinality(found) = 1
  BY <1>2 DEF Ambiguous
<1>4. PICK c : found = {c}
  BY <1>1, <1>3, FS_Singleton
<1>5. c \in CrmIds /\ c \in Nat
  BY <1>4, UsersAssumption
<1>6. FirstOf(found) = c
  <2>1. \A d \in found : c <= d
    BY <1>4, <1>5
  <2>2. FirstOf(found) \in found
    BY <1>4, <2>1 DEF FirstOf
  <2> QED BY <1>4, <2>2
<1> QED BY <1>4, <1>5, <1>6

LEMMA FindKeeps ==
  ASSUME IInv, Find, UNCHANGED <<portal, frame, trouble>>
  PROVE  IInv'
<1>1. pc = "find" /\ pc # "done" /\ todo # <<>> /\ Op = "createProfile" /\ phase = "apply"
  BY Where DEF Find
<1>2. TypeOK
  BY DEF IInv
<1>3. Polls \in Nat \ {0} /\ count \in 0..(Polls - 1) /\ clear \in BOOLEAN /\ sent \subseteq Fields
  BY <1>2, UsersAssumption DEF TypeOK
<1>4. Owner = member.id
  BY <1>1, WhileManaging
<1>5. PICK found : found = {c \in CrmIds : profiles[c] # None /\ profiles[c].settings = Owner}
  OBVIOUS
<1>6. trouble' \in 0..MaxTrouble
  BY <1>2 DEF TypeOK
<1>7. CASE found # {} /\ ~Ambiguous(found)
  <2>1. FirstOf(found) \in CrmIds /\ found = {FirstOf(found)}
    BY <1>5, <1>7, OnlyOne
  <2>2. PICK c \in CrmIds : c = FirstOf(found)
    BY <2>1
  <2>3. PICK s : s = [id |-> c, values |-> Nothing]
    OBVIOUS
  <2>4. Goto("fetch", s)
    BY <1>5, <1>7, <2>2, <2>3 DEF Find
  <2>5. /\ pc' = "fetch" /\ seen' = s
        /\ UNCHANGED <<todo, sent, clear, count, files, failed>>
    BY <2>4 DEF Goto
  <2>6. Nothing \in [Fields -> Values] /\ \A f \in Fields : Nothing[f] = None
    BY DEF Nothing, Values
  <2>7. Nothing["hours"] # Garbled
    BY <2>6, UsersAssumption DEF Fields
  <2>8. s \in Sight /\ s.id = c /\ s.values = Nothing
    BY <2>3, <2>6, <2>7 DEF Sight, Sights
  <2>9. s # None
    BY <2>8, UsersAssumption DEF Sight
  <2>10. BelongsTo(c, member.id) /\ \A d \in CrmIds : BelongsTo(d, member.id) => d = c
    BY <1>4, <1>5, <2>1, <2>2 DEF BelongsTo
  <2>11. \A f \in Managed(config.profile) : s.values[f] # config.profile[f]
    BY <2>6, <2>8 DEF Managed
  <2>12. pc' \in Stages[Op] \ {"done", "verify"}
    BY <1>1, <2>5 DEF Stages
  <2> QED BY <1>1, <1>3, <2>5, <2>8, <2>9, <2>10, <2>11, <2>12, WithinKeeps
<1>8. CASE found # {} /\ Ambiguous(found)
  <2>1. Fail
    BY <1>5, <1>8 DEF Find
  <2> QED BY <1>1, <1>6, <2>1, FailedRead
<1>9. CASE found = {}
  <2>1. AgainOrFail("find")
    BY <1>5, <1>9 DEF Find
  <2>2. CASE Again("find")
    <3>1. /\ count + 1 < Polls /\ count' = count + 1 /\ pc' = "find" /\ clear' = TRUE
          /\ UNCHANGED <<todo, seen, sent, files, failed>>
      BY <2>2 DEF Again
    <3>2. pc' \in Stages[Op] \ {"done", "verify"}
      BY <1>1, <3>1 DEF Stages
    <3>3. count' \in 0..(Polls - 1)
      BY <1>3, <3>1
    <3> QED BY <1>1, <1>3, <3>1, <3>2, <3>3, WithinKeeps
  <2>3. CASE Fail
    BY <1>1, <1>6, <2>3, FailedRead
  <2> QED BY <2>1, <2>2, <2>3 DEF AgainOrFail
<1> QED BY <1>7, <1>8, <1>9

\* What a fetch makes of the profile c that it accepts: well-formed, as in the
\* portal where it has been asked for, and otherwise as it was known.
LEMMA WhatIsKnown ==
  ASSUME TypeOK, seen \in Sight \cup {None}, NEW c \in CrmIds, profiles[c] # None, ~Wrong(c)
  PROVE  /\ Known(c) \in Sight /\ Known(c).id = c
         /\ profiles[c].settings = Owner
         /\ \A f \in Fields :
              Known(c).values[f] = IF f \in Asked THEN profiles[c].values[f]
                                   ELSE IF seen = None THEN None ELSE seen.values[f]
<1>1. profiles[c] \in Profiles
  BY DEF TypeOK
<1>2. profiles[c].values \in [Fields -> Values]
  BY <1>1 DEF Profiles
<1>3. None \in Values /\ None # Garbled
  BY UsersAssumption DEF Values
<1>4. seen # None => seen.values \in [Fields -> Values] /\ seen.values["hours"] # Garbled
  BY DEF Sight, Sights
<1>5. PICK v : v = [f \in Fields |-> IF f \in Asked THEN profiles[c].values[f]
                                     ELSE IF seen = None THEN None ELSE seen.values[f]]
  OBVIOUS
<1>6. /\ v \in [Fields -> Values]
      /\ \A f \in Fields : v[f] = IF f \in Asked THEN profiles[c].values[f]
                                  ELSE IF seen = None THEN None ELSE seen.values[f]
  BY <1>2, <1>3, <1>4, <1>5
<1>7. v["hours"] # Garbled
  <2>1. "hours" \in Fields
    BY DEF Fields
  <2>2. "hours" \in Asked => profiles[c].values["hours"] # Garbled
    BY DEF Wrong
  <2> QED BY <1>3, <1>4, <1>6, <2>1, <2>2
<1>8. Known(c) = [id |-> c, values |-> v]
  BY <1>5 DEF Known
<1>9. Known(c).id = c /\ Known(c).values = v /\ Known(c) \in Sight
  BY <1>6, <1>7, <1>8 DEF Sight, Sights
<1>10. profiles[c].settings = Owner
  BY DEF Wrong
<1> QED BY <1>6, <1>9, <1>10

\* Nothing more is sent exactly when everything that is managed agrees.
LEMMA NeedNothing ==
  ASSUME NEW p
  PROVE  /\ Need(p) = {} => \A f \in Managed(config.profile) : p.values[f] = config.profile[f]
         /\ Need(p) \subseteq Fields
<1>1. NeedAtOnce(p) = {f \in Managed(config.profile) : p.values[f] # config.profile[f]}
  BY DEF NeedAtOnce
<1>2. Managed(config.profile) \subseteq Fields
  BY DEF Managed
<1>3. /\ Need(p) = {} => NeedAtOnce(p) = {}
      /\ Need(p) \subseteq NeedAtOnce(p)
  <2>1. PICK n, first : n = NeedAtOnce(p) /\ first = n \ {"hours"}
    OBVIOUS
  <2>2. Need(p) = IF first = {} THEN n ELSE first
    BY <2>1 DEF Need
  <2> QED BY <2>1, <2>2
<1> QED BY <1>1, <1>2, <1>3

\* The profile that goes into state.
LEMMA ModelFields ==
  ASSUME NEW p \in Sight, Owner \in Ids
  PROVE  /\ ProfileModel(p) \in Owned /\ ProfileModel(p) # None
         /\ ProfileModel(p).id = p.id /\ ProfileModel(p).member = Owner
         /\ ProfileModel(p).values["hours"] # Garbled
         /\ \A f \in Fields : ProfileModel(p).values[f] =
                                IF Wanted[f] = None THEN None ELSE p.values[f]
<1>1. p.id \in CrmIds /\ p.values \in [Fields -> Values] /\ p.values["hours"] # Garbled
  BY DEF Sight, Sights
<1>2. None \in Values /\ None # Garbled /\ "hours" \in Fields
  BY UsersAssumption DEF Values, Fields
<1>3. PICK v : v = [f \in Fields |-> IF Wanted[f] = None THEN None ELSE p.values[f]]
  OBVIOUS
<1>4. /\ v \in [Fields -> Values] /\ v["hours"] # Garbled
      /\ \A f \in Fields : v[f] = IF Wanted[f] = None THEN None ELSE p.values[f]
  BY <1>1, <1>2, <1>3
<1>5. ProfileModel(p) = [id |-> p.id, member |-> Owner, values |-> v]
  BY <1>3 DEF ProfileModel
<1>6. /\ ProfileModel(p).id = p.id /\ ProfileModel(p).member = Owner
      /\ ProfileModel(p).values = v
  BY <1>5
<1>7. ProfileModel(p) \in Owned
  BY <1>1, <1>4, <1>5 DEF Owned
<1>8. ProfileModel(p) # None
  BY <1>7, UsersAssumption
<1> QED BY <1>4, <1>6, <1>7, <1>8

\* Reading the profile in state: it is told as it is, where it is managed.
LEMMA FetchToRead ==
  ASSUME IInv, pc = "fetch", Op = "readProfile", UNCHANGED <<portal, frame, trouble>>,
         NEW c \in CrmIds, profiles[c] # None, ~Wrong(c),
         SetProfile(ProfileModel(Known(c)))
  PROVE  IInv'
<1>1. todo # <<>>
  BY Where
<1>2. /\ phase = "refresh" /\ profile # None /\ profile \in Owned
      /\ Owner = profile.member /\ Wanted = profile.values
  BY <1>1, WhileReading
<1>3. Owner \in Ids /\ seen = None /\ seen \in Sight \cup {None} /\ TypeOK
  BY <1>2 DEF Owned, IInv, Standing
<1>4. /\ Known(c) \in Sight /\ Known(c).id = c
      /\ profiles[c].settings = Owner
      /\ \A f \in Fields :
           Known(c).values[f] = IF f \in Asked THEN profiles[c].values[f]
                                ELSE IF seen = None THEN None ELSE seen.values[f]
  BY <1>3, WhatIsKnown
<1>5. PICK p : p = ProfileModel(Known(c))
  OBVIOUS
<1>6. /\ p \in Owned /\ p # None /\ p.id = c /\ p.member = Owner
      /\ p.values["hours"] # Garbled
      /\ \A f \in Fields : p.values[f] = IF Wanted[f] = None THEN None ELSE Known(c).values[f]
  BY <1>3, <1>4, <1>5, ModelFields
<1>7. \A f \in Fields : p.values[f] \in {None, profiles[p.id].values[f]}
  BY <1>3, <1>4, <1>6
<1>8. Calm => Active(p.member) /\ BelongsTo(p.id, p.member)
  BY <1>2, <1>4, <1>6 DEF IInv, ProfileInSync, BelongsTo
<1> QED BY <1>1, <1>5, <1>6, <1>7, <1>8, SetProfileKeeps

\* A profile that agrees where it is managed goes into state as it is.
LEMMA FetchToSettle ==
  ASSUME IInv, pc = "fetch", Op \in {"createProfile", "updateProfile"},
         UNCHANGED <<portal, frame, trouble>>,
         NEW c \in CrmIds, profiles[c] # None, profiles[c].settings = member.id,
         NEW p \in Sight, p.id = c,
         Calm => \A f \in Managed(config.profile) :
                   p.values[f] = config.profile[f] => profiles[c].values[f] = config.profile[f],
         Need(p) = {}, SetProfile(ProfileModel(p))
  PROVE  IInv'
<1>1. todo # <<>>
  BY Where
<1>2. /\ phase = "apply" /\ Kept /\ member \in Members /\ Owner = member.id
      /\ Wanted = config.profile
  BY <1>1, WhileManaging
<1>3. Owner \in Ids
  BY <1>2, MemberFields
<1>4. PICK q : q = ProfileModel(p)
  OBVIOUS
<1>5. q \in Owned /\ q # None /\ q.id = c /\ q.member = Owner /\ q.values["hours"] # Garbled
  BY <1>3, <1>4, ModelFields
<1>6. Calm => \A f \in Managed(config.profile) : profiles[q.id].values[f] = config.profile[f]
  BY <1>5, NeedNothing
<1>7. BelongsTo(q.id, member.id)
  BY <1>5 DEF BelongsTo
<1> QED BY <1>1, <1>2, <1>4, <1>5, <1>6, <1>7, SetProfileKeeps

\* One that does not is patched.
LEMMA FetchToPatch ==
  ASSUME IInv, pc = "fetch", Op \in {"createProfile", "updateProfile"},
         UNCHANGED <<portal, frame, trouble>>,
         NEW c \in CrmIds, profiles[c] # None, profiles[c].settings = member.id,
         NEW p \in Sight, p.id = c,
         Calm => \A f \in Managed(config.profile) :
                   p.values[f] = config.profile[f] => profiles[c].values[f] = config.profile[f],
         Calm /\ Op = "createProfile" => \A d \in CrmIds : BelongsTo(d, member.id) => d = c,
         pc' = "patch", seen' = p, sent' = Need(p),
         UNCHANGED <<todo, clear, count, files, failed>>
  PROVE  IInv'
<1>1. todo # <<>> /\ phase = "apply"
  BY Where
<1>2. p # None
  BY UsersAssumption DEF Sight
<1>3. pc' \in Stages[Op] \ {"done", "verify"}
  BY DEF Stages
<1>4. sent' \subseteq Fields /\ count' \in 0..(Polls - 1) /\ clear' \in BOOLEAN
  BY NeedNothing DEF IInv, TypeOK
<1>5. BelongsTo(c, member.id)
  BY DEF BelongsTo
<1> QED BY <1>1, <1>2, <1>3, <1>4, <1>5, WithinKeeps

LEMMA FetchKeeps ==
  ASSUME IInv, Fetch, UNCHANGED <<portal, frame, trouble>>
  PROVE  IInv'
<1>1. /\ pc = "fetch" /\ pc # "done" /\ todo # <<>>
      /\ Op \in {"readProfile", "createProfile", "updateProfile"}
      /\ Op = "readProfile" => phase = "refresh"
      /\ Op # "readProfile" => phase = "apply"
  BY Where DEF Fetch
<1>2. TypeOK /\ Standing /\ ProfileInSync
  BY DEF IInv
<1>3. seen \in Sight \cup {None} /\ (Op = "createProfile" => seen # None)
  BY <1>1, <1>2 DEF Standing
<1>4. PICK c : c = IF seen # None THEN seen.id ELSE profile.id
  OBVIOUS
<1>5. c \in CrmIds
  <2>1. CASE seen # None
    BY <1>3, <1>4, <2>1 DEF Sight, Sights
  <2>2. CASE seen = None
    <3>1. profile \in Owned
      BY <1>1, <1>3, <2>2, WhileManaging, WhileReading
    <3> QED BY <1>4, <2>2, <3>1 DEF Owned
  <2> QED BY <2>1, <2>2
<1>6. CASE profiles[c] = None
  <2>1. NotFound
    BY <1>4, <1>6 DEF Fetch
  <2> QED BY <1>1, <2>1, NotFoundKeeps
<1>7. CASE profiles[c] # None /\ Wrong(c)
  <2>1. Fail /\ trouble' \in 0..MaxTrouble
    BY <1>2, <1>4, <1>7 DEF Fetch, TypeOK
  <2> QED BY <1>1, <2>1, FailedRead
<1>8. CASE profiles[c] # None /\ ~Wrong(c) /\ Op = "readProfile"
  <2>1. SetProfile(ProfileModel(Known(c)))
    BY <1>4, <1>8 DEF Fetch
  <2> QED BY <1>1, <1>5, <1>8, <2>1, FetchToRead
<1>9. CASE profiles[c] # None /\ ~Wrong(c) /\ Op # "readProfile"
  <2>1. PICK p : p = Known(c)
    OBVIOUS
  <2>2. /\ p \in Sight /\ p.id = c /\ profiles[c].settings = Owner
        /\ \A f \in Fields :
             p.values[f] = IF f \in Asked THEN profiles[c].values[f]
                           ELSE IF seen = None THEN None ELSE seen.values[f]
    BY <1>2, <1>3, <1>5, <1>9, <2>1, WhatIsKnown
  <2>3. Owner = member.id /\ phase = "apply"
    BY <1>1, <1>9, WhileManaging
  <2>4. ASSUME Calm, NEW f \in Managed(config.profile), p.values[f] = config.profile[f]
        PROVE  profiles[c].values[f] = config.profile[f]
    <3>1. f \in Fields /\ config.profile[f] # None
      BY DEF Managed
    <3>2. CASE f \in Asked
      BY <2>2, <2>4, <3>1, <3>2
    <3>3. CASE f \notin Asked
      <4>1. seen # None /\ seen.values[f] = config.profile[f]
        BY <2>2, <2>4, <3>1, <3>3
      <4> QED BY <1>1, <1>2, <1>4, <2>3, <2>4, <4>1 DEF ProfileInSync
    <3> QED BY <3>2, <3>3
  <2>5. Calm /\ Op = "createProfile" => \A d \in CrmIds : BelongsTo(d, member.id) => d = c
    BY <1>1, <1>2, <1>3, <1>4, <2>3 DEF ProfileInSync
  <2>6. Reconcile(p)
    BY <1>4, <1>9, <2>1 DEF Fetch
  <2>7. CASE Need(p) = {}
    <3>1. SetProfile(ProfileModel(p))
      BY <2>6, <2>7 DEF Reconcile
    <3> QED BY <1>1, <1>5, <1>9, <2>2, <2>3, <2>4, <2>7, <3>1, FetchToSettle
  <2>8. CASE Need(p) # {}
    <3>1. /\ pc' = "patch" /\ seen' = p /\ sent' = Need(p)
          /\ UNCHANGED <<todo, clear, count, files, failed>>
      BY <2>6, <2>8 DEF Reconcile
    <3> QED BY <1>1, <1>5, <1>9, <2>2, <2>3, <2>4, <2>5, <3>1, FetchToPatch
  <2> QED BY <2>7, <2>8
<1> QED BY <1>6, <1>7, <1>8, <1>9

LEMMA DropProfileKeeps ==
  ASSUME IInv, DropProfile, UNCHANGED <<portal, frame, trouble>>
  PROVE  IInv'
<1>1. todo # <<>> /\ Op = "dropProfile"
  BY Where DEF DropProfile
<1> QED BY <1>1, SetProfileKeeps DEF DropProfile

\* A read, whatever it answers.
LEMMA ReadsKeep ==
  ASSUME IInv, Reads
  PROVE  IInv'
<1>1. UNCHANGED <<portal, frame, trouble>>
  BY DEF Reads
<1> QED BY <1>1, ReadMemberKeeps, VerifyMemberKeeps, LookKeeps, LookEmailKeeps, GuardKeeps,
           GuardEmailKeeps, WaitForAbsenceKeeps, CheckMemberKeeps, FindKeeps, FetchKeeps,
           DropProfileKeeps DEF Reads

\* Troubles stay within their bound.
LEMMA Disturbance ==
  ASSUME TypeOK, Disturb
  PROVE  trouble' \in 0..MaxTrouble
BY UsersAssumption DEF TypeOK, Disturb

LEMMA ReadFailsKeeps ==
  ASSUME IInv, ReadFails
  PROVE  IInv'
<1>1. pc # "done" /\ Fail /\ UNCHANGED <<portal, frame>> /\ Disturb
  BY DEF ReadFails
<1>2. trouble' \in 0..MaxTrouble
  BY <1>1, Disturbance DEF IInv
<1> QED BY <1>1, <1>2, FailedRead

----------------------------------------------------------------------------
(* What a request does to the portal.                                      *)

LEMMA EffectOfPatch ==
  ASSUME TypeOK, NEW r, ValidRequest(r), r.kind = "patch", TakeEffect(r)
  PROVE  /\ users' = users /\ profiles' \in [CrmIds -> Profiles \cup {None}]
         /\ r.id \in CrmIds /\ profiles[r.id] # None /\ profiles'[r.id] # None
         /\ profiles'[r.id].settings = profiles[r.id].settings
         /\ \A f \in Fields : profiles'[r.id].values[f] =
              IF r.values[f] = None THEN profiles[r.id].values[f] ELSE r.values[f]
         /\ \A c \in CrmIds : c # r.id => profiles'[c] = profiles[c]
<1>1. r.id \in CrmIds /\ r.values \in [Fields -> Values]
  BY DEF ValidRequest
<1>2. profiles[r.id] # None /\ profiles[r.id] \in Profiles
  BY <1>1 DEF TakeEffect, Accepts, TypeOK
<1>3. profiles[r.id].settings \in Ids /\ profiles[r.id].values \in [Fields -> Values]
  BY <1>2 DEF Profiles
<1>4. PICK v : v = [f \in Fields |-> IF r.values[f] = None THEN profiles[r.id].values[f]
                                     ELSE r.values[f]]
  OBVIOUS
<1>5. v \in [Fields -> Values]
  BY <1>1, <1>3, <1>4
<1>6. users' = users /\ profiles' = [profiles EXCEPT ![r.id].values = v]
  BY <1>4 DEF TakeEffect
<1>7. PICK q : q = [profiles[r.id] EXCEPT !.values = v]
  OBVIOUS
<1>8. q \in Profiles /\ q.settings = profiles[r.id].settings /\ q.values = v
  BY <1>2, <1>5, <1>7 DEF Profiles
<1>9. profiles' = [profiles EXCEPT ![r.id] = q]
  BY <1>6, <1>7
<1>10. q # None
  BY <1>8, UsersAssumption
<1>11. profiles \in [CrmIds -> Profiles \cup {None}]
  BY DEF TypeOK
<1>12. profiles'[r.id] = q /\ profiles' \in [CrmIds -> Profiles \cup {None}]
       /\ \A c \in CrmIds : c # r.id => profiles'[c] = profiles[c]
  BY <1>1, <1>8, <1>9, <1>11
<1> QED BY <1>1, <1>2, <1>4, <1>6, <1>8, <1>10, <1>12

\* A change of one user.
LEMMA OneUser ==
  ASSUME TypeOK, NEW i \in Ids, NEW u \in Persons, users' = [users EXCEPT ![i] = u]
  PROVE  /\ users' \in [Ids -> Persons \cup {None}] /\ users'[i] = u /\ users'[i] # None
         /\ \A j \in Ids : j # i => users'[j] = users[j]
BY UsersAssumption DEF TypeOK

LEMMA EffectOfRename ==
  ASSUME TypeOK, NEW r, ValidRequest(r), r.kind = "rename", TakeEffect(r)
  PROVE  /\ profiles' = profiles /\ users' \in [Ids -> Persons \cup {None}]
         /\ r.id \in Ids /\ Active(r.id)
         /\ users'[r.id] # None /\ users'[r.id].life = "active"
         /\ users'[r.id].email = users[r.id].email /\ users'[r.id].super = users[r.id].super
         /\ users'[r.id].first = r.first /\ users'[r.id].last = r.last
         /\ users'[r.id].assigned \in {users[r.id].assigned, FALSE}
         /\ \A j \in Ids : j # r.id => users'[j] = users[j]
<1>1. r.id \in Ids /\ r.first \in Names /\ r.last \in Names
  BY DEF ValidRequest
<1>2. Active(r.id) /\ profiles' = profiles
  BY DEF TakeEffect, Accepts
<1>3. users[r.id] \in Persons /\ users[r.id].life = "active"
  BY <1>2, ActiveUser DEF Active
<1>4. PICK u \in Outcomes(r) : users' = [users EXCEPT ![r.id] = u]
  BY DEF TakeEffect
<1>5. PICK a \in {users[r.id].assigned, FALSE} :
        u = [users[r.id] EXCEPT !.first = r.first, !.last = r.last, !.assigned = a]
  BY <1>4 DEF Outcomes
<1>6. a \in BOOLEAN
  BY <1>3, <1>5 DEF Persons
<1>7. u \in Persons /\ u.first = r.first /\ u.last = r.last /\ u.assigned = a
      /\ u.life = "active" /\ u.email = users[r.id].email /\ u.super = users[r.id].super
  BY <1>1, <1>3, <1>5, <1>6 DEF Persons
<1>8. /\ users' \in [Ids -> Persons \cup {None}] /\ users'[r.id] = u /\ users'[r.id] # None
      /\ \A j \in Ids : j # r.id => users'[j] = users[j]
  BY <1>1, <1>4, <1>7, OneUser
<1> QED BY <1>1, <1>2, <1>5, <1>7, <1>8

LEMMA EffectOfRemove ==
  ASSUME TypeOK, NEW r, r.id \in Ids, r.kind = "remove", TakeEffect(r)
  PROVE  /\ profiles' = profiles /\ users' \in [Ids -> Persons \cup {None}]
         /\ Active(r.id) /\ ~Active(r.id)'
         /\ users'[r.id].super = users[r.id].super
         /\ \A j \in Ids : j # r.id => users'[j] = users[j]
<1>1. Active(r.id) /\ profiles' = profiles
  BY DEF TakeEffect, Accepts
<1>2. users[r.id] \in Persons
  BY <1>1, ActiveUser
<1>3. PICK u \in Outcomes(r) : users' = [users EXCEPT ![r.id] = u]
  BY DEF TakeEffect
<1>4. PICK l \in {"leaving", "gone"} : u = [users[r.id] EXCEPT !.life = l]
  BY <1>3 DEF Outcomes
<1>5. u \in Persons /\ u.life # "active" /\ u.super = users[r.id].super
  BY <1>2, <1>4 DEF Persons
<1>6. /\ users' \in [Ids -> Persons \cup {None}] /\ users'[r.id] = u
      /\ \A j \in Ids : j # r.id => users'[j] = users[j]
  BY <1>3, <1>5, OneUser
<1> QED BY <1>1, <1>5, <1>6 DEF Active

LEMMA EffectOfCreate ==
  ASSUME TypeOK, NEW r, ValidRequest(r), r.kind = "create", TakeEffect(r)
  PROVE  /\ profiles' = profiles /\ users' \in [Ids -> Persons \cup {None}]
         /\ \E i \in Ids : /\ ~Active(i) /\ \A j \in Ids : j # i => users'[j] = users[j]
                           /\ users'[i] # None /\ ~users'[i].super
<1>1. r.email \in Emails /\ r.first \in Names /\ r.last \in Names
  BY DEF ValidRequest
<1>2. ByEmail(r.email) = {} /\ profiles' = profiles
  BY DEF TakeEffect, Accepts
<1>3. PICK i \in IdFor(r.email), u \in Outcomes(r) : users' = [users EXCEPT ![i] = u]
  BY DEF TakeEffect
<1>4. i \in Ids /\ ~Active(i)
  BY <1>2, <1>3 DEF IdFor, ByEmail, Holder, Active
<1>5. u = [email |-> r.email, first |-> r.first, last |-> r.last, life |-> "active",
           super |-> FALSE, assigned |-> FALSE]
  BY <1>3 DEF Outcomes
<1>6. u \in Persons /\ ~u.super
  BY <1>1, <1>5 DEF Persons
<1>7. /\ users' \in [Ids -> Persons \cup {None}] /\ users'[i] = u /\ users'[i] # None
      /\ \A j \in Ids : j # i => users'[j] = users[j]
  BY <1>3, <1>4, <1>6, OneUser
<1> QED BY <1>2, <1>4, <1>6, <1>7

\* Whatever a request does, the portal stays one.
LEMMA EffectTyped ==
  ASSUME TypeOK, NEW r, ValidRequest(r), TakeEffect(r)
  PROVE  /\ users' \in [Ids -> Persons \cup {None}]
         /\ profiles' \in [CrmIds -> Profiles \cup {None}]
<1>1. r.kind \in {"create", "rename", "remove", "patch"} /\ (r.kind = "remove" => r.id \in Ids)
  BY DEF ValidRequest, TypeOK
<1>2. /\ users \in [Ids -> Persons \cup {None}]
      /\ profiles \in [CrmIds -> Profiles \cup {None}]
  BY DEF TypeOK
<1> QED BY <1>1, <1>2, EffectOfPatch, EffectOfRename, EffectOfRemove, EffectOfCreate

----------------------------------------------------------------------------
(* The writes.                                                             *)

\* A member is created: its ID is in state before anything is verified.
LEMMA CreatedKeeps ==
  ASSUME IInv, pc = "create", NEW r, ValidRequest(r), r.kind = "create",
         r.email = config.email, TakeEffect(r), NEW i \in Ids,
         member' = [id |-> i, email |-> r.email, first |-> config.first,
                    last |-> config.last, welcome |-> config.welcome, allow |-> config.allow],
         tainted' = TRUE, pc' = "verify",
         UNCHANGED <<todo, seen, sent, clear, count, profile, failed, late, trouble, frame>>
  PROVE  IInv'
<1>1. /\ TypeOK /\ RequestsValid /\ Standing /\ Prepared /\ LateHarmless /\ MemberInSync
      /\ ProfileInSync
  BY DEF IInv
<1>2. /\ todo # <<>> /\ ~failed /\ phase = "apply" /\ Op = "createMember" /\ Op \in Left
      /\ Op = Head(todo) /\ Orderly(todo)
  BY <1>1, Where DEF Op, Standing
<1>3. Left \subseteq {"createMember", "createProfile"} /\ "createMember" \in Left
  BY <1>2, OrderlyTail DEF Left, Follows
<1>4. config # None
  BY <1>1, <1>3 DEF Prepared
<1>5. /\ users' \in [Ids -> Persons \cup {None}] /\ profiles' = profiles
  BY <1>1, EffectOfCreate
<1>6. /\ config' = config /\ phase' = phase /\ quiet' = quiet /\ consented' = consented
      /\ todo' = todo /\ profile' = profile /\ failed' = failed /\ late' = late
      /\ seen' = seen /\ sent' = sent /\ clear' = clear /\ count' = count /\ trouble' = trouble
  BY DEF frame
<1>7. Left' = Left /\ Op' = Op /\ Calm' = Calm
  BY <1>6 DEF Left, Op, Calm
<1>8. PICK m : m = [id |-> i, email |-> r.email, first |-> config.first,
                    last |-> config.last, welcome |-> config.welcome, allow |-> config.allow]
  OBVIOUS
<1>9. member' = m /\ m \in Members /\ m.email = config.email /\ m.allow = config.allow
  BY <1>1, <1>4, <1>8, ConfigFields DEF Members, Names
<1>10. m # None
  BY <1>9, MemberFields
<1>11. pc' \in Stages[Op]
  BY <1>2 DEF Stages
<1>12. TypeOK'
  <2>1. tainted' \in BOOLEAN
    BY DEF TypeOK
  <2>2. pc' # "done" /\ todo' # <<>>
    BY <1>2, <1>6
  <2> QED BY <1>1, <1>5, <1>6, <1>9, <1>10, <2>1, <2>2 DEF TypeOK
<1>13. RequestsValid'
  BY <1>1, <1>6 DEF RequestsValid, ValidRequest
<1>14. Standing'
  BY <1>1, <1>2, <1>6, <1>7, <1>11 DEF Standing
<1>15. Prepared'
  BY <1>1, <1>2, <1>3, <1>6, <1>7, <1>9, <1>10 DEF Prepared, Kept
<1>16. Consented'
  BY <1>2, <1>3, <1>4, <1>6, <1>7, <1>9 DEF Consented
<1>17. LateHarmless'
  <2> SUFFICES ASSUME Calm PROVE LateHarmless'
    BY <1>7 DEF LateHarmless
  <2>1. ASSUME NEW q \in late PROVE Harmless(q)'
    BY <1>1, <1>6, <2>1 DEF LateHarmless, Harmless, Kept
  <2> QED BY <1>1, <1>2, <1>3, <1>6, <1>7, <2>1 DEF LateHarmless
<1>18. MemberInSync'
  BY <1>2, <1>3, <1>4, <1>6, <1>7, <1>9 DEF MemberInSync
<1>19. ProfileInSync'
  <2>1. Kept => "createProfile" \in Left
    BY <1>1, <1>2, <1>3 DEF Prepared
  <2> QED BY <1>1, <1>2, <1>6, <1>7, <2>1 DEF ProfileInSync, Kept
<1> QED BY <1>12, <1>13, <1>14, <1>15, <1>16, <1>17, <1>18, <1>19 DEF IInv

LEMMA CreateMemberKeeps ==
  ASSUME IInv, CreateMember
  PROVE  IInv'
<1>1. /\ pc = "create" /\ pc # "done" /\ Op = "createMember" /\ Op \in Left /\ phase # "idle"
      /\ UNCHANGED frame /\ consented' = consented
  BY Where DEF CreateMember, frame
<1>2. TypeOK /\ RequestsValid /\ Prepared
  BY DEF IInv
<1>3. config # None
  BY <1>1, <1>2 DEF Prepared
<1>4. PICK r : r = [kind |-> "create", email |-> config.email,
                    first |-> IF config.first = None THEN Blank ELSE config.first,
                    last |-> IF config.last = None THEN Blank ELSE config.last]
  OBVIOUS
<1>5. ValidRequest(r) /\ r.kind = "create" /\ r.email = config.email
  BY <1>2, <1>3, <1>4, ConfigFields DEF ValidRequest, Names
<1>6. CASE /\ TakeEffect(r)
           /\ \E i \in IdFor(r.email) :
                 member' = [id |-> i, email |-> r.email, first |-> config.first,
                            last |-> config.last, welcome |-> config.welcome,
                            allow |-> config.allow]
           /\ tainted' = TRUE
           /\ pc' = "verify"
           /\ UNCHANGED <<todo, seen, sent, clear, count, profile, failed, late, trouble>>
  <2>1. PICK i \in IdFor(r.email) :
               member' = [id |-> i, email |-> r.email, first |-> config.first,
                          last |-> config.last, welcome |-> config.welcome,
                          allow |-> config.allow]
    BY <1>6
  <2>2. i \in Ids
    BY <2>1 DEF IdFor, Holder
  <2>3. /\ TakeEffect(r) /\ tainted' = TRUE /\ pc' = "verify"
        /\ UNCHANGED <<todo, seen, sent, clear, count, profile, failed, late, trouble, frame>>
    BY <1>1, <1>6
  <2> QED BY <1>1, <1>5, <2>1, <2>2, <2>3, CreatedKeeps
<1>7. CASE ~Accepts(r) /\ Fail /\ UNCHANGED <<portal, trouble>>
  <2>1. trouble' \in 0..MaxTrouble
    BY <1>2, <1>7 DEF TypeOK
  <2> QED BY <1>1, <1>7, <2>1, FailedRead
<1>8. CASE /\ \/ TakeEffect(r) /\ UNCHANGED late
              \/ late' = late \cup {r} /\ UNCHANGED <<users, profiles>>
              \/ UNCHANGED portal
           /\ Fail
           /\ Disturb
  <2>1. trouble' \in 0..MaxTrouble
    BY <1>2, <1>8, Disturbance
  <2>2. /\ users' \in [Ids -> Persons \cup {None}]
        /\ profiles' \in [CrmIds -> Profiles \cup {None}]
    BY <1>2, <1>5, <1>8, EffectTyped DEF TypeOK, portal
  <2>3. late' \subseteq late \cup {r}
    BY <1>8 DEF portal
  <2>4. RequestsValid'
    BY <1>1, <1>2, <1>5, <2>3 DEF RequestsValid, ValidRequest
  <2> QED BY <1>1, <1>8, <2>1, <2>2, <2>4, FailKeeps
<1> QED BY <1>4, <1>6, <1>7, <1>8 DEF CreateMember

\* What a handler sends is well-formed, and removes only whom it may.
LEMMA RequestIs ==
  ASSUME IInv, pc \in {"rename", "remove", "patch"}, NEW r, r = Request
  PROVE  /\ ValidRequest(r) /\ r.kind = pc
         /\ pc = "rename" => r.id = member.id /\ r.first = seen.first /\ r.last = seen.last
         /\ pc = "remove" => r.id = member.id
         /\ pc = "patch" =>
              /\ r.id = seen.id
              /\ \A f \in Fields : r.values[f] = IF f \in sent THEN config.profile[f] ELSE None
<1>1. TypeOK /\ Standing /\ Consented
  BY DEF IInv
<1>2. todo # <<>> /\ pc # "done"
  BY Where
<1>3. CASE pc = "rename"
  <2>1. r = [kind |-> "rename", id |-> member.id, first |-> seen.first, last |-> seen.last]
    BY <1>3 DEF Request
  <2>2. member.id \in Ids /\ seen.first \in Names /\ seen.last \in Names
    BY <1>1, <1>2, <1>3, Where, WhileUpdating, MemberFields DEF Standing
  <2> QED BY <1>3, <2>1, <2>2 DEF ValidRequest
<1>4. CASE pc = "remove"
  <2>1. r = [kind |-> "remove", id |-> member.id]
    BY <1>4 DEF Request
  <2>2. member.id \in consented
    BY <1>1, <1>2, <1>4, Where, WhileRemoving DEF Consented
  <2> QED BY <1>4, <2>1, <2>2 DEF ValidRequest
<1>5. CASE pc = "patch"
  <2>1. PICK v : v = [f \in Fields |-> IF f \in sent THEN config.profile[f] ELSE None]
    OBVIOUS
  <2>2. r = [kind |-> "patch", id |-> seen.id, values |-> v]
    BY <1>5, <2>1 DEF Request
  <2>3. seen.id \in CrmIds
    BY <1>1, <1>5 DEF Standing, Sight, Sights
  <2>4. config.profile \in [Fields -> Values] /\ None \in Values
    BY <1>2, <1>5, Where, WhileManaging DEF Values
  <2>5. v \in [Fields -> Values]
        /\ \A f \in Fields : v[f] = IF f \in sent THEN config.profile[f] ELSE None
    BY <2>1, <2>4
  <2>6. r.kind = "patch" /\ r.id = seen.id /\ r.values = v
    BY <2>2
  <2> QED BY <1>5, <2>3, <2>5, <2>6 DEF ValidRequest
<1> QED BY <1>3, <1>4, <1>5

\* What all writes share: whether the request has taken effect or is still on
\* its way, what does not concern the portal or the place stays.
LEMMA Sending ==
  ASSUME IInv, pc \in {"rename", "remove", "patch"}, NEW r, r = Request,
         Written, UNCHANGED frame, trouble' \in 0..MaxTrouble,
         \/ TakeEffect(r) /\ late' = late
         \/ users' = users /\ profiles' = profiles /\ late' \in {late, late \cup {r}}
  PROVE  /\ pc' = After[pc] /\ seen' = seen /\ todo' = todo /\ member' = member
         /\ profile' = profile /\ tainted' = tainted /\ failed' = failed /\ sent' = sent
         /\ config' = config /\ phase' = phase /\ quiet' = quiet /\ consented' = consented
         /\ Left' = Left /\ Op' = Op /\ Calm' = Calm
         /\ todo # <<>> /\ ~failed /\ phase = "apply" /\ Op \in Left
         /\ TypeOK' /\ RequestsValid' /\ Prepared' /\ Standing'
<1>1. TypeOK /\ RequestsValid /\ Standing /\ Prepared
  BY DEF IInv
<1>2. /\ pc' = After[pc] /\ seen' = seen /\ todo' = todo /\ member' = member
      /\ profile' = profile /\ tainted' = tainted /\ failed' = failed /\ sent' = sent
      /\ clear' = clear /\ count' = count
      /\ config' = config /\ phase' = phase /\ quiet' = quiet /\ consented' = consented
  BY DEF Written, Goto, files, frame
<1>3. Left' = Left /\ Op' = Op /\ Calm' = Calm
  BY <1>2 DEF Left, Op, Calm
<1>4. /\ todo # <<>> /\ ~failed /\ phase = "apply" /\ Op \in Left /\ pc # "done"
      /\ Op \in {"updateMember", "deleteMember", "createProfile", "updateProfile"}
  BY Where
<1>5. ValidRequest(r)
  BY RequestIs
<1>6. /\ users' \in [Ids -> Persons \cup {None}]
      /\ profiles' \in [CrmIds -> Profiles \cup {None}]
  BY <1>1, <1>5, EffectTyped DEF TypeOK
<1>7. \/ pc' = "renamed" /\ pc = "rename"
      \/ pc' = "gone" /\ pc = "remove"
      \/ pc' = "check" /\ pc = "patch"
  BY <1>2 DEF After
<1>8. TypeOK'
  BY <1>1, <1>2, <1>4, <1>6, <1>7 DEF TypeOK
<1>9. RequestsValid'
  BY <1>1, <1>2, <1>5 DEF RequestsValid, ValidRequest
<1>10. Prepared'
  BY <1>1, <1>2, <1>3, <1>7 DEF Prepared, Kept
<1>11. pc' \in Stages[Op]
  BY <1>4, <1>7, Where DEF Stages
<1>12. Standing'
  BY <1>1, <1>2, <1>3, <1>4, <1>7, <1>11 DEF Standing
<1> QED BY <1>2, <1>3, <1>4, <1>8, <1>9, <1>10, <1>12

LEMMA RenameKeeps ==
  ASSUME IInv, pc = "rename", NEW r, r = Request,
         Written, UNCHANGED frame, trouble' \in 0..MaxTrouble,
         \/ TakeEffect(r) /\ late' = late
         \/ users' = users /\ profiles' = profiles /\ late' \in {late, late \cup {r}}
  PROVE  IInv'
<1>1. /\ pc' = "renamed" /\ seen' = seen /\ todo' = todo /\ member' = member
      /\ profile' = profile /\ tainted' = tainted
      /\ config' = config /\ phase' = phase /\ quiet' = quiet /\ consented' = consented
      /\ Left' = Left /\ Op' = Op /\ Calm' = Calm
      /\ todo # <<>> /\ ~failed /\ phase = "apply" /\ Op \in Left
      /\ TypeOK' /\ RequestsValid' /\ Prepared' /\ Standing'
  BY Sending DEF After
<1>2. TypeOK /\ Prepared /\ Consented /\ LateHarmless /\ MemberInSync /\ ProfileInSync
  BY DEF IInv
<1>3. /\ ValidRequest(r) /\ r.kind = "rename" /\ r.id = member.id
      /\ r.first = seen.first /\ r.last = seen.last
  BY RequestIs
<1>4. /\ Op = "updateMember" /\ Left \cap {"deleteMember", "createMember"} = {}
      /\ "updateMember" \in Left
      /\ config # None /\ member # None /\ member \in Members
      /\ Calm => /\ ~tainted /\ Active(member.id)
                 /\ users[member.id].email = config.email /\ member.email = config.email
  BY <1>1, Where, WhileUpdating
<1>5. profiles' = profiles
  BY <1>2, <1>3, EffectOfRename
<1>6. Calm => Active(member.id)' /\ users'[member.id].email = config.email
  <2>1. CASE TakeEffect(r)
    BY <1>1, <1>2, <1>3, <1>4, <2>1, EffectOfRename DEF Active
  <2>2. CASE users' = users
    BY <1>1, <1>4, <2>2 DEF Active
  <2> QED BY <2>1, <2>2
<1>7. Calm => config.first \in {None, seen.first} /\ config.last \in {None, seen.last}
  BY <1>2 DEF MemberInSync
<1>8. Consented'
  BY <1>1, <1>2 DEF Consented
<1>9. LateHarmless'
  <2> SUFFICES ASSUME Calm PROVE LateHarmless'
    BY <1>1 DEF LateHarmless
  <2>1. late = {}
    BY <1>1, <1>2, <1>4 DEF LateHarmless
  <2>2. late' \subseteq {r}
    BY <2>1
  <2>3. Harmless(r)'
    BY <1>1, <1>3, <1>4, <1>7 DEF Harmless
  <2> QED BY <1>1, <2>2, <2>3 DEF LateHarmless
<1>10. MemberInSync'
  <2> SUFFICES ASSUME Calm PROVE MemberInSync'
    BY <1>1 DEF MemberInSync
  <2> QED BY <1>1, <1>4, <1>6, <1>7 DEF MemberInSync
<1>11. ProfileInSync'
  <2> SUFFICES ASSUME Calm PROVE ProfileInSync'
    BY <1>1 DEF ProfileInSync
  <2> QED BY <1>1, <1>2, <1>5 DEF ProfileInSync, BelongsTo, Managed, Kept
<1> QED BY <1>1, <1>8, <1>9, <1>10, <1>11 DEF IInv

LEMMA RemoveKeeps ==
  ASSUME IInv, pc = "remove", NEW r, r = Request,
         Written, UNCHANGED frame, trouble' \in 0..MaxTrouble,
         \/ TakeEffect(r) /\ late' = late
         \/ users' = users /\ profiles' = profiles /\ late' \in {late, late \cup {r}}
  PROVE  IInv'
<1>1. /\ pc' = "gone" /\ seen' = seen /\ todo' = todo /\ member' = member
      /\ profile' = profile /\ tainted' = tainted
      /\ config' = config /\ phase' = phase /\ quiet' = quiet /\ consented' = consented
      /\ Left' = Left /\ Op' = Op /\ Calm' = Calm
      /\ todo # <<>> /\ ~failed /\ phase = "apply" /\ Op \in Left
      /\ TypeOK' /\ RequestsValid' /\ Prepared' /\ Standing'
  BY Sending DEF After
<1>2. TypeOK /\ Prepared /\ Consented /\ LateHarmless /\ MemberInSync /\ ProfileInSync
  BY DEF IInv
<1>3. ValidRequest(r) /\ r.kind = "remove" /\ r.id = member.id /\ r.id \in Ids
  BY <1>2, RequestIs DEF ValidRequest, TypeOK
<1>4. /\ Op = "deleteMember" /\ "deleteMember" \in Left /\ member # None
  BY <1>1, Where, WhileRemoving
<1>5. "updateMember" \notin Left
  BY <1>1, <1>4, OrderlyTail DEF Left, Op, IInv, Standing, Follows
<1>6. profiles' = profiles
  BY <1>3, <1>2, EffectOfRemove
<1>7. Consented'
  BY <1>1, <1>2 DEF Consented
<1>8. LateHarmless'
  <2> SUFFICES ASSUME Calm PROVE LateHarmless'
    BY <1>1 DEF LateHarmless
  <2>1. late = {}
    BY <1>1, <1>2, <1>4 DEF LateHarmless
  <2>2. late' \subseteq {r}
    BY <2>1
  <2>3. ASSUME r \in late' PROVE Harmless(r)'
    <3>1. users' = users
      BY <2>1, <2>3
    <3>2. Active(r.id)'
      BY <1>2, <1>3, <3>1 DEF MemberInSync, Active
    <3> QED BY <1>1, <1>3, <3>2 DEF Harmless
  <2> QED BY <1>1, <2>2, <2>3 DEF LateHarmless
<1>9. MemberInSync'
  <2> SUFFICES ASSUME Calm PROVE MemberInSync'
    BY <1>1 DEF MemberInSync
  <2> QED BY <1>1, <1>4, <1>5 DEF MemberInSync
<1>10. ProfileInSync'
  <2> SUFFICES ASSUME Calm PROVE ProfileInSync'
    BY <1>1 DEF ProfileInSync
  <2>1. Kept => "createProfile" \in Left
    BY <1>1, <1>2, <1>4 DEF Prepared
  <2> QED BY <1>1, <1>2, <2>1 DEF ProfileInSync, Kept
<1> QED BY <1>1, <1>7, <1>8, <1>9, <1>10 DEF IInv

LEMMA PatchKeeps ==
  ASSUME IInv, pc = "patch", NEW r, r = Request,
         Written, UNCHANGED frame, trouble' \in 0..MaxTrouble,
         \/ TakeEffect(r) /\ late' = late
         \/ users' = users /\ profiles' = profiles /\ late' \in {late, late \cup {r}}
  PROVE  IInv'
<1>1. /\ pc' = "check" /\ seen' = seen /\ todo' = todo /\ member' = member
      /\ profile' = profile /\ tainted' = tainted
      /\ config' = config /\ phase' = phase /\ quiet' = quiet /\ consented' = consented
      /\ Left' = Left /\ Op' = Op /\ Calm' = Calm
      /\ todo # <<>> /\ ~failed /\ phase = "apply" /\ Op \in Left
      /\ TypeOK' /\ RequestsValid' /\ Prepared' /\ Standing'
  BY Sending DEF After
<1>2. TypeOK /\ Prepared /\ Consented /\ LateHarmless /\ MemberInSync /\ ProfileInSync
      /\ Standing
  BY DEF IInv
<1>3. /\ ValidRequest(r) /\ r.kind = "patch" /\ r.id = seen.id
      /\ \A f \in Fields : r.values[f] = IF f \in sent THEN config.profile[f] ELSE None
  BY RequestIs
<1>4. Op \in {"createProfile", "updateProfile"} /\ Left = {Op} /\ Kept /\ seen # None
  BY <1>1, <1>2, Where, WhileManaging DEF Standing
<1>5. users' = users
  BY <1>2, <1>3, EffectOfPatch
<1>6. Consented'
  BY <1>1, <1>2, <1>5 DEF Consented
<1>7. LateHarmless'
  <2> SUFFICES ASSUME Calm PROVE LateHarmless'
    BY <1>1 DEF LateHarmless
  <2>1. Harmless(r)'
    BY <1>1, <1>3, <1>4 DEF Harmless, Kept
  <2>2. ASSUME NEW q \in late PROVE Harmless(q)'
    BY <1>1, <1>2, <2>2 DEF LateHarmless, Harmless, Kept
  <2>3. late' \subseteq late \cup {r}
    OBVIOUS
  <2> QED BY <1>1, <1>4, <2>1, <2>2, <2>3 DEF LateHarmless
<1>8. MemberInSync'
  <2> SUFFICES ASSUME Calm PROVE MemberInSync'
    BY <1>1 DEF MemberInSync
  <2> QED BY <1>1, <1>2, <1>4, <1>5 DEF MemberInSync, NamedAs, Active
<1>9. ProfileInSync'
  <2> SUFFICES ASSUME Calm PROVE ProfileInSync'
    BY <1>1 DEF ProfileInSync
  <2>1. /\ BelongsTo(seen.id, member.id)
        /\ \A f \in Managed(config.profile) :
             seen.values[f] = config.profile[f] =>
               profiles[seen.id].values[f] = config.profile[f]
        /\ Op = "createProfile" => \A c \in CrmIds : BelongsTo(c, member.id) => c = seen.id
    BY <1>1, <1>2, <1>4 DEF ProfileInSync
  <2>2. CASE profiles' = profiles
    BY <1>1, <1>4, <2>1, <2>2 DEF ProfileInSync, BelongsTo, Managed
  <2>3. CASE TakeEffect(r)
    <3>1. /\ profiles'[seen.id] # None /\ profiles'[seen.id].settings = profiles[seen.id].settings
          /\ \A f \in Fields : profiles'[seen.id].values[f] =
               IF r.values[f] = None THEN profiles[seen.id].values[f] ELSE r.values[f]
          /\ \A c \in CrmIds : c # seen.id => profiles'[c] = profiles[c]
      BY <1>2, <1>3, <2>3, EffectOfPatch
    <3>2. BelongsTo(seen.id, member.id)'
      BY <1>1, <2>1, <3>1 DEF BelongsTo
    <3>3. ASSUME NEW f \in Managed(config.profile), seen.values[f] = config.profile[f]
          PROVE  profiles'[seen.id].values[f] = config.profile[f]
      BY <1>3, <2>1, <3>1, <3>3 DEF Managed
    <3>4. ASSUME Op = "createProfile", NEW c \in CrmIds, BelongsTo(c, member.id)'
          PROVE  c = seen.id
      BY <1>1, <2>1, <3>1, <3>4 DEF BelongsTo
    <3> QED BY <1>1, <1>4, <3>2, <3>3, <3>4 DEF ProfileInSync, Managed
  <2> QED BY <2>2, <2>3
<1> QED BY <1>1, <1>6, <1>7, <1>8, <1>9 DEF IInv

\* A write, and one whose answer says nothing of what became of it.
LEMMA WriteKeeps ==
  ASSUME IInv, Write
  PROVE  IInv'
<1>1. /\ pc \in {"rename", "remove", "patch"} /\ pc # "done"
      /\ UNCHANGED <<late, frame, trouble>> /\ UNCHANGED frame /\ late' = late
  BY DEF Write, After
<1>2. trouble' \in 0..MaxTrouble
  BY <1>1 DEF IInv, TypeOK
<1>3. PICK r : r = Request
  OBVIOUS
<1>4. CASE TakeEffect(Request) /\ Written
  BY <1>1, <1>2, <1>3, <1>4, RenameKeeps, RemoveKeeps, PatchKeeps
<1>5. CASE Written /\ users' = users /\ profiles' = profiles
  BY <1>1, <1>2, <1>3, <1>5, RenameKeeps, RemoveKeeps, PatchKeeps
<1>6. CASE Fail /\ users' = users /\ profiles' = profiles
  <2>1. UNCHANGED <<portal, frame>>
    BY <1>1, <1>6 DEF portal
  <2> QED BY <1>1, <1>2, <1>6, <2>1, FailedRead
<1> QED BY <1>4, <1>5, <1>6 DEF Write

LEMMA WriteFailsKeeps ==
  ASSUME IInv, WriteFails
  PROVE  IInv'
<1>1. /\ pc \in {"rename", "remove", "patch"} /\ pc # "done"
      /\ UNCHANGED frame /\ Disturb
  BY DEF WriteFails, After
<1>2. trouble' \in 0..MaxTrouble
  BY <1>1, Disturbance DEF IInv
<1>3. PICK r : r = Request
  OBVIOUS
<1>4. CASE TakeEffect(Request) /\ UNCHANGED late /\ Written
  BY <1>1, <1>2, <1>3, <1>4, RenameKeeps, RemoveKeeps, PatchKeeps
<1>5. CASE late' = late \cup {Request} /\ UNCHANGED <<users, profiles>> /\ Written
  BY <1>1, <1>2, <1>3, <1>5, RenameKeeps, RemoveKeeps, PatchKeeps
<1>6. CASE UNCHANGED portal /\ Written
  <2>1. users' = users /\ profiles' = profiles /\ late' = late
    BY <1>6 DEF portal
  <2> QED BY <1>1, <1>2, <1>3, <1>6, <2>1, RenameKeeps, RemoveKeeps, PatchKeeps
<1>7. CASE UNCHANGED portal /\ Fail
  <2>1. UNCHANGED <<portal, frame>>
    BY <1>1, <1>7
  <2> QED BY <1>1, <1>2, <1>7, <2>1, FailedRead
<1>8. CASE TakeEffect(Request) /\ UNCHANGED late /\ Fail
  <2>1. ValidRequest(r) /\ TypeOK /\ phase # "idle"
    BY <1>1, <1>3, RequestIs, Where DEF IInv
  <2>2. /\ users' \in [Ids -> Persons \cup {None}]
        /\ profiles' \in [CrmIds -> Profiles \cup {None}]
    BY <1>3, <1>8, <2>1, EffectTyped
  <2>3. RequestsValid'
    BY <1>1, <1>8 DEF frame, IInv, RequestsValid, ValidRequest
  <2> QED BY <1>1, <1>2, <1>8, <2>1, <2>2, <2>3, FailKeeps DEF frame
<1> QED BY <1>4, <1>5, <1>6, <1>7, <1>8 DEF WriteFails

LEMMA HandleKeeps ==
  ASSUME IInv, Handle
  PROVE  IInv'
BY ReadsKeep, ReadFailsKeeps, WriteKeeps, WriteFailsKeeps, CreateMemberKeeps DEF Handle

----------------------------------------------------------------------------
(* Everybody else.                                                         *)

\* A portal that changes while nothing else does: what has to be shown of a
\* run that nobody disturbs.
LEMMA PortalMoves ==
  ASSUME IInv, UNCHANGED <<files, handler, failed, frame, trouble>>,
         users' \in [Ids -> Persons \cup {None}],
         profiles' \in [CrmIds -> Profiles \cup {None}],
         late' \subseteq late,
         pc = "remove" /\ quiet /\ ~users[member.id].super => ~users'[member.id].super,
         Calm => LateHarmless' /\ MemberInSync' /\ ProfileInSync'
  PROVE  IInv'
<1>1. /\ todo' = todo /\ pc' = pc /\ seen' = seen /\ sent' = sent /\ clear' = clear
      /\ count' = count /\ member' = member /\ profile' = profile /\ tainted' = tainted
      /\ failed' = failed /\ trouble' = trouble
      /\ config' = config /\ phase' = phase /\ quiet' = quiet /\ consented' = consented
  BY DEF files, handler, frame
<1>2. TypeOK /\ RequestsValid /\ Standing /\ Prepared /\ Consented
  BY DEF IInv
<1>3. Left' = Left /\ Op' = Op /\ Calm' = Calm
  BY <1>1 DEF Left, Op, Calm
<1>4. TypeOK'
  BY <1>1, <1>2 DEF TypeOK
<1>5. RequestsValid'
  BY <1>1, <1>2 DEF RequestsValid, ValidRequest
<1>6. Standing'
  BY <1>1, <1>2, <1>3 DEF Standing
<1>7. Prepared'
  BY <1>1, <1>2, <1>3 DEF Prepared, Kept
<1>8. Consented'
  BY <1>1, <1>2, <1>3 DEF Consented
<1>9. LateHarmless' /\ MemberInSync' /\ ProfileInSync'
  BY <1>3 DEF LateHarmless, MemberInSync, ProfileInSync
<1> QED BY <1>4, <1>5, <1>6, <1>7, <1>8, <1>9 DEF IInv

\* A change that leaves active users alone and their profiles too disturbs no
\* run.
LEMMA GentleKeeps ==
  ASSUME IInv, late' \subseteq late, UNCHANGED <<files, handler, failed, frame, trouble>>,
         users' \in [Ids -> Persons \cup {None}],
         profiles' \in [CrmIds -> Profiles \cup {None}],
         \A i \in Ids : Active(i) <=> Active(i)',
         \A i \in Ids : Active(i) => users'[i] = users[i],
         pc = "remove" /\ quiet /\ ~users[member.id].super => ~users'[member.id].super,
         \A c \in CrmIds : profiles[c] # None /\ Active(profiles[c].settings) =>
                             profiles'[c] = profiles[c],
         \A c \in CrmIds : profiles'[c] # None /\ profiles'[c] # profiles[c] =>
           \A d \in CrmIds : profiles[d] # None => profiles[d].settings # profiles'[c].settings
  PROVE  IInv'
<1>1. /\ todo' = todo /\ pc' = pc /\ seen' = seen /\ clear' = clear
      /\ member' = member /\ profile' = profile /\ tainted' = tainted
      /\ failed' = failed
      /\ config' = config /\ phase' = phase /\ quiet' = quiet /\ consented' = consented
  BY DEF files, handler, frame
<1>2. TypeOK /\ Standing /\ LateHarmless /\ MemberInSync /\ ProfileInSync
  BY DEF IInv
<1>3. Left' = Left /\ Op' = Op /\ Calm' = Calm
  BY <1>1 DEF Left, Op, Calm
<1>4. \A i : (Active(i) => i \in Ids) /\ (Active(i)' => i \in Ids)
  BY DEF Active
<1>5. ASSUME Calm PROVE LateHarmless'
  <2>1. ASSUME NEW r \in late PROVE Harmless(r)'
    <3>1. Harmless(r)
      BY <1>2, <1>5, <2>1 DEF LateHarmless
    <3>2. Active(r.id) => Active(r.id)'
      BY <1>4
    <3> QED BY <1>1, <3>1, <3>2 DEF Harmless, Kept
  <2> QED BY <1>1, <1>2, <1>3, <1>5, <2>1 DEF LateHarmless
<1>6. ASSUME Calm PROVE MemberInSync'
  <2>1. Active(member.id) <=> Active(member.id)'
    BY <1>1, <1>4
  <2>2. Active(member.id) => users'[member.id] = users[member.id]
    BY <1>4
  <2>3. AsRead => AsRead'
    BY <1>1, <2>1, <2>2 DEF AsRead
  <2>4. Active(member.id) /\ NamedAs(member.id, config) => NamedAs(member.id, config)'
    BY <1>1, <2>2 DEF NamedAs
  <2>5. pc \in {"lookEmail", "rename"} => Active(member.id)
    BY <1>2, <1>6, Where, WhileUpdating
  <2> QED BY <1>1, <1>2, <1>3, <1>6, <2>1, <2>2, <2>3, <2>4, <2>5 DEF MemberInSync
<1>7. ASSUME Calm PROVE ProfileInSync'
  <2>1. ASSUME NEW c \in CrmIds, NEW i, Active(i), BelongsTo(c, i)
        PROVE  profiles'[c] = profiles[c]
    BY <2>1 DEF BelongsTo
  <2>2. ASSUME phase = "refresh", "readProfile" \notin Left, profile # None
        PROVE  /\ Active(profile.member)' /\ BelongsTo(profile.id, profile.member)'
               /\ \A f \in Fields : profile.values[f] \in {None, profiles'[profile.id].values[f]}
    <3>1. /\ Active(profile.member) /\ BelongsTo(profile.id, profile.member)
          /\ \A f \in Fields : profile.values[f] \in {None, profiles[profile.id].values[f]}
      BY <1>2, <1>7, <2>2 DEF ProfileInSync
    <3>2. profile.id \in CrmIds
      BY <1>2, <2>2 DEF TypeOK, Owned
    <3>3. profiles'[profile.id] = profiles[profile.id]
      BY <2>1, <3>1, <3>2
    <3>4. Active(profile.member)'
      BY <1>1, <1>4, <3>1
    <3> QED BY <1>1, <3>1, <3>3, <3>4 DEF BelongsTo
  <2>3. phase = "refresh" /\ pc = "fetch" => Active(profile.member)'
    BY <1>1, <1>2, <1>4, <1>7 DEF ProfileInSync
  <2>4. ASSUME phase = "apply", Kept,
               Left \cap {"dropProfile", "createProfile", "updateProfile"} = {}
        PROVE  /\ profile # None /\ profile.member = member.id
               /\ BelongsTo(profile.id, member.id)'
               /\ \A f \in Managed(config.profile) :
                     profiles'[profile.id].values[f] = config.profile[f]
    <3>1. /\ profile # None /\ profile.member = member.id
          /\ BelongsTo(profile.id, member.id)
          /\ \A f \in Managed(config.profile) :
                profiles[profile.id].values[f] = config.profile[f]
      BY <1>2, <1>7, <2>4 DEF ProfileInSync
    <3>2. Left \cap {"deleteMember", "createMember"} = {}
      BY <1>7, <2>4 DEF IInv, Prepared, Calm
    <3>3. Active(member.id)
      BY <1>2, <1>7, <2>4, <3>2 DEF MemberInSync, Kept
    <3>4. profile.id \in CrmIds
      BY <1>2, <3>1 DEF TypeOK, Owned
    <3>5. profiles'[profile.id] = profiles[profile.id]
      BY <2>1, <3>1, <3>3, <3>4
    <3> QED BY <1>1, <3>1, <3>5 DEF BelongsTo
  <2>5. ASSUME phase = "apply", pc \in {"check", "fetch", "patch"}, seen # None
        PROVE  /\ BelongsTo(seen.id, member.id)'
               /\ \A f \in Managed(config.profile) :
                    seen.values[f] = config.profile[f] =>
                      profiles'[seen.id].values[f] = config.profile[f]
               /\ Op = "createProfile" =>
                    \A c \in CrmIds : BelongsTo(c, member.id)' => c = seen.id
    <3>1. /\ BelongsTo(seen.id, member.id)
          /\ \A f \in Managed(config.profile) :
               seen.values[f] = config.profile[f] =>
                 profiles[seen.id].values[f] = config.profile[f]
          /\ Op = "createProfile" =>
               \A c \in CrmIds : BelongsTo(c, member.id) => c = seen.id
      BY <1>2, <1>7, <2>5 DEF ProfileInSync
    <3>2. seen.id \in CrmIds
      BY <1>2, <2>5 DEF Standing, Sight, Sights
    <3>3. Active(member.id)
      BY <1>7, <2>5, Where, WhileManaging
    <3>4. profiles'[seen.id] = profiles[seen.id]
      BY <2>1, <3>1, <3>2, <3>3
    <3>5. ASSUME Op = "createProfile", NEW c \in CrmIds, BelongsTo(c, member.id)'
          PROVE  c = seen.id
      <4>1. profiles'[c] # None /\ profiles'[c].settings = member.id
        BY <1>1, <3>5 DEF BelongsTo
      <4>2. profiles[seen.id] # None /\ profiles[seen.id].settings = member.id
        BY <3>1 DEF BelongsTo
      <4>3. profiles'[c] = profiles[c]
        BY <3>2, <4>1, <4>2
      <4> QED BY <3>1, <3>5, <4>1, <4>3 DEF BelongsTo
    <3> QED BY <1>1, <3>1, <3>4, <3>5 DEF BelongsTo
  <2>6. phase = "apply" /\ ~Kept
          /\ Left \cap {"dropProfile", "createProfile", "updateProfile"} = {} => profile = None
    BY <1>2, <1>7 DEF ProfileInSync
  <2> QED BY <1>1, <1>3, <2>2, <2>3, <2>4, <2>5, <2>6 DEF ProfileInSync, Kept, Managed
<1> QED BY <1>1, <1>5, <1>6, <1>7, PortalMoves

LEMMA SettleKeeps ==
  ASSUME IInv, Settle
  PROVE  IInv'
<1>1. TypeOK
  BY DEF IInv
<1>2. late' \subseteq late /\ UNCHANGED <<files, handler, failed, frame, trouble>>
  BY DEF Settle
<1>3. CASE \E i \in Ids : /\ users[i] # None /\ users[i].life = "leaving"
                          /\ users' = [users EXCEPT ![i].life = "gone"]
                          /\ UNCHANGED profiles
  <2>1. PICK i \in Ids : /\ users[i] # None /\ users[i].life = "leaving"
                         /\ users' = [users EXCEPT ![i].life = "gone"]
                         /\ UNCHANGED profiles
    BY <1>3
  <2>2. PICK u : u = [users[i] EXCEPT !.life = "gone"]
    OBVIOUS
  <2>3. users[i] \in Persons
    BY <1>1, <2>1 DEF TypeOK
  <2>4. u \in Persons /\ u.life = "gone" /\ u.super = users[i].super
    BY <2>2, <2>3 DEF Persons
  <2>5. /\ users' \in [Ids -> Persons \cup {None}] /\ users'[i] = u /\ users'[i] # None
        /\ \A j \in Ids : j # i => users'[j] = users[j]
    BY <1>1, <2>1, <2>2, <2>4, OneUser
  <2>6. \A j \in Ids : (Active(j) <=> Active(j)') /\ (Active(j) => users'[j] = users[j])
    BY <2>1, <2>4, <2>5 DEF Active
  <2>7. pc = "remove" /\ quiet /\ ~users[member.id].super => ~users'[member.id].super
    <3> SUFFICES ASSUME pc = "remove", ~users[member.id].super PROVE ~users'[member.id].super
      OBVIOUS
    <3>1. member.id \in Ids
      BY Where, WhileRemoving, MemberFields
    <3> QED BY <2>4, <2>5, <3>1
  <2>8. profiles' \in [CrmIds -> Profiles \cup {None}]
    BY <1>1, <2>1 DEF TypeOK
  <2> QED BY <1>2, <2>1, <2>5, <2>6, <2>7, <2>8, GentleKeeps
<1>4. ASSUME NEW c \in CrmIds, NEW q \in Profiles \cup {None}, users' = users,
             profiles' = [profiles EXCEPT ![c] = q],
             profiles[c] # None => ~Active(profiles[c].settings),
             q # None => \A d \in CrmIds : profiles[d] # None => profiles[d].settings # q.settings
      PROVE  IInv'
  <2>1. /\ profiles' \in [CrmIds -> Profiles \cup {None}] /\ profiles'[c] = q
        /\ \A d \in CrmIds : d # c => profiles'[d] = profiles[d]
    BY <1>1, <1>4 DEF TypeOK
  <2>2. users' \in [Ids -> Persons \cup {None}]
    BY <1>1, <1>4 DEF TypeOK
  <2>3. \A j \in Ids : Active(j) <=> Active(j)'
    BY <1>4 DEF Active
  <2>4. \A d \in CrmIds : profiles[d] # None /\ Active(profiles[d].settings) =>
                             profiles'[d] = profiles[d]
    BY <1>4, <2>1
  <2>5. \A d \in CrmIds : profiles'[d] # None /\ profiles'[d] # profiles[d] =>
          \A e \in CrmIds : profiles[e] # None => profiles[e].settings # profiles'[d].settings
    BY <1>4, <2>1
  <2> QED BY <1>2, <1>4, <2>1, <2>2, <2>3, <2>4, <2>5, GentleKeeps
<1>5. CASE \E c \in CrmIds :
             /\ profiles[c] = None
             /\ \E i \in Ids :
                  /\ Active(i) /\ \A d \in CrmIds : profiles[d] # None => profiles[d].settings # i
                  /\ profiles' = [profiles EXCEPT ![c] =
                       [settings |-> i, values |->
                         [f \in Fields |-> IF f = "hours" THEN {} ELSE Blank]]]
             /\ UNCHANGED users
  <2>1. PICK c \in CrmIds, i \in Ids :
             /\ profiles[c] = None
             /\ \A d \in CrmIds : profiles[d] # None => profiles[d].settings # i
             /\ profiles' = [profiles EXCEPT ![c] =
                  [settings |-> i, values |->
                    [f \in Fields |-> IF f = "hours" THEN {} ELSE Blank]]]
             /\ UNCHANGED users
    BY <1>5
  <2>2. PICK q : q = [settings |-> i, values |->
                        [f \in Fields |-> IF f = "hours" THEN {} ELSE Blank]]
    OBVIOUS
  <2>3. q \in Profiles /\ q.settings = i
    BY <2>2 DEF Profiles, Values, Names
  <2> QED BY <1>4, <2>1, <2>2, <2>3
<1>6. CASE \E c \in CrmIds : /\ profiles[c] # None /\ ~Active(profiles[c].settings)
                             /\ profiles' = [profiles EXCEPT ![c] = None]
                             /\ UNCHANGED users
  BY <1>4, <1>6
<1> QED BY <1>3, <1>5, <1>6 DEF Settle

\* Somebody else: whatever it is, the run counts as disturbed from then on.
LEMMA ForeignUsers ==
  ASSUME TypeOK, NEW i \in Ids,
          \/ /\ Active(i)
             /\ \/ \E t \in Texts : users' = [users EXCEPT ![i].first = t]
                \/ \E t \in Texts : users' = [users EXCEPT ![i].last = t]
                \/ users' = [users EXCEPT ![i].super = ~@]
                \/ users' = [users EXCEPT ![i].assigned = ~@]
                \/ users' = [users EXCEPT ![i].life = "gone"]
                \/ \E e \in Emails : Holder(e) = {} /\ users' = [users EXCEPT ![i].email = e]
          \/ \E e \in Emails, t \in Texts :
               /\ i \in IdFor(e) /\ ~Active(i)
               /\ users' = [users EXCEPT ![i] =
                    [email |-> e, first |-> t, last |-> t, life |-> "active",
                     super |-> FALSE, assigned |-> FALSE]]
  PROVE  users' \in [Ids -> Persons \cup {None}]
<1>1. ASSUME NEW u \in Persons, users' = [users EXCEPT ![i] = u]
      PROVE  users' \in [Ids -> Persons \cup {None}]
  BY <1>1, OneUser
<1>2. CASE Active(i)
  <2>1. users[i] \in Persons
    BY <1>2, ActiveUser
  <2>2. ASSUME NEW t \in Texts, users' = [users EXCEPT ![i].first = t]
        PROVE  users' \in [Ids -> Persons \cup {None}]
    <3>1. [users[i] EXCEPT !.first = t] \in Persons
      BY <2>1 DEF Persons, Names
    <3> QED BY <1>1, <2>2, <3>1
  <2>3. ASSUME NEW t \in Texts, users' = [users EXCEPT ![i].last = t]
        PROVE  users' \in [Ids -> Persons \cup {None}]
    <3>1. [users[i] EXCEPT !.last = t] \in Persons
      BY <2>1 DEF Persons, Names
    <3> QED BY <1>1, <2>3, <3>1
  <2>4. ASSUME users' = [users EXCEPT ![i].super = ~@]
        PROVE  users' \in [Ids -> Persons \cup {None}]
    <3>1. [users[i] EXCEPT !.super = ~@] \in Persons
      BY <2>1 DEF Persons
    <3> QED BY <1>1, <2>4, <3>1
  <2>5. ASSUME users' = [users EXCEPT ![i].assigned = ~@]
        PROVE  users' \in [Ids -> Persons \cup {None}]
    <3>1. [users[i] EXCEPT !.assigned = ~@] \in Persons
      BY <2>1 DEF Persons
    <3> QED BY <1>1, <2>5, <3>1
  <2>6. ASSUME users' = [users EXCEPT ![i].life = "gone"]
        PROVE  users' \in [Ids -> Persons \cup {None}]
    <3>1. [users[i] EXCEPT !.life = "gone"] \in Persons
      BY <2>1 DEF Persons
    <3> QED BY <1>1, <2>6, <3>1
  <2>7. ASSUME NEW e \in Emails, users' = [users EXCEPT ![i].email = e]
        PROVE  users' \in [Ids -> Persons \cup {None}]
    <3>1. [users[i] EXCEPT !.email = e] \in Persons
      BY <2>1 DEF Persons
    <3> QED BY <1>1, <2>7, <3>1
  <2> QED BY <1>2, <2>2, <2>3, <2>4, <2>5, <2>6, <2>7
<1>3. CASE ~Active(i)
  <2>1. PICK e \in Emails, t \in Texts :
               users' = [users EXCEPT ![i] =
                    [email |-> e, first |-> t, last |-> t, life |-> "active",
                     super |-> FALSE, assigned |-> FALSE]]
    BY <1>3
  <2>2. [email |-> e, first |-> t, last |-> t, life |-> "active",
         super |-> FALSE, assigned |-> FALSE] \in Persons
    BY DEF Persons, Names
  <2> QED BY <1>1, <2>1, <2>2
<1> QED BY <1>2, <1>3

LEMMA ForeignProfiles ==
  ASSUME TypeOK, NEW c \in CrmIds,
             \/ /\ profiles[c] # None
                /\ \/ \E t \in Names : profiles' = [profiles EXCEPT ![c].values["title"] = t]
                   \/ \E t \in Texts : profiles' = [profiles EXCEPT ![c].values["zone"] = t]
                   \/ profiles' = [profiles EXCEPT ![c].values["hours"] = Garbled]
                   \/ profiles' = [profiles EXCEPT ![c] = None]
             \/ /\ profiles[c] = None
                /\ \E d \in CrmIds : profiles[d] # None
                                    /\ profiles' = [profiles EXCEPT ![c] = profiles[d]]
  PROVE  profiles' \in [CrmIds -> Profiles \cup {None}]
<1>1. ASSUME NEW q \in Profiles \cup {None}, profiles' = [profiles EXCEPT ![c] = q]
      PROVE  profiles' \in [CrmIds -> Profiles \cup {None}]
  BY <1>1 DEF TypeOK
<1>2. ASSUME profiles[c] # None, NEW f \in Fields, NEW v \in Values,
             profiles' = [profiles EXCEPT ![c].values[f] = v]
      PROVE  profiles' \in [CrmIds -> Profiles \cup {None}]
  <2>1. profiles[c] \in Profiles
    BY <1>2 DEF TypeOK
  <2>2. profiles[c].values \in [Fields -> Values]
    BY <2>1 DEF Profiles
  <2>3. PICK w : w = [profiles[c].values EXCEPT ![f] = v]
    OBVIOUS
  <2>4. w \in [Fields -> Values]
    BY <2>2, <2>3
  <2>5. PICK q : q = [profiles[c] EXCEPT !.values = w]
    OBVIOUS
  <2>6. q \in Profiles
    BY <2>1, <2>4, <2>5 DEF Profiles
  <2>7. profiles' = [profiles EXCEPT ![c] = q]
    BY <1>2, <2>3, <2>5
  <2> QED BY <1>1, <2>6, <2>7
<1>3. /\ \A t \in Names : t \in Values
      /\ \A t \in Texts : t \in Values
      /\ Garbled \in Values
      /\ "title" \in Fields /\ "zone" \in Fields /\ "hours" \in Fields
  BY DEF Values, Names, Fields
<1>4. CASE profiles[c] # None
  BY <1>1, <1>2, <1>3, <1>4
<1>5. CASE profiles[c] = None
  <2>1. PICK d \in CrmIds : profiles' = [profiles EXCEPT ![c] = profiles[d]]
    BY <1>5
  <2>2. profiles[d] \in Profiles \cup {None}
    BY DEF TypeOK
  <2> QED BY <1>1, <2>1, <2>2
<1> QED BY <1>4, <1>5

LEMMA ForeignKeeps ==
  ASSUME IInv, Foreign
  PROVE  IInv'
<1>1. TypeOK /\ RequestsValid /\ Standing /\ Prepared /\ Consented
  BY DEF IInv
<1>2. /\ Disturb /\ quiet' = (phase = "idle")
      /\ UNCHANGED <<late, files, handler, failed, config, phase, consented>>
  BY DEF Foreign
<1>3. /\ todo' = todo /\ pc' = pc /\ seen' = seen /\ sent' = sent /\ clear' = clear
      /\ count' = count /\ member' = member /\ profile' = profile /\ tainted' = tainted
      /\ failed' = failed /\ late' = late
      /\ config' = config /\ phase' = phase /\ consented' = consented
  BY <1>2 DEF files, handler
<1>4. users' \in [Ids -> Persons \cup {None}]
  BY <1>1, ForeignUsers DEF Foreign, TypeOK
<1>5. profiles' \in [CrmIds -> Profiles \cup {None}]
  BY <1>1, ForeignProfiles DEF Foreign, TypeOK
<1>6. trouble' \in 0..MaxTrouble
  BY <1>1, <1>2, Disturbance
<1>7. quiet' \in BOOLEAN
  BY <1>2, Zenon
<1>8. Left' = Left /\ Op' = Op
  BY <1>3 DEF Left, Op
<1>9. TypeOK'
  BY <1>1, <1>3, <1>4, <1>5, <1>6, <1>7 DEF TypeOK
<1>10. RequestsValid'
  BY <1>1, <1>3 DEF RequestsValid, ValidRequest
<1>11. Standing'
  BY <1>1, <1>3, <1>8 DEF Standing
<1>12. Prepared'
  BY <1>1, <1>3, <1>8 DEF Prepared, Kept
<1>13. Consented'
  <2>1. pc = "remove" => ~quiet'
    BY <1>2, Where
  <2> QED BY <1>1, <1>3, <1>8, <2>1 DEF Consented
<1>14. ~Calm'
  BY <1>2, <1>3 DEF Calm
<1>15. LateHarmless' /\ MemberInSync' /\ ProfileInSync'
  BY <1>14 DEF LateHarmless, MemberInSync, ProfileInSync
<1> QED BY <1>9, <1>10, <1>11, <1>12, <1>13, <1>15 DEF IInv

\* A late request cannot arrive where one has not been sent, or while nobody
\* should be changing anything.
LEMMA WhenLate ==
  ASSUME IInv, Calm, NEW r \in late
  PROVE  /\ phase = "apply" /\ Harmless(r)
         /\ pc \notin {"look", "lookEmail", "rename", "guard", "guardEmail", "remove"}
         /\ "updateMember" \in Left => pc # "drop"
         /\ "readMember" \notin Left /\ "readProfile" \notin Left
<1>1. LateHarmless /\ TypeOK /\ Prepared
  BY DEF IInv
<1>2. Harmless(r) /\ phase # "refresh"
  BY <1>1 DEF LateHarmless
<1>3. phase = "apply"
  BY <1>1, <1>2 DEF Calm, TypeOK
<1>4. /\ pc \in {"look", "lookEmail", "rename"} => "updateMember" \in Left
      /\ pc \in {"guard", "guardEmail", "remove"} => "deleteMember" \in Left
  BY Where
<1> QED BY <1>1, <1>2, <1>3, <1>4 DEF LateHarmless, Prepared

\* What stays while a late request arrives.
LEMMA WhileArriving ==
  ASSUME IInv, NEW r \in late, late' = late \ {r},
         UNCHANGED <<files, handler, failed, frame, trouble>>
  PROVE  /\ pc' = pc /\ seen' = seen /\ clear' = clear
         /\ member' = member /\ profile' = profile /\ tainted' = tainted
         /\ config' = config /\ phase' = phase /\ Left' = Left /\ Op' = Op /\ Calm' = Calm
BY DEF files, handler, frame, Left, Op, Calm

LEMMA LateRename ==
  ASSUME IInv, Calm, NEW r \in late, ValidRequest(r), r.kind = "rename",
         late' = late \ {r}, TakeEffect(r),
         UNCHANGED <<files, handler, failed, frame, trouble>>
  PROVE  LateHarmless' /\ MemberInSync' /\ ProfileInSync'
<1>1. /\ pc' = pc /\ seen' = seen /\ clear' = clear
      /\ member' = member /\ profile' = profile /\ tainted' = tainted
      /\ config' = config /\ phase' = phase /\ Left' = Left /\ Op' = Op /\ Calm' = Calm
  BY WhileArriving
<1>2. TypeOK /\ LateHarmless /\ MemberInSync /\ ProfileInSync
  BY DEF IInv
<1>3. /\ profiles' = profiles
      /\ r.id \in Ids /\ Active(r.id)
      /\ users'[r.id] # None /\ users'[r.id].life = "active"
      /\ users'[r.id].email = users[r.id].email
      /\ users'[r.id].first = r.first /\ users'[r.id].last = r.last
      /\ \A j \in Ids : j # r.id => users'[j] = users[j]
  BY <1>2, EffectOfRename
<1>4. /\ phase = "apply" /\ Harmless(r)
      /\ pc \notin {"look", "lookEmail", "rename", "guard", "guardEmail", "remove"}
      /\ "updateMember" \in Left => pc # "drop"
  BY WhenLate
<1>5. \A i : Active(i) <=> Active(i)'
  BY <1>3 DEF Active
<1>6. config.first \in {None, r.first} /\ config.last \in {None, r.last}
  BY <1>4 DEF Harmless
<1>7. LateHarmless'
  <2>1. ASSUME NEW q \in late PROVE Harmless(q)'
    <3>1. Harmless(q)
      BY <1>2, <2>1 DEF LateHarmless
    <3>2. Active(q.id) => Active(q.id)'
      BY <1>5
    <3> QED BY <1>1, <3>1, <3>2 DEF Harmless, Kept
  <2> QED BY <1>1, <1>2, <2>1 DEF LateHarmless
<1>8. MemberInSync'
  <2>1. Active(member.id) <=> Active(member.id)'
    BY <1>1, <1>5
  <2>2. Active(member.id) => users'[member.id].email = users[member.id].email
    BY <1>3 DEF Active
  <2>3. Active(member.id) /\ NamedAs(member.id, config) => NamedAs(member.id, config)'
    BY <1>1, <1>3, <1>6 DEF NamedAs, Active
  <2> QED BY <1>1, <1>2, <1>4, <2>1, <2>2, <2>3 DEF MemberInSync
<1>9. ProfileInSync'
  BY <1>1, <1>2, <1>3, <1>4 DEF ProfileInSync, BelongsTo, Managed, Kept
<1> QED BY <1>7, <1>8, <1>9

LEMMA LateRemove ==
  ASSUME IInv, Calm, NEW r \in late, ValidRequest(r), r.kind = "remove",
         late' = late \ {r}, TakeEffect(r),
         UNCHANGED <<files, handler, failed, frame, trouble>>
  PROVE  LateHarmless' /\ MemberInSync' /\ ProfileInSync'
<1>1. /\ pc' = pc /\ seen' = seen /\ clear' = clear
      /\ member' = member /\ profile' = profile /\ tainted' = tainted
      /\ config' = config /\ phase' = phase /\ Left' = Left /\ Op' = Op /\ Calm' = Calm
  BY WhileArriving
<1>2. TypeOK /\ LateHarmless /\ MemberInSync /\ ProfileInSync /\ RequestsValid /\ Prepared
  BY DEF IInv
<1>3. r.id \in Ids /\ r = [kind |-> "remove", id |-> r.id]
  BY <1>2 DEF ValidRequest, TypeOK
<1>4. profiles' = profiles /\ ~Active(r.id)'
  BY <1>2, <1>3, EffectOfRemove
<1>5. phase = "apply" /\ pc \in {"gone", "goneEmail", "goneList"} /\ r.id = member.id
  BY WhenLate DEF Harmless
<1>6. Op = "deleteMember" /\ "deleteMember" \in Left /\ todo # <<>> /\ ~failed
  BY <1>5, Where
<1>7. "updateMember" \notin Left
  BY <1>6, OrderlyTail DEF Left, Op, IInv, Standing, Follows
<1>8. LateHarmless'
  <2>1. ASSUME NEW q \in late, q # r PROVE Harmless(q)'
    <3>1. Harmless(q) /\ ValidRequest(q)
      BY <1>2, <2>1 DEF LateHarmless, RequestsValid
    <3>2. q.kind # "remove"
      BY <1>3, <1>5, <2>1, <3>1 DEF Harmless, ValidRequest
    <3> QED BY <1>1, <3>1, <3>2 DEF Harmless, Kept
  <2> QED BY <1>1, <1>2, <2>1 DEF LateHarmless
<1>9. MemberInSync'
  <2>1. ~Active(member.id)'
    BY <1>1, <1>4, <1>5
  <2> QED BY <1>1, <1>5, <1>6, <1>7, <2>1 DEF MemberInSync
<1>10. ProfileInSync'
  <2>1. Kept => "createProfile" \in Left
    BY <1>2, <1>5, <1>6 DEF Prepared
  <2> QED BY <1>1, <1>2, <1>5, <2>1 DEF ProfileInSync, Kept
<1> QED BY <1>8, <1>9, <1>10

LEMMA LatePatch ==
  ASSUME IInv, Calm, NEW r \in late, ValidRequest(r), r.kind = "patch",
         late' = late \ {r}, TakeEffect(r),
         UNCHANGED <<files, handler, failed, frame, trouble>>
  PROVE  LateHarmless' /\ MemberInSync' /\ ProfileInSync'
<1>1. /\ pc' = pc /\ seen' = seen /\ clear' = clear
      /\ member' = member /\ profile' = profile /\ tainted' = tainted
      /\ config' = config /\ phase' = phase /\ Left' = Left /\ Op' = Op /\ Calm' = Calm
  BY WhileArriving
<1>2. TypeOK /\ LateHarmless /\ MemberInSync /\ ProfileInSync
  BY DEF IInv
<1>3. /\ users' = users
      /\ r.id \in CrmIds /\ profiles[r.id] # None /\ profiles'[r.id] # None
      /\ profiles'[r.id].settings = profiles[r.id].settings
      /\ \A f \in Fields : profiles'[r.id].values[f] =
           IF r.values[f] = None THEN profiles[r.id].values[f] ELSE r.values[f]
      /\ \A c \in CrmIds : c # r.id => profiles'[c] = profiles[c]
  BY <1>2, EffectOfPatch
<1>4. phase = "apply" /\ Harmless(r)
  BY WhenLate
<1>5. \A f \in Fields : r.values[f] \in {None, config.profile[f]}
  BY <1>4 DEF Harmless
<1>6. ASSUME NEW c \in CrmIds, NEW i
      PROVE  BelongsTo(c, i) <=> BelongsTo(c, i)'
  BY <1>3 DEF BelongsTo
<1>7. ASSUME NEW c \in CrmIds, NEW f \in Managed(config.profile),
             profiles[c].values[f] = config.profile[f]
      PROVE  profiles'[c].values[f] = config.profile[f]
  BY <1>3, <1>5, <1>7 DEF Managed
<1>8. LateHarmless'
  <2>1. ASSUME NEW q \in late PROVE Harmless(q)'
    BY <1>1, <1>2, <1>3, <2>1 DEF LateHarmless, Harmless, Kept, Active
  <2> QED BY <1>1, <1>2, <2>1 DEF LateHarmless
<1>9. MemberInSync'
  BY <1>1, <1>2, <1>3, <1>4 DEF MemberInSync, NamedAs, Active, AsRead
<1>10. ProfileInSync'
  <2>1. ASSUME Kept, Left \cap {"dropProfile", "createProfile", "updateProfile"} = {}
        PROVE  /\ profile # None /\ profile.member = member.id
               /\ BelongsTo(profile.id, member.id)'
               /\ \A f \in Managed(config.profile) :
                     profiles'[profile.id].values[f] = config.profile[f]
    <3>1. /\ profile # None /\ profile.member = member.id
          /\ BelongsTo(profile.id, member.id)
          /\ \A f \in Managed(config.profile) :
                profiles[profile.id].values[f] = config.profile[f]
      BY <1>2, <1>4, <2>1 DEF ProfileInSync
    <3>2. profile.id \in CrmIds
      BY <1>2, <3>1 DEF TypeOK, Owned
    <3>3. BelongsTo(profile.id, member.id)'
      BY <1>1, <1>3, <3>1, <3>2 DEF BelongsTo
    <3> QED BY <1>7, <3>1, <3>2, <3>3
  <2>2. ASSUME pc \in {"check", "fetch", "patch"}, seen # None
        PROVE  /\ BelongsTo(seen.id, member.id)'
               /\ \A f \in Managed(config.profile) :
                    seen.values[f] = config.profile[f] =>
                      profiles'[seen.id].values[f] = config.profile[f]
               /\ Op = "createProfile" =>
                    \A c \in CrmIds : BelongsTo(c, member.id)' => c = seen.id
    <3>1. /\ BelongsTo(seen.id, member.id)
          /\ \A f \in Managed(config.profile) :
               seen.values[f] = config.profile[f] =>
                 profiles[seen.id].values[f] = config.profile[f]
          /\ Op = "createProfile" =>
               \A c \in CrmIds : BelongsTo(c, member.id) => c = seen.id
      BY <1>2, <1>4, <2>2 DEF ProfileInSync
    <3>2. seen.id \in CrmIds
      BY <2>2 DEF IInv, Standing, Sight, Sights
    <3>3. \A c \in CrmIds : BelongsTo(c, member.id)' <=> BelongsTo(c, member.id)
      BY <1>1, <1>3 DEF BelongsTo
    <3> QED BY <1>1, <1>7, <3>1, <3>2, <3>3
  <2>3. ~Kept /\ Left \cap {"dropProfile", "createProfile", "updateProfile"} = {} =>
          profile = None
    BY <1>2, <1>4 DEF ProfileInSync
  <2> QED BY <1>1, <1>4, <2>1, <2>2, <2>3 DEF ProfileInSync, Kept, Managed
<1> QED BY <1>8, <1>9, <1>10

LEMMA ArriveLateKeeps ==
  ASSUME IInv, ArriveLate
  PROVE  IInv'
<1>1. PICK r \in late :
        /\ late' = late \ {r}
        /\ TakeEffect(r) \/ UNCHANGED <<users, profiles>>
        /\ UNCHANGED <<files, handler, failed, frame, trouble>>
  BY DEF ArriveLate
<1>2. TypeOK /\ ValidRequest(r) /\ late' \subseteq late
  BY <1>1 DEF IInv, RequestsValid
<1>3. CASE UNCHANGED <<users, profiles>>
  <2>1. /\ users' \in [Ids -> Persons \cup {None}]
        /\ profiles' \in [CrmIds -> Profiles \cup {None}]
        /\ users' = users /\ profiles' = profiles
    BY <1>2, <1>3 DEF TypeOK
  <2>2. \A i \in Ids : Active(i) <=> Active(i)'
    BY <2>1 DEF Active
  <2> QED BY <1>1, <1>2, <2>1, <2>2, GentleKeeps
<1>4. CASE TakeEffect(r)
  <2>1. /\ users' \in [Ids -> Persons \cup {None}]
        /\ profiles' \in [CrmIds -> Profiles \cup {None}]
    BY <1>2, <1>4, EffectTyped
  <2>2. pc = "remove" => ~quiet
    BY <1>1, Where, WhenLate DEF Calm
  <2>3. Calm => Harmless(r)
    BY WhenLate
  <2>4. Calm => LateHarmless' /\ MemberInSync' /\ ProfileInSync'
    BY <1>1, <1>2, <1>4, <2>3, LateRename, LateRemove, LatePatch DEF Harmless
  <2> QED BY <1>1, <1>2, <2>1, <2>2, <2>4, PortalMoves
<1> QED BY <1>1, <1>3, <1>4

----------------------------------------------------------------------------
(* Terraform.                                                              *)

LEMMA InitHolds ==
  ASSUME Init
  PROVE  IInv
<1>1. /\ profiles = [c \in CrmIds |-> None] /\ late = {}
      /\ config \in Configs
      /\ member = None /\ profile = None /\ tainted = FALSE
      /\ phase = "idle" /\ todo = <<>> /\ pc = "done"
      /\ seen = None /\ sent = {} /\ clear = TRUE /\ count = 0
      /\ failed = FALSE /\ quiet = TRUE /\ consented = {} /\ trouble = 0
  BY DEF Init
<1>2. users \in [Ids -> Persons \cup {None}]
  <2>1. PICK e \in Emails, t \in Texts, s \in BOOLEAN, a \in BOOLEAN :
          users \in {[i \in Ids |-> None], [i \in Ids |-> IF i # 1 THEN None ELSE
            [email |-> e, first |-> t, last |-> t, life |-> "active", super |-> s, assigned |-> a]]}
    BY DEF Init
  <2>2. [email |-> e, first |-> t, last |-> t, life |-> "active", super |-> s, assigned |-> a]
          \in Persons
    BY DEF Persons, Names
  <2> QED BY <2>1, <2>2
<1>3. Left = {} /\ Op = "none"
  BY <1>1, AtEnd
<1>4. TypeOK
  <2>1. /\ profiles \in [CrmIds -> Profiles \cup {None}]
        /\ count \in 0..(Polls - 1) /\ trouble \in 0..MaxTrouble
    BY <1>1, UsersAssumption
  <2>2. Range(todo) \subseteq DOMAIN Entry
    BY <1>3 DEF Left
  <2> QED BY <1>1, <1>2, <2>1, <2>2 DEF TypeOK
<1>5. Standing
  <2>1. Orderly(todo)
    BY <1>1, ShortPlans
  <2>2. clear /\ ~failed
    BY <1>1
  <2> QED BY <1>1, <1>3, <2>1, <2>2 DEF Standing
<1>6. Prepared
  BY <1>1, <1>3 DEF Prepared
<1>7. ~Calm
  BY <1>1 DEF Calm
<1> QED BY <1>1, <1>4, <1>5, <1>6, <1>7
        DEF IInv, RequestsValid, Consented, LateHarmless, MemberInSync, ProfileInSync

\* A run begins with what state holds.
LEMMA StartRunKeeps ==
  ASSUME IInv, StartRun
  PROVE  IInv'
<1>1. TypeOK /\ RequestsValid /\ Standing /\ Prepared /\ Consented
  BY DEF IInv
<1>2. /\ phase = "idle" /\ phase' = "refresh" /\ config' \in Configs /\ quiet' = (late = {})
      /\ users' = users /\ profiles' = profiles /\ late' = late
      /\ member' = member /\ profile' = profile /\ tainted' = tainted
      /\ failed' = failed /\ consented' = consented /\ trouble' = trouble
  BY DEF StartRun, portal, files
<1>3. todo = <<>> /\ pc = "done" /\ ~failed
      /\ seen = None /\ sent = {} /\ clear /\ count = 0
  BY <1>1, <1>2 DEF Standing, TypeOK
<1>4. PICK a, b : /\ a = (IF member = None THEN <<>> ELSE <<"readMember">>)
                  /\ b = (IF profile = None THEN <<>> ELSE <<"readProfile">>)
  OBVIOUS
<1>5. "readMember" \in DOMAIN Entry /\ "readProfile" \in DOMAIN Entry
  BY DEF Entry
<1>6. /\ Orderly(a) /\ Range(a) = IF member = None THEN {} ELSE {"readMember"}
      /\ Orderly(b) /\ Range(b) = IF profile = None THEN {} ELSE {"readProfile"}
  BY <1>4, <1>5, ShortPlans
<1>7. PICK rest : rest = a \o b
  OBVIOUS
<1>8. Orderly(rest) /\ Range(rest) = Range(a) \cup Range(b)
  BY <1>6, <1>7, OrderlyJoin DEF Follows
<1>9. /\ todo' = rest /\ pc' = IF rest = <<>> THEN "done" ELSE Entry[Head(rest)]
      /\ seen' = seen /\ sent' = sent /\ clear' = clear /\ count' = count
  BY <1>4, <1>7 DEF StartRun, Start
<1>10. /\ pc' \in {"done", "get", "check", "create", "look", "guard", "drop"}
       /\ pc' = "done" <=> todo' = <<>>
       /\ todo' # <<>> => pc' \in Stages[Op']
       /\ Left' \subseteq DOMAIN Entry
  BY <1>8, <1>9, Beginning
<1>11. /\ Left' \subseteq {"readMember", "readProfile"}
       /\ "readMember" \in Left' <=> member # None
       /\ "readProfile" \in Left' <=> profile # None
  BY <1>6, <1>8, <1>9 DEF Left
<1>12. quiet' \in BOOLEAN
  BY <1>2, Zenon
<1>13. TypeOK'
  <2>1. Range(todo') \subseteq DOMAIN Entry
    BY <1>10 DEF Left
  <2> QED BY <1>1, <1>2, <1>9, <1>10, <1>12, <2>1 DEF TypeOK
<1>14. RequestsValid'
  BY <1>1, <1>2 DEF RequestsValid, ValidRequest
<1>15. Standing'
  <2>1. Orderly(todo')
    BY <1>8, <1>9
  <2>2. clear' /\ ~failed' /\ seen' = None /\ sent' = {} /\ count' = 0
    BY <1>2, <1>3, <1>9
  <2> QED BY <1>2, <1>10, <2>1, <2>2 DEF Standing
<1>16. Prepared'
  BY <1>2, <1>10, <1>11 DEF Prepared
<1>17. Consented'
  BY <1>1, <1>2, <1>10 DEF Consented
<1>18. LateHarmless'
  BY <1>2 DEF LateHarmless, Calm
<1>19. MemberInSync'
  BY <1>2, <1>10, <1>11 DEF MemberInSync
<1>20. ProfileInSync'
  BY <1>2, <1>3, <1>9, <1>10, <1>11 DEF ProfileInSync
<1> QED BY <1>13, <1>14, <1>15, <1>16, <1>17, <1>18, <1>19, <1>20 DEF IInv

\* When each handler is planned.
LEMMA MemberPlanIs ==
  /\ Orderly(MemberPlan)
  /\ Range(MemberPlan) \subseteq {"deleteMember", "createMember", "updateMember"}
  /\ "deleteMember" \in Range(MemberPlan) <=> member # None /\ (config = None \/ Replaces)
  /\ "createMember" \in Range(MemberPlan) <=> config # None /\ (member = None \/ Replaces)
  /\ "updateMember" \in Range(MemberPlan) <=>
       /\ member # None /\ config # None /\ ~Replaces
       /\ NameChanges \/ member.allow # config.allow
<1>1. "deleteMember" \in DOMAIN Entry /\ "createMember" \in DOMAIN Entry
      /\ "updateMember" \in DOMAIN Entry
  BY DEF Entry
<1>2. CASE member = None /\ config = None
  <2>1. MemberPlan = <<>>
    BY <1>2 DEF MemberPlan
  <2> QED BY <1>2, <2>1, ShortPlans
<1>3. CASE member = None /\ config # None
  <2>1. MemberPlan = <<"createMember">>
    BY <1>3 DEF MemberPlan
  <2> QED BY <1>1, <1>3, <2>1, ShortPlans
<1>4. CASE member # None /\ config = None
  <2>1. MemberPlan = <<"deleteMember">>
    BY <1>4 DEF MemberPlan
  <2> QED BY <1>1, <1>4, <2>1, ShortPlans
<1>5. CASE member # None /\ config # None /\ Replaces
  <2>1. MemberPlan = <<"deleteMember", "createMember">>
    BY <1>5 DEF MemberPlan
  <2> QED BY <1>1, <1>5, <2>1, ShortPlans
<1>6. CASE /\ member # None /\ config # None /\ ~Replaces
           /\ NameChanges \/ member.allow # config.allow
  <2>1. MemberPlan = <<"updateMember">>
    BY <1>6 DEF MemberPlan
  <2> QED BY <1>1, <1>6, <2>1, ShortPlans
<1>7. CASE /\ member # None /\ config # None /\ ~Replaces
           /\ ~(NameChanges \/ member.allow # config.allow)
  <2>1. MemberPlan = <<>>
    BY <1>7 DEF MemberPlan
  <2> QED BY <1>7, <2>1, ShortPlans
<1> QED BY <1>2, <1>3, <1>4, <1>5, <1>6, <1>7

LEMMA DropPlanIs ==
  /\ Orderly(DropPlan) /\ Range(DropPlan) \subseteq {"dropProfile"}
  /\ "dropProfile" \in Range(DropPlan) <=> profile # None /\ (~Kept \/ Elsewhere)
<1>1. "dropProfile" \in DOMAIN Entry
  BY DEF Entry
<1> QED BY <1>1, ShortPlans DEF DropPlan

LEMMA ProfilePlanIs ==
  /\ Orderly(ProfilePlan) /\ Range(ProfilePlan) \subseteq {"createProfile", "updateProfile"}
  /\ "createProfile" \in Range(ProfilePlan) <=> Kept /\ (profile = None \/ Elsewhere)
  /\ "updateProfile" \in Range(ProfilePlan) <=>
       Kept /\ profile # None /\ ~Elsewhere /\ profile.values # config.profile
<1>1. "createProfile" \in DOMAIN Entry /\ "updateProfile" \in DOMAIN Entry
  BY DEF Entry
<1>2. CASE ~Kept
  <2>1. ProfilePlan = <<>>
    BY <1>2 DEF ProfilePlan
  <2> QED BY <1>2, <2>1, ShortPlans
<1>3. CASE Kept /\ (profile = None \/ Elsewhere)
  <2>1. ProfilePlan = <<"createProfile">>
    BY <1>3 DEF ProfilePlan
  <2> QED BY <1>1, <1>3, <2>1, ShortPlans
<1>4. CASE Kept /\ profile # None /\ ~Elsewhere
  <2>1. ProfilePlan =
          IF profile.values # config.profile THEN <<"updateProfile">> ELSE <<>>
    BY <1>4 DEF ProfilePlan
  <2> QED BY <1>1, <1>4, <2>1, ShortPlans
<1> QED BY <1>2, <1>3, <1>4

LEMMA WholePlan ==
  ASSUME NEW plan, plan = DropPlan \o MemberPlan \o ProfilePlan
  PROVE  /\ Orderly(plan)
         /\ Range(plan) = Range(DropPlan) \cup Range(MemberPlan) \cup Range(ProfilePlan)
<1>1. PICK first : first = DropPlan \o MemberPlan
  OBVIOUS
<1>2. \A x \in Range(DropPlan) : Range(MemberPlan) \subseteq Follows[x]
  BY DropPlanIs, MemberPlanIs DEF Follows
<1>3. Orderly(first) /\ Range(first) = Range(DropPlan) \cup Range(MemberPlan)
  BY <1>1, <1>2, DropPlanIs, MemberPlanIs, OrderlyJoin
<1>4. ASSUME NEW x \in Range(first), NEW y \in Range(ProfilePlan) PROVE y \in Follows[x]
  <2>1. Kept /\ config # None /\ y \in {"createProfile", "updateProfile"}
    BY <1>4, ProfilePlanIs DEF Kept
  <2>2. CASE x = "updateMember"
    BY <2>1, <2>2 DEF Follows
  <2>3. CASE x # "updateMember"
    <3>1. x \in {"dropProfile", "deleteMember", "createMember"}
      BY <1>3, <1>4, <2>3, DropPlanIs, MemberPlanIs
    <3>2. x \in {"deleteMember", "createMember"} => "createMember" \in Range(MemberPlan)
      BY <1>3, <1>4, <2>1, DropPlanIs, MemberPlanIs
    <3>3. x = "dropProfile" => Elsewhere
      BY <1>3, <1>4, <2>1, DropPlanIs, MemberPlanIs
    <3>4. Elsewhere
      BY <3>1, <3>2, <3>3 DEF Elsewhere
    <3>5. y = "createProfile"
      BY <1>4, <2>1, <3>4, ProfilePlanIs
    <3> QED BY <3>1, <3>5 DEF Follows
  <2> QED BY <2>2, <2>3
<1>5. plan = first \o ProfilePlan
  BY <1>1
<1>6. Orderly(plan) /\ Range(plan) = Range(first) \cup Range(ProfilePlan)
  BY <1>3, <1>4, <1>5, ProfilePlanIs, OrderlyJoin
<1> QED BY <1>3, <1>6

LEMMA PlanKeeps ==
  ASSUME IInv, Plan
  PROVE  IInv'
<1>1. TypeOK /\ RequestsValid /\ Standing /\ Prepared /\ Consented
      /\ LateHarmless /\ MemberInSync /\ ProfileInSync
  BY DEF IInv
<1>2. PICK plan : plan = DropPlan \o MemberPlan \o ProfilePlan
  OBVIOUS
<1>3. /\ phase = "refresh" /\ todo = <<>> /\ ~failed /\ phase' = "apply"
      /\ users' = users /\ profiles' = profiles /\ late' = late
      /\ member' = member /\ profile' = profile /\ tainted' = tainted
      /\ failed' = failed /\ config' = config /\ quiet' = quiet
      /\ consented' = consented /\ trouble' = trouble
  BY DEF Plan, portal, files
<1>4. /\ todo' = plan /\ pc' = IF plan = <<>> THEN "done" ELSE Entry[Head(plan)]
      /\ seen' = seen /\ sent' = sent /\ clear' = clear /\ count' = count
  BY <1>2 DEF Plan, Start
<1>5. Left = {} /\ pc = "done"
  BY <1>1, <1>3, AtEnd DEF TypeOK
<1>6. seen = None /\ sent = {} /\ clear /\ count = 0
  BY <1>1, <1>5 DEF Standing
<1>7. Orderly(plan)
      /\ Range(plan) = Range(DropPlan) \cup Range(MemberPlan) \cup Range(ProfilePlan)
  BY <1>2, WholePlan
<1>8. /\ pc' \in {"done", "get", "check", "create", "look", "guard", "drop"}
      /\ pc' = "done" <=> todo' = <<>>
      /\ todo' # <<>> => pc' \in Stages[Op']
      /\ Left' \subseteq DOMAIN Entry
  BY <1>4, <1>7, Beginning
<1>9. Left' = Range(plan)
  BY <1>4 DEF Left
<1>10. /\ Left' \cap {"readMember", "readProfile"} = {}
       /\ "deleteMember" \in Left' <=> member # None /\ (config = None \/ Replaces)
       /\ "createMember" \in Left' <=> config # None /\ (member = None \/ Replaces)
       /\ "updateMember" \in Left' <=>
            /\ member # None /\ config # None /\ ~Replaces
            /\ NameChanges \/ member.allow # config.allow
       /\ "dropProfile" \in Left' <=> profile # None /\ (~Kept \/ Elsewhere)
       /\ "createProfile" \in Left' <=> Kept /\ (profile = None \/ Elsewhere)
       /\ "updateProfile" \in Left' <=>
            Kept /\ profile # None /\ ~Elsewhere /\ profile.values # config.profile
       /\ Elsewhere <=> "createMember" \in Left' \/ profile.member # member.id
  BY <1>7, <1>9, MemberPlanIs, DropPlanIs, ProfilePlanIs DEF Elsewhere
<1>11. Calm' = Calm
  BY <1>3 DEF Calm
<1>12. TypeOK'
  <2>1. Range(todo') \subseteq DOMAIN Entry
    BY <1>8 DEF Left
  <2> QED BY <1>1, <1>3, <1>4, <1>8, <2>1 DEF TypeOK
<1>13. RequestsValid'
  BY <1>1, <1>3 DEF RequestsValid, ValidRequest
<1>14. Standing'
  <2>1. Orderly(todo')
    BY <1>4, <1>7
  <2>2. clear' /\ ~failed' /\ seen' = None /\ sent' = {} /\ count' = 0
    BY <1>3, <1>4, <1>6
  <2> QED BY <1>3, <1>8, <2>1, <2>2 DEF Standing
<1>15. Prepared'
  BY <1>3, <1>8, <1>10 DEF Prepared, Kept
<1>16. Consented'
  BY <1>1, <1>3, <1>8 DEF Consented
<1>17. LateHarmless'
  BY <1>1, <1>3, <1>11 DEF LateHarmless
<1>18. MemberInSync'
  <2> SUFFICES ASSUME Calm PROVE MemberInSync'
    BY <1>11 DEF MemberInSync
  <2>1. member # None => AsRead
    BY <1>1, <1>3, <1>5 DEF MemberInSync
  <2>2. AsRead => AsRead'
    BY <1>3 DEF AsRead, Active
  <2>3. config = None /\ "deleteMember" \notin Left' => member = None
    BY <1>10
  <2>4. ASSUME config # None, Left' \cap {"deleteMember", "createMember"} = {}
        PROVE  /\ ~tainted /\ Active(member.id)'
               /\ users'[member.id].email = config.email /\ member.email = config.email
               /\ "updateMember" \notin Left' =>
                    member.allow = config.allow /\ NamedAs(member.id, config)'
    <3>1. member # None /\ ~Replaces
      BY <1>10, <2>4
    <3>2. ~tainted /\ member.email = config.email
      BY <3>1 DEF Replaces
    <3>3. "updateMember" \notin Left' => member.allow = config.allow /\ ~NameChanges
      BY <1>10, <2>4, <3>1
    <3>4. AsRead
      BY <2>1, <3>1
    <3>5. ~NameChanges => NamedAs(member.id, config)'
      BY <1>3, <3>4 DEF NameChanges, NamedAs, AsRead
    <3>6. Active(member.id)' /\ users'[member.id].email = member.email
      BY <1>3, <3>4 DEF AsRead, Active
    <3> QED BY <3>2, <3>3, <3>5, <3>6
  <2>5. "updateMember" \in Left' => AsRead'
    BY <1>10, <2>1, <2>2
  <2> QED BY <1>3, <1>8, <2>3, <2>4, <2>5 DEF MemberInSync
<1>19. ProfileInSync'
  <2> SUFFICES ASSUME Calm PROVE ProfileInSync'
    BY <1>11 DEF ProfileInSync
  <2>1. profile # None =>
          /\ BelongsTo(profile.id, profile.member)
          /\ \A f \in Fields : profile.values[f] \in {None, profiles[profile.id].values[f]}
    BY <1>1, <1>3, <1>5 DEF ProfileInSync
  <2>2. ASSUME Kept, Left' \cap {"dropProfile", "createProfile", "updateProfile"} = {}
        PROVE  /\ profile # None /\ profile.member = member.id
               /\ BelongsTo(profile.id, member.id)
               /\ \A f \in Managed(config.profile) :
                    profiles[profile.id].values[f] = config.profile[f]
    <3>1. profile # None /\ ~Elsewhere /\ profile.values = config.profile
      BY <1>10, <2>2
    <3>2. profile.member = member.id
      BY <3>1 DEF Elsewhere
    <3>3. \A f \in Managed(config.profile) :
            profiles[profile.id].values[f] = config.profile[f]
      BY <2>1, <3>1 DEF Managed
    <3> QED BY <2>1, <3>1, <3>2, <3>3
  <2>3. ~Kept /\ Left' \cap {"dropProfile", "createProfile", "updateProfile"} = {} =>
          profile = None
    BY <1>10
  <2> QED BY <1>3, <1>4, <1>6, <2>2, <2>3 DEF ProfileInSync, BelongsTo, Kept, Managed
<1> QED BY <1>12, <1>13, <1>14, <1>15, <1>16, <1>17, <1>18, <1>19 DEF IInv

\* A run ends, whichever way: what it was told of removals is remembered.
LEMMA StopKeeps ==
  ASSUME IInv, Stop, trouble' \in 0..MaxTrouble,
         \A r \in late' : r \in late \/ (pc \in {"rename", "remove", "patch"} /\ r = Request)
  PROVE  IInv'
<1>1. TypeOK /\ RequestsValid /\ Standing /\ Prepared /\ Consented
  BY DEF IInv
<1>2. /\ phase' = "idle" /\ failed' = FALSE /\ quiet' = TRUE
      /\ todo' = <<>> /\ pc' = "done" /\ seen' = None /\ sent' = {} /\ clear' = TRUE
      /\ count' = 0
      /\ users' = users /\ profiles' = profiles /\ config' = config
      /\ member' = member /\ profile' = profile /\ tainted' = tainted
      /\ consented' = consented \cup
           (IF phase = "apply" /\ member # None /\ config # None /\ config.allow
              THEN {member.id} ELSE {})
  BY DEF Stop, Turn, files
<1>3. Left' = {} /\ Op' = "none"
  BY <1>2, ShortPlans DEF Left, Op
<1>4. consented \subseteq consented' /\ consented' \subseteq Ids
  BY <1>1, <1>2, MemberFields DEF TypeOK
<1>5. TypeOK'
  <2>1. count' \in 0..(Polls - 1) /\ Range(todo') \subseteq DOMAIN Entry
    BY <1>2, <1>3, UsersAssumption DEF Left
  <2> QED BY <1>1, <1>2, <1>4, <2>1 DEF TypeOK
<1>6. RequestsValid'
  <2> SUFFICES ASSUME NEW r \in late' PROVE ValidRequest(r)'
    BY DEF RequestsValid
  <2>1. ValidRequest(r)
    BY <1>1, RequestIs DEF RequestsValid
  <2> QED BY <1>4, <2>1 DEF ValidRequest
<1>7. Standing'
  <2>1. Orderly(todo')
    BY <1>2, ShortPlans
  <2>2. clear' /\ ~failed'
    BY <1>2
  <2> QED BY <1>2, <1>3, <2>1, <2>2 DEF Standing
<1>8. Prepared'
  BY <1>2, <1>3 DEF Prepared
<1>9. Consented'
  BY <1>1, <1>2, <1>4 DEF Consented
<1>10. ~Calm'
  BY <1>2 DEF Calm
<1> QED BY <1>5, <1>6, <1>7, <1>8, <1>9, <1>10
        DEF IInv, LateHarmless, MemberInSync, ProfileInSync

LEMMA EndRunKeeps ==
  ASSUME IInv, EndRun
  PROVE  IInv'
<1>1. Stop /\ late' = late /\ trouble' = trouble
  BY DEF EndRun
<1>2. trouble' \in 0..MaxTrouble
  BY <1>1 DEF IInv, TypeOK
<1> QED BY <1>1, <1>2, StopKeeps

LEMMA CrashKeeps ==
  ASSUME IInv, Crash
  PROVE  IInv'
<1>1. /\ Stop /\ Disturb
      /\ late' \in {late} \cup (IF pc \in DOMAIN After THEN {late \cup {Request}} ELSE {})
  BY DEF Crash
<1>2. trouble' \in 0..MaxTrouble
  BY <1>1, Disturbance DEF IInv
<1>3. DOMAIN After = {"rename", "remove", "patch"}
  BY DEF After
<1>4. \A r \in late' : r \in late \/ (pc \in {"rename", "remove", "patch"} /\ r = Request)
  BY <1>1, <1>3
<1> QED BY <1>1, <1>2, <1>4, StopKeeps

\* Nothing that is imported may be removed without a later word.
LEMMA ImportKeeps ==
  ASSUME IInv, Import
  PROVE  IInv'
<1>1. TypeOK /\ RequestsValid /\ Standing /\ Prepared /\ Consented
  BY DEF IInv
<1>2. /\ phase = "idle" /\ UNCHANGED <<portal, tainted, handler, failed, frame, trouble>>
  BY DEF Import
<1>3. /\ todo' = todo /\ pc' = pc /\ seen' = seen /\ sent' = sent /\ clear' = clear
      /\ count' = count /\ tainted' = tainted /\ failed' = failed /\ trouble' = trouble
      /\ users' = users /\ profiles' = profiles /\ late' = late
      /\ config' = config /\ phase' = phase /\ quiet' = quiet /\ consented' = consented
  BY <1>2 DEF portal, handler, frame
<1>4. todo = <<>> /\ pc = "done"
  BY <1>1, <1>2 DEF Standing, TypeOK
<1>5. Left = {} /\ Left' = {} /\ Op' = Op
  BY <1>3, <1>4, AtEnd DEF Left, Op
<1>6. /\ member' \in Members \cup {None}
      /\ member' = member \/ (member = None /\ ~member'.allow)
  <2>1. CASE /\ member = None
             /\ member' \in {Member(i, FALSE, FALSE) : i \in {j \in Ids : Active(j)}}
    <3>1. PICK i \in Ids : Active(i) /\ member' = Member(i, FALSE, FALSE)
      BY <2>1
    <3> QED BY <1>1, <2>1, <3>1, ActiveUser DEF Member
  <2>2. CASE UNCHANGED member
    BY <1>1, <2>2 DEF TypeOK
  <2> QED BY <2>1, <2>2 DEF Import
<1>7. profile' \in Owned \cup {None} /\ (profile' # None => profile'.values["hours"] # Garbled)
  <2>1. CASE \E c \in {d \in CrmIds : profiles[d] # None} :
             /\ Active(profiles[c].settings) /\ profiles[c].values["hours"] # Garbled
             /\ profile' = [id |-> c, member |-> profiles[c].settings,
                            values |-> ImportMask(profiles[c].values)]
    <3>1. PICK c \in CrmIds :
             /\ profiles[c] # None /\ profiles[c].values["hours"] # Garbled
             /\ profile' = [id |-> c, member |-> profiles[c].settings,
                            values |-> ImportMask(profiles[c].values)]
      BY <2>1
    <3>2. profiles[c] \in Profiles
      BY <1>1, <3>1 DEF TypeOK
    <3>3. profiles[c].settings \in Ids /\ profiles[c].values \in [Fields -> Values]
      BY <3>2 DEF Profiles
    <3>4. PICK v : v = ImportMask(profiles[c].values)
      OBVIOUS
    <3>5. v = [f \in Fields |-> IF Unset(f, profiles[c].values[f]) THEN None
                                ELSE profiles[c].values[f]]
      BY <3>4 DEF ImportMask
    <3>6. None \in Values /\ "hours" \in Fields /\ None # Garbled
      BY UsersAssumption DEF Values, Fields
    <3>7. v \in [Fields -> Values] /\ v["hours"] # Garbled
      BY <3>1, <3>3, <3>5, <3>6
    <3>8. profile' = [id |-> c, member |-> profiles[c].settings, values |-> v]
      BY <3>1, <3>4
    <3> QED BY <3>3, <3>7, <3>8 DEF Owned
  <2>2. CASE UNCHANGED profile
    BY <1>1, <2>2 DEF TypeOK
  <2> QED BY <2>1, <2>2 DEF Import
<1>8. TypeOK'
  <2>1. tainted' => member' # None
    BY <1>1, <1>3, <1>6 DEF TypeOK
  <2> QED BY <1>1, <1>3, <1>6, <1>7, <2>1 DEF TypeOK
<1>9. RequestsValid'
  BY <1>1, <1>3 DEF RequestsValid, ValidRequest
<1>10. Standing'
  BY <1>1, <1>3, <1>4, <1>5 DEF Standing
<1>11. Prepared'
  BY <1>2, <1>3, <1>4, <1>5 DEF Prepared
<1>12. Consented'
  BY <1>1, <1>2, <1>3, <1>4, <1>5, <1>6 DEF Consented
<1>13. ~Calm'
  BY <1>2, <1>3 DEF Calm
<1> QED BY <1>8, <1>9, <1>10, <1>11, <1>12, <1>13
        DEF IInv, LateHarmless, MemberInSync, ProfileInSync

LEMMA StutterKeeps ==
  ASSUME IInv, UNCHANGED vars
  PROVE  IInv'
<1>1. /\ users' = users /\ profiles' = profiles /\ late' = late
      /\ UNCHANGED <<files, handler, failed, frame, trouble>>
  BY DEF vars, portal
<1>2. /\ users' \in [Ids -> Persons \cup {None}]
      /\ profiles' \in [CrmIds -> Profiles \cup {None}]
  BY <1>1 DEF IInv, TypeOK
<1>3. \A i \in Ids : Active(i) <=> Active(i)'
  BY <1>1 DEF Active
<1> QED BY <1>1, <1>2, <1>3, GentleKeeps

----------------------------------------------------------------------------
(* The theorems.                                                           *)

\* The strengthened invariant holds in every state of every behaviour of the
\* two resources, the account, Terraform and everybody else.
THEOREM Invariance == Spec => []IInv
<1>1. Init => IInv
  BY InitHolds
<1>2. IInv /\ [Next]_vars => IInv'
  BY HandleKeeps, StartRunKeeps, PlanKeeps, EndRunKeeps, CrashKeeps, ImportKeeps,
     SettleKeeps, ForeignKeeps, ArriveLateKeeps, StutterKeeps DEF Next
<1> QED BY <1>1, <1>2, PTL DEF Spec

\* Every variable stays in its domain: no value that the provider does not
\* understand gets into state, no wait goes beyond its polls, and the reads and
\* writes of a run are made by handlers that the run planned.
THEOREM TypeCorrect == Spec => []TypeOK
<1>1. IInv => TypeOK
  BY DEF IInv
<1> QED BY <1>1, Invariance, PTL

\* A run that nobody disturbed and that reports no error has left the member
\* and its profile as asked for, whatever answers were lost on the way and
\* however late the requests of earlier runs took effect.
THEOREM SuccessVerified == Spec => []SuccessIsVerified
<1>1. IInv => SuccessIsVerified
  <2> SUFFICES ASSUME IInv, phase = "apply", todo = <<>>, quiet, ~failed
               PROVE  IF config = None THEN member = None /\ profile = None
                      ELSE /\ member # None /\ ~tainted /\ member.allow = config.allow
                           /\ Active(member.id) /\ users[member.id].email = config.email
                           /\ config.first \in {None, users[member.id].first}
                           /\ config.last \in {None, users[member.id].last}
                           /\ IF config.profile = None THEN profile = None
                              ELSE /\ profile # None /\ profile.member = member.id
                                   /\ profiles[profile.id] # None
                                   /\ profiles[profile.id].settings = member.id
                                   /\ \A f \in Managed(config.profile) :
                                        profiles[profile.id].values[f] = config.profile[f]
    BY DEF SuccessIsVerified
  <2>1. Calm /\ Left = {}
    BY AtEnd DEF Calm
  <2>2. IF Kept
          THEN /\ profile # None /\ profile.member = member.id
               /\ BelongsTo(profile.id, member.id)
               /\ \A f \in Managed(config.profile) :
                    profiles[profile.id].values[f] = config.profile[f]
          ELSE profile = None
    BY <2>1 DEF IInv, ProfileInSync
  <2>3. CASE config = None
    <3>1. member = None
      BY <2>1, <2>3 DEF IInv, MemberInSync
    <3> QED BY <2>2, <2>3, <3>1 DEF Kept
  <2>4. CASE config # None
    <3>1. member # None
      BY <2>1, <2>4 DEF IInv, Prepared
    <3>2. /\ ~tainted /\ Active(member.id) /\ users[member.id].email = config.email
          /\ member.allow = config.allow /\ NamedAs(member.id, config)
      BY <2>1, <2>4 DEF IInv, MemberInSync
    <3> QED BY <2>2, <2>4, <3>1, <3>2 DEF Kept, NamedAs, BelongsTo
  <2> QED BY <2>3, <2>4
<1> QED BY <1>1, Invariance, PTL

\* Of all requests only a removal ends a membership, that of its user.
LEMMA OnlyRemovalEnds ==
  ASSUME TypeOK, NEW r, ValidRequest(r), TakeEffect(r), NEW i \in Ids, Active(i), ~Active(i)'
  PROVE  r.kind = "remove" /\ i = r.id /\ r.id \in consented
<1>1. users'[i] # users[i]
  BY DEF Active
<1>2. r.kind # "patch"
  BY <1>1, EffectOfPatch
<1>3. r.kind # "create"
  BY <1>1, EffectOfCreate
<1>4. r.kind # "rename"
  BY <1>1, EffectOfRename DEF Active
<1>5. r.kind = "remove" /\ r.id \in consented
  BY <1>2, <1>3, <1>4 DEF ValidRequest
<1>6. r.id \in Ids
  BY <1>5 DEF TypeOK
<1> QED BY <1>1, <1>5, <1>6, EffectOfRemove

\* The provider ends a membership only if an earlier run was told that it may,
\* also when the request arrives after its run has ended; with nobody
\* interfering it is never that of a Super Admin, read once more just before.
THEOREM RemovalGuarded == Spec => RemovalIsGuarded
<1>1. IInv /\ [Next]_vars =>
        [\A i \in Ids : Active(i) /\ ~Active(i)' /\ trouble' = trouble =>
           i \in consented /\ (quiet /\ late' = late => ~users[i].super)]_vars
  <2> SUFFICES ASSUME IInv, Next, NEW i \in Ids, Active(i), ~Active(i)', trouble' = trouble
               PROVE  i \in consented /\ (quiet /\ late' = late => ~users[i].super)
    OBVIOUS
  <2>1. TypeOK
    BY DEF IInv
  <2>2. users'[i] # users[i]
    BY DEF Active
  <2>3. ~Disturb
    BY <2>1, UsersAssumption DEF TypeOK, Disturb
  <2>4. CASE CreateMember
    <3>1. PICK r : /\ r = [kind |-> "create", email |-> config.email,
                           first |-> IF config.first = None THEN Blank ELSE config.first,
                           last |-> IF config.last = None THEN Blank ELSE config.last]
      OBVIOUS
    <3>2. TakeEffect(r)
      BY <2>2, <2>3, <2>4, <3>1 DEF CreateMember, portal
    <3>3. pc = "create"
      BY <2>4 DEF CreateMember
    <3>4. ValidRequest(r)
      <4>1. config # None
        BY <3>3, Where DEF IInv, Prepared
      <4> QED BY <2>1, <3>1, <4>1, ConfigFields DEF ValidRequest, Names
    <3> QED BY <2>1, <3>1, <3>2, <3>4, OnlyRemovalEnds
  <2>5. CASE Write
    <3>1. PICK r : r = Request
      OBVIOUS
    <3>2. TakeEffect(r) /\ pc \in {"rename", "remove", "patch"}
      BY <2>2, <2>5, <3>1 DEF Write, After
    <3>3. ValidRequest(r) /\ r.kind = pc /\ (pc = "remove" => r.id = member.id)
      BY <3>1, <3>2, RequestIs
    <3>4. r.kind = "remove" /\ i = r.id /\ r.id \in consented
      BY <2>1, <3>2, <3>3, OnlyRemovalEnds
    <3>5. quiet => ~users[member.id].super
      BY <3>3, <3>4 DEF IInv, Consented
    <3> QED BY <3>3, <3>4, <3>5
  <2>6. CASE ArriveLate
    <3>1. PICK r \in late : late' = late \ {r} /\ TakeEffect(r)
      BY <2>2, <2>6 DEF ArriveLate
    <3>2. ValidRequest(r)
      BY <3>1 DEF IInv, RequestsValid
    <3>3. i \in consented
      BY <2>1, <3>1, <3>2, OnlyRemovalEnds
    <3>4. late' # late
      BY <3>1
    <3> QED BY <3>3, <3>4
  <2>7. CASE Settle
    <3>1. PICK j \in Ids : users[j].life = "leaving" /\ users' = [users EXCEPT ![j].life = "gone"]
      BY <2>2, <2>7 DEF Settle
    <3>2. users \in [Ids -> Persons \cup {None}]
      BY <2>1 DEF TypeOK
    <3>3. i = j
      BY <2>2, <3>1, <3>2
    <3> QED BY <3>1, <3>3 DEF Active
  <2>8. CASE ReadFails \/ WriteFails \/ Crash \/ Foreign
    BY <2>3, <2>8 DEF ReadFails, WriteFails, Crash, Foreign
  <2>9. CASE Reads \/ StartRun \/ Plan \/ EndRun \/ Import
    BY <2>2, <2>9 DEF Reads, StartRun, Plan, EndRun, Stop, Import, portal
  <2> QED BY <2>4, <2>5, <2>6, <2>7, <2>8, <2>9 DEF Next, Handle
<1> QED BY <1>1, Invariance, PTL DEF Spec, RemovalIsGuarded

\* What a request of a running handler does to the users of a run that nobody
\* disturbs, and to the CRM users.
LEMMA WritesOwn ==
  ASSUME IInv, quiet, pc \in {"rename", "remove", "patch"}, NEW r, r = Request, TakeEffect(r)
  PROVE  /\ \A i \in Ids : Active(i) /\ Active(i)' =>
              /\ users'[i].assigned = users[i].assigned
              /\ users'[i].first # users[i].first => users'[i].first = config.first
              /\ users'[i].last # users[i].last => users'[i].last = config.last
         /\ \A c \in CrmIds, f \in Fields :
              /\ profiles[c] # None /\ profiles'[c] # None
              /\ profiles'[c].values[f] # profiles[c].values[f]
              => profiles[c].settings = member.id /\ profiles'[c].values[f] = config.profile[f]
<1>1. TypeOK /\ Calm
  BY Where DEF IInv, Calm
<1>2. /\ ValidRequest(r) /\ r.kind = pc
      /\ pc = "rename" => r.id = member.id /\ r.first = seen.first /\ r.last = seen.last
      /\ pc = "remove" => r.id = member.id
      /\ pc = "patch" =>
           /\ r.id = seen.id
           /\ \A f \in Fields : r.values[f] = IF f \in sent THEN config.profile[f] ELSE None
  BY RequestIs
<1>3. CASE pc = "rename"
  <2>1. /\ profiles' = profiles /\ r.id \in Ids /\ Active(r.id)
        /\ users'[r.id].first = r.first /\ users'[r.id].last = r.last
        /\ users'[r.id].assigned \in {users[r.id].assigned, FALSE}
        /\ \A j \in Ids : j # r.id => users'[j] = users[j]
    BY <1>1, <1>2, <1>3, EffectOfRename
  <2>2. /\ ~users[member.id].assigned
        /\ seen.first \in {users[member.id].first, config.first}
        /\ seen.last \in {users[member.id].last, config.last}
    BY <1>1, <1>3 DEF IInv, MemberInSync
  <2>3. users[member.id].assigned = FALSE
    <3>1. users[member.id] \in Persons
      BY <1>1, <1>2, <1>3, <2>1, ActiveUser
    <3> QED BY <2>2, <3>1 DEF Persons
  <2> QED BY <1>2, <1>3, <2>1, <2>2, <2>3
<1>4. CASE pc = "remove"
  <2>1. r.id \in Ids
    BY <1>1, <1>2, <1>4 DEF ValidRequest, TypeOK
  <2>2. /\ profiles' = profiles /\ ~Active(r.id)'
        /\ \A j \in Ids : j # r.id => users'[j] = users[j]
    BY <1>1, <1>2, <1>4, <2>1, EffectOfRemove
  <2> QED BY <2>2
<1>5. CASE pc = "patch"
  <2>1. /\ users' = users
        /\ \A f \in Fields : profiles'[r.id].values[f] =
             IF r.values[f] = None THEN profiles[r.id].values[f] ELSE r.values[f]
        /\ \A c \in CrmIds : c # r.id => profiles'[c] = profiles[c]
    BY <1>1, <1>2, <1>5, EffectOfPatch
  <2>2. phase = "apply" /\ seen # None
    BY <1>5, Where, WhileManaging DEF IInv, Standing
  <2>3. profiles[seen.id].settings = member.id
    BY <1>1, <1>5, <2>2 DEF IInv, ProfileInSync, BelongsTo
  <2>4. ASSUME NEW c \in CrmIds, NEW f \in Fields, profiles'[c].values[f] # profiles[c].values[f]
        PROVE  profiles[c].settings = member.id /\ profiles'[c].values[f] = config.profile[f]
    <3>1. c = seen.id
      BY <1>2, <1>5, <2>1, <2>4
    <3>2. r.values[f] # None /\ profiles'[c].values[f] = r.values[f]
      BY <1>2, <1>5, <2>1, <2>4, <3>1
    <3> QED BY <1>2, <1>5, <2>3, <3>1, <3>2
  <2> QED BY <2>1, <2>4
<1> QED BY <1>3, <1>4, <1>5

\* A new profile is taken up only when it is the only one of the member.
LEMMA TakenUp ==
  ASSUME IInv, Next, quiet, pc' # pc, Op = "createProfile", profile' # profile
  PROVE  {c \in CrmIds : profiles[c] # None /\ profiles[c].settings = member.id} = {profile'.id}
<1>1. todo # <<>>
  BY AtEnd
<1>2. pc # "done"
  BY <1>1 DEF IInv, TypeOK
<1>3. Calm /\ phase = "apply" /\ pc \in {"check", "find", "fetch", "patch"}
  BY <1>1, <1>2, Where, WhileManaging DEF IInv, Calm, Standing, Stages
<1>4. Fetch
  <2>1. Reads
    BY <1>1, <1>3
       DEF Next, Handle, ReadFails, Fail, Write, WriteFails, Written, Goto, CreateMember,
           StartRun, Plan, EndRun, Crash, Stop, Import, Settle, Foreign, ArriveLate, files, handler
  <2>2. CASE CheckMember
    BY <2>2 DEF CheckMember, NotFound, Fail, Goto, files
  <2>3. CASE Find
    BY <2>3 DEF Find, AgainOrFail, Again, Fail, Goto, files
  <2> QED BY <1>3, <2>1, <2>2, <2>3
          DEF Reads, ReadMember, VerifyMember, Look, LookEmail, Guard, GuardEmail,
              WaitForAbsence, DropProfile
<1>5. pc = "fetch" /\ seen # None /\ seen \in Sight
  BY <1>4 DEF Fetch, IInv, Standing
<1>6. /\ BelongsTo(seen.id, member.id)
      /\ \A c \in CrmIds : BelongsTo(c, member.id) => c = seen.id
  BY <1>3, <1>5 DEF IInv, ProfileInSync
<1>7. seen.id \in CrmIds
  BY <1>5 DEF Sight, Sights
<1>8. profile' = ProfileModel(Known(seen.id))
  BY <1>4, <1>5 DEF Fetch, NotFound, Fail, Reconcile, SetProfile, files
<1>9. profile'.id = seen.id
  BY <1>8 DEF ProfileModel, Known
<1> QED BY <1>6, <1>7, <1>9 DEF BelongsTo

\* What nobody but the provider touches is touched only as far as it is
\* managed: no name that is left out, no role or team, no profile of somebody
\* else, and no profile property that the configuration does not name.
THEOREM OthersUntouched == Spec => NothingElseTouched
<1>1. IInv /\ [Next]_vars =>
  [quiet /\ pc' # pc =>
       /\ \A i \in Ids : Active(i) /\ Active(i)' =>
            /\ users'[i].assigned = users[i].assigned
            /\ users'[i].first # users[i].first => users'[i].first = config.first
            /\ users'[i].last # users[i].last => users'[i].last = config.last
       /\ \A c \in CrmIds, f \in Fields :
            /\ profiles[c] # None /\ profiles'[c] # None
            /\ profiles'[c].values[f] # profiles[c].values[f]
            => profiles[c].settings = member.id /\ profiles'[c].values[f] = config.profile[f]
       /\ Op = "createProfile" /\ profile' # profile =>
            {c \in CrmIds : profiles[c] # None /\ profiles[c].settings = member.id}
              = {profile'.id}]_vars
  <2> SUFFICES ASSUME IInv, Next, quiet, pc' # pc
      PROVE
       /\ \A i \in Ids : Active(i) /\ Active(i)' =>
            /\ users'[i].assigned = users[i].assigned
            /\ users'[i].first # users[i].first => users'[i].first = config.first
            /\ users'[i].last # users[i].last => users'[i].last = config.last
       /\ \A c \in CrmIds, f \in Fields :
            /\ profiles[c] # None /\ profiles'[c] # None
            /\ profiles'[c].values[f] # profiles[c].values[f]
            => profiles[c].settings = member.id /\ profiles'[c].values[f] = config.profile[f]
       /\ Op = "createProfile" /\ profile' # profile =>
            {c \in CrmIds : profiles[c] # None /\ profiles[c].settings = member.id}
              = {profile'.id}
    OBVIOUS
  <2>1. TypeOK
    BY DEF IInv
  <2>2. CASE users' = users /\ profiles' = profiles
    BY <2>2, TakenUp
  <2>3. CASE CreateMember
    <3>1. PICK r : /\ r = [kind |-> "create", email |-> config.email,
                           first |-> IF config.first = None THEN Blank ELSE config.first,
                           last |-> IF config.last = None THEN Blank ELSE config.last]
      OBVIOUS
    <3>2. TakeEffect(r) \/ (users' = users /\ profiles' = profiles)
      BY <2>3, <3>1 DEF CreateMember, portal
    <3>3. pc = "create"
      BY <2>3 DEF CreateMember
    <3>4. ValidRequest(r)
      <4>1. config # None
        BY <3>3, Where DEF IInv, Prepared
      <4> QED BY <2>1, <3>1, <4>1, ConfigFields DEF ValidRequest, Names
    <3>5. CASE TakeEffect(r)
      <4>1. /\ profiles' = profiles
            /\ \E i \in Ids : ~Active(i) /\ \A j \in Ids : j # i => users'[j] = users[j]
        BY <2>1, <3>1, <3>4, <3>5, EffectOfCreate
      <4>2. \A i \in Ids : Active(i) => users'[i] = users[i]
        BY <4>1
      <4> QED BY <4>1, <4>2, TakenUp
    <3> QED BY <2>2, <3>2, <3>5
  <2>4. CASE Write \/ WriteFails
    <3>1. PICK r : r = Request
      OBVIOUS
    <3>2. /\ pc \in {"rename", "remove", "patch"}
          /\ TakeEffect(r) \/ (users' = users /\ profiles' = profiles)
      BY <2>4, <3>1 DEF Write, WriteFails, After, portal
    <3>3. CASE TakeEffect(r)
      BY <3>1, <3>2, <3>3, WritesOwn, TakenUp
    <3> QED BY <2>2, <3>2, <3>3
  <2>5. CASE Reads \/ ReadFails \/ StartRun \/ Plan \/ EndRun \/ Crash
    <3>1. users' = users /\ profiles' = profiles
      BY <2>5 DEF Reads, ReadFails, StartRun, Plan, EndRun, Crash, Stop, portal
    <3> QED BY <2>2, <3>1
  <2>6. CASE Import \/ Settle \/ Foreign \/ ArriveLate
    BY <2>6 DEF Import, Settle, Foreign, ArriveLate, handler
  <2> QED BY <2>3, <2>4, <2>5, <2>6 DEF Next, Handle
<1> QED BY <1>1, Invariance, PTL DEF Spec, NothingElseTouched

----------------------------------------------------------------------------
(* Working hours: ways to put a list in order.                             *)

LEMMA LeastExists ==
  ASSUME NEW S \in SUBSET Nat, S # {}
  PROVE  \E x \in S : \A y \in S : x <= y
<1>1. PICK x \in S : \A y \in S : ~(<<y, x>> \in OpToRel(<, Nat))
  BY WFMin, NatLessThanWellFounded
<1>2. \A y \in S : ~(y < x)
  BY <1>1 DEF OpToRel
<1> QED BY <1>2

\* The sequences of the members of a finite set name each of them once.
LEMMA ListingNamesAll ==
  ASSUME NEW T, IsFiniteSet(T), NEW p \in SetToSeqs(T)
  PROVE  /\ Cardinality(T) \in Nat /\ DOMAIN p = 1..Cardinality(T)
         /\ p \in [1..Cardinality(T) -> T]
         /\ \A k, l \in 1..Cardinality(T) : k # l => p[k] # p[l]
         /\ \A x \in T : \E k \in 1..Cardinality(T) : p[k] = x
<1> DEFINE n == Cardinality(T)
<1>1. n \in Nat /\ p \in [1..n -> T] /\ \A k, l \in 1..n : k # l => p[k] # p[l]
  BY FS_CardinalityType DEF SetToSeqs
<1>2. ASSUME NEW x \in T, ~ \E k \in 1..n : p[k] = x PROVE FALSE
  <2>1. p \in [1..n -> T \ {x}]
    BY <1>1, <1>2
  <2>2. IsFiniteSet(T \ {x}) /\ Cardinality(T \ {x}) = n - 1
    BY FS_RemoveElement
  <2>3. IsFiniteSet(1..n) /\ Cardinality(1..n) = n
    BY <1>1, FS_Interval
  <2> HIDE DEF n
  <2>4. Cardinality(T \ {x}) < Cardinality(1..n)
    BY <1>1, <2>2, <2>3
  <2> QED BY <1>1, <2>1, <2>2, <2>3, <2>4, FS_PigeonHole
<1> QED BY <1>1, <1>2

\* Whatever the order, there is a way to list a finite set in it.
LEMMA OrderHasListing ==
  ASSUME NEW T, IsFiniteSet(T), NEW R,
         \A x, y \in T : <<x, y>> \in R => <<y, x>> \notin R,
         \A x, y \in T : x # y => <<x, y>> \in R \/ <<y, x>> \in R,
         \A x, y, z \in T : <<x, y>> \in R /\ <<y, z>> \in R => <<x, z>> \in R
  PROVE  \E p \in SetToSeqs(T) : \A k, l \in DOMAIN p : k < l => <<p[l], p[k]>> \notin R
<1> DEFINE n == Cardinality(T)
           B(x) == {y \in T : y = x \/ <<y, x>> \in R}
           rank == [x \in T |-> Cardinality(B(x))]
<1>1. n \in Nat /\ IsFiniteSet(1..n) /\ Cardinality(1..n) = n
  BY FS_CardinalityType, FS_Interval
<1>2. ASSUME NEW x \in T PROVE rank[x] \in 1..n /\ IsFiniteSet(B(x))
  <2>1. B(x) \in SUBSET T /\ {x} \in SUBSET B(x)
    OBVIOUS
  <2> HIDE DEF B
  <2>2. IsFiniteSet(B(x)) /\ Cardinality(B(x)) <= n /\ Cardinality(B(x)) \in Nat
    BY <2>1, FS_Subset, FS_CardinalityType
  <2>3. Cardinality({x}) <= Cardinality(B(x)) /\ Cardinality({x}) = 1
    BY <2>1, <2>2, FS_Subset, FS_Singleton
  <2>4. Cardinality(B(x)) \in 1..n
    BY <1>1, <2>2, <2>3
  <2> QED BY <2>2, <2>4
<1>3. ASSUME NEW x \in T, NEW y \in T, <<x, y>> \in R PROVE rank[x] < rank[y]
  <2>1. B(x) \in SUBSET B(y) /\ y \in B(y) /\ y \notin B(x)
    BY <1>3
  <2>2. IsFiniteSet(B(y)) /\ rank[x] \in Nat /\ rank[y] \in Nat
    BY <1>2
  <2> HIDE DEF B
  <2>3. Cardinality(B(x)) <= Cardinality(B(y)) /\ Cardinality(B(x)) # Cardinality(B(y))
    BY <2>1, <2>2, FS_Subset
  <2> QED BY <2>2, <2>3
<1> HIDE DEF B
<1>4. rank \in [T -> 1..n] /\ \A x, y \in T : x # y => rank[x] # rank[y]
  <2>1. ASSUME NEW x \in T, NEW y \in T, x # y PROVE rank[x] # rank[y]
    <3>1. rank[x] \in Int /\ rank[y] \in Int
      BY <1>2
    <3>2. rank[x] < rank[y] \/ rank[y] < rank[x]
      BY <1>3, <2>1
    <3> HIDE DEF rank
    <3> QED BY <3>1, <3>2
  <2> QED BY <1>2, <2>1
<1> HIDE DEF rank
<1>5. ASSUME NEW k \in 1..n PROVE \E x \in T : rank[x] = k
  <2> SUFFICES ASSUME ~ \E x \in T : rank[x] = k PROVE FALSE
    OBVIOUS
  <2>1. rank \in [T -> (1..n) \ {k}]
    BY <1>4
  <2>2. IsFiniteSet((1..n) \ {k}) /\ Cardinality((1..n) \ {k}) = n - 1
    BY <1>1, FS_RemoveElement
  <2>3. Cardinality((1..n) \ {k}) < Cardinality(T)
    BY <1>1, <2>2
  <2> QED BY <1>4, <2>1, <2>2, <2>3, FS_PigeonHole
<1> DEFINE p == [k \in 1..n |-> CHOOSE x \in T : rank[x] = k]
<1>6. \A k \in 1..n : p[k] \in T /\ rank[p[k]] = k
  BY <1>5
<1>7. DOMAIN p = 1..n
  OBVIOUS
<1>8. p \in [1..n -> T]
  BY <1>6
<1> HIDE DEF p
<1>9. p \in SetToSeqs(T)
  BY <1>6, <1>8 DEF SetToSeqs
<1>10. ASSUME NEW k \in DOMAIN p, NEW l \in DOMAIN p, k < l PROVE <<p[l], p[k]>> \notin R
  <2>1. /\ p[k] \in T /\ p[l] \in T /\ rank[p[k]] = k /\ rank[p[l]] = l
        /\ k \in Int /\ l \in Int
    BY <1>6, <1>7
  <2>2. ~(rank[p[l]] < rank[p[k]])
    BY <1>10, <2>1
  <2> QED BY <1>3, <2>1, <2>2
<1> QED BY <1>9, <1>10

\* There is only one such way.
LEMMA ListingIsUnique ==
  ASSUME NEW T, IsFiniteSet(T), NEW R, NEW p \in SetToSeqs(T), NEW q \in SetToSeqs(T),
         \A x, y \in T : <<x, y>> \in R => <<y, x>> \notin R,
         \A x, y \in T : x # y => <<x, y>> \in R \/ <<y, x>> \in R,
         \A k, l \in DOMAIN p : k < l => <<p[l], p[k]>> \notin R,
         \A k, l \in DOMAIN q : k < l => <<q[l], q[k]>> \notin R
  PROVE  p = q
<1> DEFINE n == Cardinality(T)
           Differ == {k \in 1..n : p[k] # q[k]}
<1>1. /\ n \in Nat /\ DOMAIN p = 1..n /\ DOMAIN q = 1..n
      /\ p \in [1..n -> T] /\ q \in [1..n -> T]
      /\ \A k, l \in 1..n : k # l => p[k] # p[l] /\ q[k] # q[l]
      /\ \A x \in T : (\E k \in 1..n : p[k] = x) /\ (\E k \in 1..n : q[k] = x)
  BY ListingNamesAll
<1> HIDE DEF n
<1>2. ASSUME Differ # {} PROVE FALSE
  <2>1. Differ \in SUBSET Nat
    BY <1>1
  <2>2. PICK k \in Differ : \A l \in Differ : k <= l
    BY <1>2, <2>1, LeastExists
  <2>3. k \in 1..n /\ p[k] # q[k] /\ \A l \in 1..n : l < k => p[l] = q[l]
    BY <1>1, <2>2
  <2>4. PICK l \in 1..n : q[l] = p[k]
    BY <1>1, <2>3
  <2>5. PICK m \in 1..n : p[m] = q[k]
    BY <1>1, <2>3
  <2>6. l # k /\ ~(l < k)
    BY <1>1, <2>3, <2>4
  <2>7. m # k /\ ~(m < k)
    BY <1>1, <2>3, <2>5
  <2>8. k < l /\ k < m
    BY <1>1, <2>3, <2>6, <2>7
  <2>9. <<p[k], q[k]>> \notin R /\ <<q[k], p[k]>> \notin R
    BY <1>1, <2>3, <2>4, <2>5, <2>8
  <2> QED BY <1>1, <2>3, <2>9
<1>3. \A k \in 1..n : p[k] = q[k]
  BY <1>2
<1> QED BY <1>1, <1>3

----------------------------------------------------------------------------
(* Working hours: what is checked, and what is written.                    *)

\* The intervals of a list are sensible each for itself.
Fitting(hours) ==
  \A i \in DOMAIN hours : /\ hours[i].days \in DOMAIN Rank /\ 0 <= hours[i].start
                          /\ hours[i].start < hours[i].end /\ hours[i].end <= 1440

LEMMA RankIsPosition ==
  \A w \in DOMAIN Rank : Rank[w] \in 1..10 /\ Words[Rank[w]] = w
<1>1. \A w \in Range(Words) : \E i \in 1..10 : Words[i] = w
  BY DEF Words, Range
<1> QED BY <1>1 DEF Rank

LEMMA ExpandedIsDays ==
  /\ DOMAIN Expanded = DOMAIN Rank
  /\ \A w \in DOMAIN Rank : Expanded[w] \subseteq 1..7 /\ Expanded[w] # {}
<1> SUFFICES ASSUME NEW w \in DOMAIN Rank PROVE Expanded[w] \subseteq 1..7 /\ Expanded[w] # {}
  BY DEF Expanded
<1>1. CASE w \in {"EVERY_DAY", "MONDAY_TO_FRIDAY", "SATURDAY_SUNDAY"}
  BY <1>1 DEF Expanded
<1>2. CASE w \notin {"EVERY_DAY", "MONDAY_TO_FRIDAY", "SATURDAY_SUNDAY"}
  <2>1. Expanded[w] = {Rank[w]}
    BY <1>2 DEF Expanded
  <2>2. Rank[w] \in 1..10 /\ Words[Rank[w]] = w
    BY RankIsPosition
  <2>3. \A i \in 8..10 : Words[i] \in {"EVERY_DAY", "MONDAY_TO_FRIDAY", "SATURDAY_SUNDAY"}
    BY DEF Words
  <2>4. Rank[w] \in 1..7
    BY <1>2, <2>2, <2>3
  <2> QED BY <2>1, <2>4
<1> QED BY <1>1, <1>2

LEMMA ListsAreLists ==
  ASSUME NEW hours \in Lists
  PROVE  /\ \E n \in Nat : DOMAIN hours = 1..n
         /\ DOMAIN hours \in SUBSET Nat /\ IsFiniteSet(DOMAIN hours)
         /\ \A i \in DOMAIN hours : /\ hours[i] \in Intervals
                                    /\ hours[i].start \in Int /\ hours[i].end \in Int
<1>1. PICK n \in 0..Most : hours \in [1..n -> Intervals]
  BY DEF Lists
<1>2. IsFiniteSet(1..n)
  BY FS_Interval
<1> QED BY <1>1, <1>2, HoursAssumption

\* The intervals of a day can always be put in turn.
LEMMA SomeTurn ==
  ASSUME NEW hours \in Lists, NEW d
  PROVE  InTurn(hours, d) # {}
<1> DEFINE T == ByDay(hours, d)
           R == {q \in T \X T :
                  \/ Sooner(hours[q[1]], hours[q[2]])
                  \/ ~Sooner(hours[q[2]], hours[q[1]]) /\ q[1] < q[2]}
<1>1. T \in SUBSET DOMAIN hours /\ T \in SUBSET Nat
  BY ListsAreLists DEF ByDay
<1>2. IsFiniteSet(T)
  BY <1>1, ListsAreLists, FS_Subset
<1>3. \A x \in T : hours[x].start \in Int /\ hours[x].end \in Int /\ x \in Int
  BY <1>1, ListsAreLists
<1>4. \A x, y \in T : <<x, y>> \in R <=> \/ Sooner(hours[x], hours[y])
                                         \/ ~Sooner(hours[y], hours[x]) /\ x < y
  OBVIOUS
<1> HIDE DEF R, T
<1>5. \A x, y \in T : <<x, y>> \in R => <<y, x>> \notin R
  BY <1>3, <1>4 DEF Sooner
<1>6. \A x, y \in T : x # y => <<x, y>> \in R \/ <<y, x>> \in R
  BY <1>3, <1>4 DEF Sooner
<1>7. \A x, y, z \in T : <<x, y>> \in R /\ <<y, z>> \in R => <<x, z>> \in R
  BY <1>3, <1>4 DEF Sooner
<1>8. PICK p \in SetToSeqs(T) : \A k, l \in DOMAIN p : k < l => <<p[l], p[k]>> \notin R
  BY <1>2, <1>5, <1>6, <1>7, OrderHasListing
<1>9. \A k \in DOMAIN p : p[k] \in T
  BY <1>2, ListingNamesAll
<1>10. \A k, l \in DOMAIN p : k < l => ~Sooner(hours[p[l]], hours[p[k]])
  BY <1>4, <1>8, <1>9
<1> QED BY <1>8, <1>10 DEF InTurn, T

\* When each interval begins after the one before it, it begins after all of
\* those before it.
LEMMA NeighboursSuffice ==
  ASSUME NEW hours \in Lists, Fitting(hours), NEW d, NEW p \in InTurn(hours, d),
         \A k \in DOMAIN p \ {1} : hours[p[k]].start >= hours[p[k - 1]].end
  PROVE  \A k, l \in DOMAIN p : k < l => hours[p[l]].start >= hours[p[k]].end
<1> DEFINE n == Cardinality(ByDay(hours, d))
           s(k) == hours[p[k]].start
           e(k) == hours[p[k]].end
           Late == {l \in 1..n : \E k \in 1..n : k < l /\ ~(s(l) >= e(k))}
<1>1. /\ IsFiniteSet(ByDay(hours, d)) /\ ByDay(hours, d) \subseteq DOMAIN hours
      /\ p \in SetToSeqs(ByDay(hours, d))
  BY ListsAreLists, FS_Subset DEF ByDay, InTurn
<1>2. n \in Nat /\ DOMAIN p = 1..n /\ \A k \in 1..n : p[k] \in DOMAIN hours
  BY <1>1, ListingNamesAll
<1>3. \A k \in 1..n : s(k) \in Int /\ e(k) \in Int /\ s(k) < e(k)
  BY <1>2, ListsAreLists DEF Fitting
<1>4. \A k \in 1..n : k # 1 => s(k) >= e(k - 1)
  BY <1>2
<1> HIDE DEF n, s, e
<1>5. ASSUME Late # {} PROVE FALSE
  <2>1. Late \in SUBSET Nat
    BY <1>2
  <2>2. PICK l \in Late : \A m \in Late : l <= m
    BY <1>5, <2>1, LeastExists
  <2>3. PICK k \in 1..n : k < l /\ ~(s(l) >= e(k))
    BY <2>2
  <2>4. l \in 1..n /\ l - 1 \in 1..n /\ l # 1 /\ l - 1 \notin Late
    BY <1>2, <2>2, <2>3
  <2>5. k < l - 1
    BY <1>2, <1>4, <2>3, <2>4
  <2>6. s(l - 1) >= e(k)
    BY <1>2, <2>3, <2>4, <2>5
  <2>7. s(l) >= e(l - 1) /\ s(l - 1) < e(l - 1)
    BY <1>3, <1>4, <2>4
  <2>8. /\ s(l) \in Int /\ e(k) \in Int /\ s(l - 1) \in Int /\ e(l - 1) \in Int
    BY <1>3, <2>3, <2>4
  <2> QED BY <2>3, <2>6, <2>7, <2>8
<1>6. \A k, l \in 1..n : k < l => s(l) >= e(k)
  BY <1>5
<1> QED BY <1>2, <1>6 DEF s, e

\* What Neighbours and Sensible say of two intervals of a list that are
\* sensible each for itself.
LEMMA NeighboursOrMeet ==
  ASSUME NEW hours \in Lists, Fitting(hours)
  PROVE  (\A d \in 1..7 : Neighbours(hours, d))
           <=> (\A i, j \in DOMAIN hours : i # j => ~Meet(hours[i], hours[j]))
<1>1. /\ IsFiniteSet(DOMAIN hours)
      /\ \A i \in DOMAIN hours : hours[i].start \in Int /\ hours[i].end \in Int
  BY ListsAreLists
<1>2. \A d : ByDay(hours, d) \subseteq DOMAIN hours /\ IsFiniteSet(ByDay(hours, d))
  BY <1>1, FS_Subset DEF ByDay
<1>3. ASSUME \A d \in 1..7 : Neighbours(hours, d),
             NEW i \in DOMAIN hours, NEW j \in DOMAIN hours, i # j, Meet(hours[i], hours[j])
      PROVE  FALSE
  <2>1. PICK d : d \in Expanded[hours[i].days] \cap Expanded[hours[j].days]
    BY <1>3 DEF Meet
  <2>2. d \in 1..7
    BY <2>1, ExpandedIsDays DEF Fitting
  <2>3. i \in ByDay(hours, d) /\ j \in ByDay(hours, d)
    BY <2>1 DEF ByDay
  <2>4. PICK p \in InTurn(hours, d) : TRUE
    BY SomeTurn
  <2>5. p \in SetToSeqs(ByDay(hours, d))
    BY DEF InTurn
  <2>6. \A k \in DOMAIN p \ {1} : hours[p[k]].start >= hours[p[k - 1]].end
    BY <1>3, <2>2 DEF Neighbours
  <2>7. \A k, l \in DOMAIN p : k < l => hours[p[l]].start >= hours[p[k]].end
    BY <2>6, NeighboursSuffice
  <2>8. PICK k \in DOMAIN p : p[k] = i
    BY <1>2, <2>3, <2>5, ListingNamesAll
  <2>9. PICK l \in DOMAIN p : p[l] = j
    BY <1>2, <2>3, <2>5, ListingNamesAll
  <2>10. k \in Int /\ l \in Int
    BY <1>2, <2>5, ListingNamesAll
  <2>11. k < l \/ l < k
    BY <1>3, <2>8, <2>9, <2>10
  <2>12. hours[j].start >= hours[i].end \/ hours[i].start >= hours[j].end
    BY <2>7, <2>8, <2>9, <2>11
  <2> QED BY <1>1, <1>3, <2>12 DEF Meet
<1>4. ASSUME \A i, j \in DOMAIN hours : i # j => ~Meet(hours[i], hours[j]),
             NEW d \in 1..7, NEW p \in InTurn(hours, d), NEW k \in DOMAIN p \ {1}
      PROVE  hours[p[k]].start >= hours[p[k - 1]].end
  <2>1. p \in SetToSeqs(ByDay(hours, d))
    BY DEF InTurn
  <2>2. /\ k \in Int /\ k - 1 \in DOMAIN p /\ k - 1 < k
        /\ p[k] \in ByDay(hours, d) /\ p[k - 1] \in ByDay(hours, d) /\ p[k] # p[k - 1]
    BY <1>2, <2>1, ListingNamesAll
  <2>3. d \in Expanded[hours[p[k]].days] \cap Expanded[hours[p[k - 1]].days]
    BY <2>2 DEF ByDay
  <2>4. ~Meet(hours[p[k]], hours[p[k - 1]])
    BY <1>2, <1>4, <2>2
  <2>5. ~Sooner(hours[p[k]], hours[p[k - 1]])
    BY <2>2 DEF InTurn
  <2> QED BY <1>1, <1>2, <2>2, <2>3, <2>4, <2>5 DEF Meet, Sooner, Fitting
<1> QED BY <1>3, <1>4 DEF Neighbours

LEMMA MinutesOfADay ==
  \A a, b \in Int : {a, b} \subseteq 0..1440 /\ b > a <=> 0 <= a /\ a < b /\ b <= 1440
OBVIOUS

\* Whatever the list, and for whatever groups of days its intervals are, the
\* comparison of neighbours refuses it exactly when two of them meet.
THEOREM OverlapsAlwaysFound == OverlapsAreFound
<1> SUFFICES ASSUME NEW hours \in Lists PROVE Valid(hours) <=> Sensible(hours)
  BY DEF OverlapsAreFound
<1>1. \A i \in DOMAIN hours : hours[i].start \in Int /\ hours[i].end \in Int
  BY ListsAreLists
<1>2. (\A h \in Range(hours) : /\ h.days \in DOMAIN Expanded
                               /\ {h.start, h.end} \subseteq 0..1440
                               /\ h.end > h.start)
        <=> Fitting(hours)
  <2>1. \A i \in DOMAIN hours :
          hours[i].days \in DOMAIN Expanded /\ {hours[i].start, hours[i].end} \subseteq 0..1440
              /\ hours[i].end > hours[i].start
            <=> hours[i].days \in DOMAIN Rank /\ 0 <= hours[i].start
                /\ hours[i].start < hours[i].end /\ hours[i].end <= 1440
    <3> TAKE i \in DOMAIN hours
    <3> DEFINE a == hours[i].start
               b == hours[i].end
    <3>1. a \in Int /\ b \in Int
      BY <1>1
    <3>2. DOMAIN Expanded = DOMAIN Rank
      BY ExpandedIsDays
    <3> HIDE DEF a, b
    <3>3. {a, b} \subseteq 0..1440 /\ b > a <=> 0 <= a /\ a < b /\ b <= 1440
      BY <3>1, MinutesOfADay
    <3>4. hours[i].days \in DOMAIN Expanded /\ {a, b} \subseteq 0..1440 /\ b > a
            <=> hours[i].days \in DOMAIN Rank /\ 0 <= a /\ a < b /\ b <= 1440
      BY <3>2, <3>3
    <3> QED BY <3>4 DEF a, b
  <2> QED BY <2>1 DEF Fitting, Range
<1>3. (\A h \in Range(hours) : h.days \in DOMAIN Expanded /\ 0 <= h.start
                               /\ h.start < h.end /\ h.end <= 1440)
        <=> Fitting(hours)
  BY <1>1, ExpandedIsDays DEF Fitting, Range
<1> QED BY <1>2, <1>3, NeighboursOrMeet DEF Valid, Sensible

\* Before puts the intervals of a list that passes in one order.
LEMMA BeforeIsStrict ==
  ASSUME NEW hours \in Lists, Valid(hours)
  PROVE  /\ \A i, j \in DOMAIN hours :
              /\ Before(hours[i], hours[j]) => ~Before(hours[j], hours[i])
              /\ i # j => Before(hours[i], hours[j]) \/ Before(hours[j], hours[i])
         /\ \A i, j, k \in DOMAIN hours :
              Before(hours[i], hours[j]) /\ Before(hours[j], hours[k])
                => Before(hours[i], hours[k])
<1> DEFINE rank(i) == Rank[hours[i].days]
<1>1. \A i \in DOMAIN hours : hours[i].start \in Int /\ hours[i].end \in Int
  BY ListsAreLists
<1>2. Sensible(hours)
  BY OverlapsAlwaysFound DEF OverlapsAreFound
<1>3. \A i \in DOMAIN hours : hours[i].days \in DOMAIN Rank /\ hours[i].start < hours[i].end
  BY <1>2, ExpandedIsDays DEF Sensible, Range
<1>4. /\ \A i \in DOMAIN hours : rank(i) \in Int
      /\ \A i, j \in DOMAIN hours : rank(i) = rank(j) => hours[i].days = hours[j].days
  BY <1>3, RankIsPosition
<1>5. \A i, j \in DOMAIN hours :
        Before(hours[i], hours[j])
          <=> \/ rank(i) < rank(j)
              \/ hours[i].days = hours[j].days /\ Sooner(hours[i], hours[j])
  BY DEF Before
<1>6. \A i, j \in DOMAIN hours : hours[i].days = hours[j].days => rank(i) = rank(j)
  OBVIOUS
<1> HIDE DEF rank
<1>7. ASSUME NEW i \in DOMAIN hours, NEW j \in DOMAIN hours, i # j
      PROVE  Before(hours[i], hours[j]) \/ Before(hours[j], hours[i])
  <2>1. CASE rank(i) # rank(j)
    BY <1>4, <1>5, <2>1
  <2>2. CASE rank(i) = rank(j)
    <3>1. hours[i].days = hours[j].days
      BY <1>4, <2>2
    <3>2. Expanded[hours[i].days] \cap Expanded[hours[j].days] # {}
      BY <1>3, <3>1, ExpandedIsDays
    <3>3. ~(hours[i].start < hours[j].end /\ hours[j].start < hours[i].end)
      BY <1>2, <1>7, <3>2 DEF Sensible, Meet
    <3>4. hours[i].start < hours[j].start \/ hours[j].start < hours[i].start
      BY <1>1, <1>3, <3>3
    <3> QED BY <1>5, <3>1, <3>4 DEF Sooner
  <2> QED BY <2>1, <2>2
<1>8. \A i, j \in DOMAIN hours : Before(hours[i], hours[j]) => ~Before(hours[j], hours[i])
  BY <1>1, <1>4, <1>5, <1>6 DEF Sooner
<1>9. ASSUME NEW i \in DOMAIN hours, NEW j \in DOMAIN hours, NEW k \in DOMAIN hours,
             Before(hours[i], hours[j]), Before(hours[j], hours[k])
      PROVE  Before(hours[i], hours[k])
  BY <1>1, <1>4, <1>5, <1>6, <1>9 DEF Sooner
<1> QED BY <1>7, <1>8, <1>9

\* The places of a list, put in one order and then in another.
LEMMA ListingsCompose ==
  ASSUME NEW n \in Nat, NEW p \in SetToSeqs(1..n), NEW q \in SetToSeqs(1..n)
  PROVE  /\ [i \in 1..n |-> p[q[i]]] \in SetToSeqs(1..n)
         /\ \E r \in SetToSeqs(1..n) : \A i \in 1..n : p[r[i]] = q[i]
<1>1. IsFiniteSet(1..n) /\ Cardinality(1..n) = n
  BY FS_Interval
<1>2. /\ p \in [1..n -> 1..n] /\ \A k, l \in 1..n : k # l => p[k] # p[l]
      /\ q \in [1..n -> 1..n] /\ \A k, l \in 1..n : k # l => q[k] # q[l]
      /\ \A x \in 1..n : \E k \in 1..n : p[k] = x
  <2> DEFINE T == 1..n
  <2>1. IsFiniteSet(T) /\ Cardinality(T) = n /\ 1..n = T
    BY <1>1
  <2>2. p \in SetToSeqs(T) /\ q \in SetToSeqs(T)
    OBVIOUS
  <2> HIDE DEF T
  <2>3. /\ p \in [1..Cardinality(T) -> T]
        /\ \A k, l \in 1..Cardinality(T) : k # l => p[k] # p[l]
        /\ \A x \in T : \E k \in 1..Cardinality(T) : p[k] = x
    BY <2>1, <2>2, ListingNamesAll
  <2>4. /\ q \in [1..Cardinality(T) -> T]
        /\ \A k, l \in 1..Cardinality(T) : k # l => q[k] # q[l]
    BY <2>1, <2>2, ListingNamesAll
  <2> QED BY <2>1, <2>3, <2>4
<1>3. \A f \in [1..n -> 1..n] :
        (\A k, l \in 1..n : k # l => f[k] # f[l]) => f \in SetToSeqs(1..n)
  BY <1>1 DEF SetToSeqs
<1>4. [i \in 1..n |-> p[q[i]]] \in SetToSeqs(1..n)
  <2> DEFINE f == [i \in 1..n |-> p[q[i]]]
  <2>1. f \in [1..n -> 1..n] /\ \A k, l \in 1..n : k # l => f[k] # f[l]
    BY <1>2
  <2> QED BY <1>3, <2>1
<1>5. \E r \in SetToSeqs(1..n) : \A i \in 1..n : p[r[i]] = q[i]
  <2> DEFINE r == [i \in 1..n |-> CHOOSE k \in 1..n : p[k] = q[i]]
  <2>1. \A i \in 1..n : r[i] \in 1..n /\ p[r[i]] = q[i]
    BY <1>2
  <2>2. r \in [1..n -> 1..n]
    BY <2>1
  <2> HIDE DEF r
  <2>3. ASSUME NEW k \in 1..n, NEW l \in 1..n, k # l PROVE r[k] # r[l]
    <3>1. p[r[k]] = q[k] /\ p[r[l]] = q[l] /\ q[k] # q[l]
      BY <1>2, <2>1, <2>3
    <3> QED BY <3>1
  <2>4. r \in SetToSeqs(1..n)
    BY <1>3, <2>2, <2>3
  <2> QED BY <2>1, <2>4
<1> QED BY <1>4, <1>5

\* Whatever the order in which a list that passes comes, and whatever
\* sort.Slice does with equals, it is written and kept as the same list.
THEOREM OrderNeverMatters == OrderIsNoChange
<1> SUFFICES ASSUME NEW hours \in Lists, Valid(hours)
             PROVE  \E l \in Sorted(hours) : \A p \in SetToSeqs(DOMAIN hours) :
                      Sorted([i \in DOMAIN hours |-> hours[p[i]]]) = {l}
  BY DEF OrderIsNoChange
<1>1. PICK n \in Nat : DOMAIN hours = 1..n
  BY ListsAreLists
<1> DEFINE R == {q \in (1..n) \X (1..n) : Before(hours[q[1]], hours[q[2]])}
           InOrder(p) == \A k, l \in 1..n : k < l => ~Before(hours[p[l]], hours[p[k]])
<1>2. IsFiniteSet(1..n) /\ Cardinality(1..n) = n
  BY FS_Interval
<1>3. \A p \in SetToSeqs(1..n) : DOMAIN p = 1..n /\ p \in [1..n -> 1..n]
  BY <1>2, ListingNamesAll
<1>4. \A x, y \in 1..n : <<x, y>> \in R <=> Before(hours[x], hours[y])
  OBVIOUS
<1> HIDE DEF R
<1>5. /\ \A x, y \in 1..n : <<x, y>> \in R => <<y, x>> \notin R
      /\ \A x, y \in 1..n : x # y => <<x, y>> \in R \/ <<y, x>> \in R
      /\ \A x, y, z \in 1..n : <<x, y>> \in R /\ <<y, z>> \in R => <<x, z>> \in R
  BY <1>1, <1>4, BeforeIsStrict
<1>6. \A p \in SetToSeqs(1..n) :
        InOrder(p) <=> \A k, l \in DOMAIN p : k < l => <<p[l], p[k]>> \notin R
  BY <1>3, <1>4
<1>7. PICK o \in SetToSeqs(1..n) : InOrder(o)
  <2>1. \E p \in SetToSeqs(1..n) : \A k, l \in DOMAIN p : k < l => <<p[l], p[k]>> \notin R
    BY <1>2, <1>5, OrderHasListing
  <2> QED BY <1>6, <2>1
<1>8. ASSUME NEW p \in SetToSeqs(1..n), InOrder(p) PROVE p = o
  <2>1. /\ \A k, l \in DOMAIN p : k < l => <<p[l], p[k]>> \notin R
        /\ \A k, l \in DOMAIN o : k < l => <<o[l], o[k]>> \notin R
    BY <1>6, <1>7, <1>8
  <2> DEFINE T == 1..n
  <2>2. /\ IsFiniteSet(T) /\ p \in SetToSeqs(T) /\ o \in SetToSeqs(T)
        /\ \A x, y \in T : <<x, y>> \in R => <<y, x>> \notin R
        /\ \A x, y \in T : x # y => <<x, y>> \in R \/ <<y, x>> \in R
    BY <1>2, <1>5
  <2> HIDE DEF T, InOrder
  <2> QED BY <2>1, <2>2, ListingIsUnique
<1> DEFINE put == [i \in 1..n |-> hours[o[i]]]
<1>9. ASSUME NEW g, DOMAIN g = 1..n
      PROVE  Sorted(g) = {l \in {[i \in 1..n |-> g[p[i]]] : p \in SetToSeqs(1..n)} :
                            \A i, j \in 1..n : i < j => ~Before(l[j], l[i])}
  BY <1>9 DEF Sorted
<1>10. put \in Sorted(hours)
  <2>1. \A i, j \in 1..n : i < j => ~Before(put[j], put[i])
    BY <1>7
  <2> QED BY <1>1, <1>7, <1>9, <2>1
<1>11. ASSUME NEW p \in SetToSeqs(1..n) PROVE Sorted([i \in 1..n |-> hours[p[i]]]) = {put}
  <2> DEFINE g == [i \in 1..n |-> hours[p[i]]]
  <2>1. Sorted(g) = {l \in {[i \in 1..n |-> g[q[i]]] : q \in SetToSeqs(1..n)} :
                       \A i, j \in 1..n : i < j => ~Before(l[j], l[i])}
    BY <1>9
  <2>2. ASSUME NEW l \in Sorted(g) PROVE l = put
    <3>1. PICK q \in SetToSeqs(1..n) : l = [i \in 1..n |-> g[q[i]]]
      BY <2>1
    <3> DEFINE r == [i \in 1..n |-> p[q[i]]]
    <3>2. r \in SetToSeqs(1..n)
      BY ListingsCompose
    <3>3. \A i \in 1..n : l[i] = hours[r[i]]
      BY <1>3, <3>1
    <3>4. InOrder(r)
      <4> HIDE DEF r
      <4> QED BY <2>1, <2>2, <3>3
    <3>5. r = o
      BY <1>8, <3>2, <3>4
    <3> HIDE DEF r
    <3> QED BY <3>1, <3>3, <3>5
  <2>3. put \in Sorted(g)
    <3>1. PICK r \in SetToSeqs(1..n) : \A i \in 1..n : p[r[i]] = o[i]
      BY ListingsCompose
    <3>2. put = [i \in 1..n |-> g[r[i]]]
      BY <1>3, <3>1
    <3>3. \A i, j \in 1..n : i < j => ~Before(put[j], put[i])
      BY <1>7
    <3> QED BY <2>1, <3>1, <3>2, <3>3
  <2> QED BY <2>2, <2>3
<1> QED BY <1>1, <1>10, <1>11

\* The working hours are checked and put in order as HoursAreSets says, for
\* every set of intervals and lists of any length.
THEOREM HoursAlwaysSets == Spec => []HoursAreSets
<1>1. HoursAreSets
  BY OverlapsAlwaysFound, OrderNeverMatters DEF HoursAreSets
<1> QED BY <1>1, PTL
=============================================================================
