----------------------------- MODULE FilesProofs -----------------------------
(***************************************************************************)
(* Proofs about Files.tla, for any sets of IDs, names, folders, bytes and  *)
(* configurations, any number of polls and of troubles.                    *)
(*                                                                         *)
(* The invariant says what a request may carry (RequestsValid), where a    *)
(* handler stands and what it relies on there (Standing), that whatever    *)
(* state or a request refers to is the provider's own (Owned), and what a  *)
(* run that nobody disturbed has achieved so far (InSync).                 *)
(***************************************************************************)
EXTENDS Files, TLAPS

\* A request names a known kind and carries what the configuration asked for.
ValidRequest(r) ==
  \/ r.kind = "upload" /\ r.file \in Wanted
  \/ r.kind = "put" /\ r.id \in Ids /\ r.file \in Wanted
  \/ r.kind = "delete" /\ r.id \in Ids
  \/ /\ r.kind = "patch" /\ r.id \in Ids /\ DOMAIN r.values \subseteq Metadata
     /\ \E c \in Wanted : \A f \in DOMAIN r.values : r.values[f] = c[f]

RequestsValid == \A r \in late : ValidRequest(r)

\* Which handler stands where, and with what in hand.
Standing ==
  /\ phase = "idle" \/ op = "none" => pc = "done"
  /\ phase = "refresh" => op \in {"none", "read"}
  /\ phase = "apply" => op # "read"
  /\ op \in {"create", "update"} => config # None
  /\ pc = "get" => op = "read"
  /\ pc \in {"prepare", "upload", "verify", "cleanup", "cleaned"} => op = "create"
  /\ pc \in {"current", "collide", "patch", "patched", "content", "put", "replaced"} =>
       op = "update"
  /\ pc \in {"delete", "absent"} => op = "delete"
  /\ pc \in {"prepare", "upload"} => state = None
  /\ pc \notin {"prepare", "upload", "done"} => state # None
  /\ pc \in {"upload", "verify", "collide", "patch", "patched", "content", "put", "replaced"} =>
       source = config.content
  /\ pc \in {"collide", "patch", "patched", "content", "put", "replaced"} => seen # None

\* What state and requests refer to was uploaded or imported here.
Owned ==
  /\ state # None /\ Active(state.id) => state.id \in mine
  /\ \A r \in late : r.kind # "upload" /\ Active(r.id) => r.id \in mine

\* Fields that a read tells reliably in this run.
Told == Metadata \ (IF lagging THEN {"folder"} ELSE {})
Described == \A f \in Told : files[state.id][f] = config[f]

\* A request of this run that may still arrive does no harm: it repeats what
\* the run has done, or deletes what is gone or about to be.
Harmless(r) ==
  \/ /\ r.kind = "patch" /\ op = "update" /\ state # None /\ r.id = state.id
     /\ \A f \in DOMAIN r.values : r.values[f] = config[f]
  \/ /\ r.kind = "put" /\ op = "update" /\ state # None /\ r.id = state.id
     /\ r.file = config /\ pc \in {"replaced", "done"}
  \/ /\ r.kind = "delete"
     /\ \/ op = "delete" /\ pc = "absent" /\ state # None /\ r.id = state.id
        \/ op = "create" /\ pc = "cleaned"
        \/ ~Active(r.id)

\* The portal has the file as it is in state, but for a folder that lags.
Refreshed ==
  /\ Active(state.id)
  /\ \A f \in Told \cup {"content"} : files[state.id][f] = state.file[f]

Fulfilled ==
  IF config = None THEN state = None
  ELSE /\ state # None /\ ~tainted /\ Active(state.id)
       /\ \A f \in Told \cup {"content"} : files[state.id][f] = config[f]
       /\ state.sha = config.content

\* What a run has reached in which nobody else has changed anything.
InSync ==
  phase # "idle" /\ quiet /\ ~failed =>
    /\ \A r \in late : Harmless(r)
    /\ ~lagging /\ before # None => config # None /\ before.folder # config.folder
    /\ phase = "refresh" => late = {} /\ (~lagging => before = None)
    /\ phase = "refresh" /\ pc = "done" /\ state # None => Refreshed
    /\ pc \in {"collide", "patch", "content", "put"} =>
         Active(state.id) /\ files[state.id].content = seen.content
    /\ pc \in {"content", "put", "replaced"} => Active(state.id) /\ Described
    /\ phase = "apply" /\ pc = "done" =>
         IF op = "delete" THEN state = None ELSE Fulfilled

IInv == TypeOK /\ RequestsValid /\ Standing /\ Owned /\ InSync

----------------------------------------------------------------------------
(* The operators.                                                          *)

Fields == Metadata \cup {"content"}

LEMMA FieldsOf ==
  /\ Fields = {"stem", "ext", "folder", "access", "content"}
  /\ \A v \in Versions : DOMAIN v = Fields /\ v # None
  /\ \A c \in Wanted : DOMAIN c = Fields /\ c \in Versions /\ c # None
  /\ \A c \in Configs : c # None => c \in Wanted
BY FilesAssumption DEF Fields, Metadata, Wanted, Versions

\* What a request changes: one file, in the way its kind says.
Took(r, i, v) ==
  /\ files' = [files EXCEPT ![i] = v]
  /\ r.kind = "upload" => /\ i = Fresh /\ i \in Free /\ v \in Versions
                          /\ v.content = r.file.content
  /\ r.kind # "upload" => i = r.id /\ Active(i)
  /\ r.kind = "delete" => v = None
  /\ r.kind = "put" =>
       /\ v \in Versions
       /\ \A f \in Fields : v[f] = IF f = "folder" THEN files[i].folder ELSE r.file[f]
  /\ r.kind = "patch" =>
       /\ v \in Versions
       /\ \A f \in Fields : v[f] = IF f \in DOMAIN r.values \ {"ext"} THEN r.values[f]
                                    ELSE files[i][f]
  /\ mine' = CASE r.kind = "upload" -> mine \cup {i}
               [] r.kind = "delete" -> mine \ {i}
               [] OTHER -> mine
  /\ \/ before' \in {before, None}
     \/ /\ r.kind = "patch" /\ before' = [id |-> i, folder |-> files[i].folder]
        /\ files[i].folder # v.folder

LEMMA Effect ==
  ASSUME TypeOK, NEW r, ValidRequest(r), TakeEffect(r)
  PROVE  \E i \in Ids, v \in Versions \cup {None} : Took(r, i, v)
<1>1. CASE r.kind = "upload"
  <2>1. Same(r) = {} /\ Free # {} /\ Fresh \in Free /\ Free \subseteq Ids
    BY <1>1 DEF TakeEffect, Accepts, Free, Fresh, Strategy
  <2>2. r.file \in Wanted
    BY <1>1 DEF ValidRequest
  <2>3. Result(r) = Uploaded(r.file) /\ ~Moved(r)
    BY <1>1 DEF Result, Moved
  <2>4. Result(r) \in Versions /\ Result(r).content = r.file.content
    BY <2>2, <2>3 DEF Uploaded, Wanted, Versions
  <2>5. files' = [files EXCEPT ![Fresh] = Result(r)] /\ mine' = mine \cup {Fresh}
    BY <1>1, <2>1 DEF TakeEffect
  <2>6. before' = before
    BY <2>3 DEF TakeEffect
  <2>7. Took(r, Fresh, Result(r))
    BY <1>1, <2>1, <2>4, <2>5, <2>6 DEF Took
  <2> QED BY <2>1, <2>4, <2>7
<1>2. CASE r.kind # "upload"
  <2>1. r.id \in Ids /\ Active(r.id) /\ files[r.id] \in Versions
    BY <1>2 DEF ValidRequest, TakeEffect, Accepts, Active, TypeOK
  <2>2. files' = [files EXCEPT ![r.id] = Result(r)]
    BY <1>2 DEF TakeEffect
  <2>3. CASE r.kind = "delete"
    <3>1. Result(r) = None /\ ~Moved(r) /\ mine' = mine \ {r.id}
      BY <2>3 DEF Result, Moved, TakeEffect
    <3>2. before' = before
      BY <3>1 DEF TakeEffect
    <3>3. Took(r, r.id, None)
      BY <1>2, <2>1, <2>2, <2>3, <3>1, <3>2 DEF Took
    <3> QED BY <2>1, <3>3
  <2>4. CASE r.kind = "put"
    <3>1. Result(r) = [r.file EXCEPT !.folder = files[r.id].folder] /\ ~Moved(r) /\ mine' = mine
      BY <2>4 DEF Result, Moved, TakeEffect
    <3>2. before' = before
      BY <3>1 DEF TakeEffect
    <3>3. r.file \in Wanted
      BY <2>4 DEF ValidRequest
    <3>4. Result(r) \in Versions
      BY <2>1, <3>1, <3>3 DEF Wanted, Versions
    <3>5. \A f \in Fields : Result(r)[f] = IF f = "folder" THEN files[r.id].folder ELSE r.file[f]
      BY <3>1, <3>3, FieldsOf
    <3>6. Took(r, r.id, Result(r))
      BY <1>2, <2>1, <2>2, <2>4, <3>1, <3>2, <3>4, <3>5 DEF Took
    <3> QED BY <2>1, <3>4, <3>6
  <2>5. CASE r.kind = "patch"
    <3> DEFINE w == [f \in DOMAIN files[r.id] |-> IF f \in DOMAIN r.values \ {"ext"}
                                                  THEN r.values[f] ELSE files[r.id][f]]
    <3>1. Result(r) = w /\ mine' = mine
      BY <2>5 DEF Result, TakeEffect
    <3>2. PICK c \in Wanted : \A f \in DOMAIN r.values : r.values[f] = c[f]
      BY <2>5 DEF ValidRequest
    <3>3. \A f \in Fields : w[f] = IF f \in DOMAIN r.values \ {"ext"} THEN r.values[f]
                                   ELSE files[r.id][f]
      BY <2>1, FieldsOf
    <3>4. w \in Versions
      <4>1. /\ w.stem \in Stems \cup {"normalized"} /\ w.ext \in Extensions
            /\ w.folder \in Folders /\ w.access \in Access \cup {Hidden} /\ w.content \in Contents
        BY <2>1, <3>2, <3>3, FieldsOf DEF Wanted, Versions
      <4> QED BY <2>1, <4>1 DEF Versions
    <3>5. Took(r, r.id, w)
      BY <1>2, <2>1, <2>2, <2>5, <3>1, <3>3, <3>4 DEF Took, TakeEffect, Moved
    <3> QED BY <2>1, <3>4, <3>5
  <2> QED BY <1>2, <2>3, <2>4, <2>5 DEF ValidRequest
<1> QED BY <1>1, <1>2

LEMMA Stops ==
  /\ DOMAIN After = {"patch", "put", "delete", "cleanup"}
  /\ After["patch"] = "patched" /\ After["put"] = "replaced"
  /\ After["delete"] = "absent" /\ After["cleanup"] = "cleaned"
BY DEF After

\* What a read may show is a file of that ID, right in all that is told.
LEMMA ViewsTyped ==
  ASSUME TypeOK, NEW i \in Ids, NEW v \in Views(i)
  PROVE  /\ v = None <=> ~Active(i)
         /\ v # None => /\ v \in Versions
                        /\ \A f \in Fields \ {"folder"} : v[f] = files[i][f]
                        /\ v = files[i] \/ (before # None /\ v.folder = before.folder)
<1>1. CASE ~Active(i)
  BY <1>1 DEF Views
<1>2. CASE Active(i)
  <2>1. files[i] \in Versions
    BY <1>2 DEF TypeOK, Active
  <2>2. CASE v = files[i]
    BY <1>2, <2>1, <2>2, FieldsOf
  <2>3. CASE before # None /\ v = [files[i] EXCEPT !.folder = before.folder]
    <3>1. v \in Versions /\ v.folder = before.folder
      BY <2>1, <2>3 DEF TypeOK, Versions, Moves
    <3>2. \A f \in Fields \ {"folder"} : v[f] = files[i][f]
      BY <2>1, <2>3, FieldsOf
    <3> QED BY <1>2, <2>3, <3>1, <3>2, FieldsOf
  <2> QED BY <1>2, <2>2, <2>3 DEF Views
<1> QED BY <1>1, <1>2

\* The request of a handler that is about to write.
LEMMA Requests ==
  ASSUME TypeOK, Standing, pc \in {"upload", "patch", "put", "delete", "cleanup"}
  PROVE  /\ ValidRequest(Request)
         /\ pc = "upload" => Request.kind = "upload" /\ Request.file = config
         /\ pc # "upload" => Request.kind # "upload" /\ Request.id = state.id
         /\ pc \in {"delete", "cleanup"} => Request.kind = "delete"
         /\ pc = "put" => Request.kind = "put" /\ Request.file = config
         /\ pc = "patch" => /\ Request.kind = "patch" /\ DOMAIN Request.values \subseteq Metadata
                            /\ \A f \in DOMAIN Request.values : Request.values[f] = config[f]
<1>1. pc # "upload" => state # None /\ state.id \in Ids
  BY DEF Standing, TypeOK, Models
<1>2. pc \in {"upload", "patch", "put"} => config \in Wanted /\ source = config.content
  BY FieldsOf DEF Standing, TypeOK
<1>3. pc \in {"upload", "put"} => [config EXCEPT !.content = source] = config
  BY <1>2 DEF Wanted
<1>4. CASE pc = "upload"
  <2>1. Request = [kind |-> "upload", file |-> config]
    BY <1>3, <1>4 DEF Request
  <2> QED BY <1>2, <1>4, <2>1 DEF ValidRequest
<1>5. CASE pc = "put"
  <2>1. Request = [kind |-> "put", id |-> state.id, file |-> config]
    BY <1>3, <1>5 DEF Request
  <2> QED BY <1>1, <1>2, <1>5, <2>1 DEF ValidRequest
<1>6. CASE pc \in {"delete", "cleanup"}
  <2>1. Request = [kind |-> "delete", id |-> state.id]
    BY <1>6 DEF Request
  <2> QED BY <1>1, <1>6, <2>1 DEF ValidRequest
<1>7. CASE pc = "patch"
  <2> DEFINE w == [f \in {g \in Metadata : seen[g] # config[g]} |-> config[f]]
  <2>1. Request = [kind |-> "patch", id |-> state.id, values |-> w]
    BY <1>7 DEF Request
  <2>2. Request.kind = "patch" /\ Request.id = state.id /\ Request.values = w
    BY <2>1
  <2>3. DOMAIN w \subseteq Metadata /\ \A f \in DOMAIN w : w[f] = config[f]
    OBVIOUS
  <2> QED BY <1>1, <1>2, <1>7, <2>2, <2>3 DEF ValidRequest
<1> QED BY <1>4, <1>5, <1>6, <1>7

----------------------------------------------------------------------------
(* The handlers' reads.                                                    *)

\* What all reads leave alone.
Unread == UNCHANGED <<portal, frame, mine, op>>

\* A handler goes on, or gives up.
LEMMA GoesOn ==
  ASSUME IInv, Unread, UNCHANGED trouble, NEW l, NEW s, NEW v, Continue(l, s, v)
  PROVE  /\ pc' = l /\ source' = s /\ seen' = v /\ count' = 0 /\ op' = op
         /\ UNCHANGED <<files, before, late, local, config, state, tainted, phase, failed,
                        quiet, lagging, mine, trouble>>
         /\ RequestsValid' /\ Owned'
         /\ (pc' \in {"upload", "cleanup", "put", "collide", "content", "patch"}
              /\ source' \in Contents \cup {None} /\ seen' \in Versions \cup {None}) => TypeOK'
<1>1. /\ pc' = l /\ source' = s /\ seen' = v /\ count' = 0 /\ op' = op
      /\ UNCHANGED <<files, before, late, local, config, state, tainted, phase, failed,
                     quiet, lagging, mine, trouble>>
  BY DEF Continue, Goto, Unread, portal, frame, kept
<1>2. RequestsValid' /\ Owned'
  BY <1>1 DEF IInv, RequestsValid, ValidRequest, Owned, Active
<1>3. (pc' \in {"upload", "cleanup", "put", "collide", "content", "patch"}
        /\ source' \in Contents \cup {None} /\ seen' \in Versions \cup {None}) => TypeOK'
  BY <1>1, FilesAssumption DEF IInv, TypeOK, Active
<1> QED BY <1>1, <1>2, <1>3

LEMMA FailStep ==
  ASSUME IInv, Unread, Fail, pc # "done", trouble' \in 0..MaxTrouble
  PROVE  IInv'
<1>1. /\ pc' = "done" /\ source' = None /\ seen' = None /\ count' = 0 /\ op' = op
      /\ failed' = TRUE
      /\ UNCHANGED <<files, before, late, local, config, state, tainted, phase,
                     quiet, lagging, mine>>
  BY DEF Fail, Done, Goto, Unread, portal, frame, kept
<1>2. TypeOK'
  <2>1. {failed', quiet', lagging'} \subseteq BOOLEAN
    BY <1>1 DEF IInv, TypeOK
  <2> QED BY <1>1, <2>1, FilesAssumption DEF IInv, TypeOK, Active
<1>3. RequestsValid' /\ Owned' /\ Standing' /\ InSync'
  BY <1>1 DEF IInv, RequestsValid, ValidRequest, Owned, Active, Standing, InSync
<1> QED BY <1>2, <1>3 DEF IInv

\* A handler ends well, with a file that reads back as state will have it.
LEMMA RecordStep ==
  ASSUME IInv, Unread, UNCHANGED trouble, pc \notin {"done", "absent", "cleaned"}, state # None,
         NEW v \in Versions, NEW sha \in Contents \cup {None}, Record(state.id, v, sha),
         quiet /\ ~failed => Active(state.id),
         phase = "refresh" /\ quiet /\ ~failed =>
           \A f \in Told \cup {"content"} : files[state.id][f] = v[f],
         phase = "apply" => op \in {"create", "update"} /\ sha = config.content,
         phase = "apply" /\ quiet /\ ~failed =>
           \A f \in Told \cup {"content"} : files[state.id][f] = config[f]
  PROVE  IInv'
<1>1. CASE v.access \notin Access
  BY <1>1, FailStep DEF Record, IInv, TypeOK
<1>2. CASE v.access \in Access
  <2>1. /\ pc' = "done" /\ source' = None /\ seen' = None /\ count' = 0 /\ op' = op
        /\ state' = [id |-> state.id, file |-> v, sha |-> sha]
        /\ UNCHANGED <<files, before, late, local, config, failed, phase, quiet, lagging, mine,
                       trouble>>
    BY <1>2 DEF Record, Model, Done, Goto, Unread, portal, frame
  <2>2. tainted' \in BOOLEAN /\ (tainted' => tainted /\ op = "read")
    <3>1. tainted' = (tainted /\ op = "read")
      BY <1>2 DEF Record
    <3> QED BY <3>1, Zenon
  <2>3. state' \in Models /\ state'.id = state.id /\ state'.file = v /\ state'.sha = sha
    BY <1>2, <2>1 DEF IInv, TypeOK, Models, Versions
  <2>4. state' # None
    BY <2>3, FilesAssumption
  <2>5. TypeOK'
    BY <2>1, <2>2, <2>3, <2>4, FilesAssumption DEF IInv, TypeOK, Active
  <2>6. RequestsValid' /\ Owned' /\ Standing'
    BY <2>1, <2>3, <2>4 DEF IInv, RequestsValid, ValidRequest, Owned, Active, Standing
  <2>7. phase = "refresh" /\ quiet /\ ~failed => Refreshed'
    BY <2>1, <2>3 DEF Refreshed, Active, Told
  <2>8. phase = "apply" /\ quiet /\ ~failed => Fulfilled'
    BY <2>1, <2>2, <2>3, <2>4 DEF Fulfilled, Active, Told, IInv, Standing
  <2>9. ASSUME NEW r \in late, Harmless(r) PROVE Harmless(r)'
    BY <2>1, <2>3, <2>4, <2>9 DEF Harmless, Active
  <2>10. InSync'
    BY <2>1, <2>3, <2>4, <2>7, <2>8, <2>9 DEF IInv, InSync, Standing, TypeOK
  <2> QED BY <2>5, <2>6, <2>10 DEF IInv
<1> QED BY <1>1, <1>2

\* Whatever may still arrive stays harmless while a handler goes on.
LEMMA HarmlessGoesOn ==
  ASSUME IInv, UNCHANGED <<files, late, config, state, op>>, pc \notin {"absent", "cleaned"},
         pc = "replaced" => pc' = "replaced", pc # "done"
  PROVE  (\A r \in late : Harmless(r)) => \A r \in late' : Harmless(r)'
BY DEF Harmless, Active

\* What a read shows of the file in state, and when it shows what is there.
LEMMA Seen ==
  ASSUME IInv, state # None, NEW v \in Views(state.id)
  PROVE  /\ state \in Models /\ state.id \in Ids
         /\ (v = None) <=> ~Active(state.id)
         /\ v # None =>
              /\ v \in Versions /\ v.content = files[state.id].content
              /\ phase = "refresh" /\ quiet /\ ~failed =>
                   \A f \in Told \cup {"content"} : files[state.id][f] = v[f]
              /\ /\ phase = "apply" /\ quiet /\ ~failed /\ config # None
                 /\ \A f \in Metadata : v[f] = config[f]
                 => Described
<1>1. state \in Models /\ state.id \in Ids
  BY DEF IInv, TypeOK, Models
<1>2. /\ (v = None) <=> ~Active(state.id)
      /\ v # None =>
           /\ v \in Versions
           /\ \A f \in Fields \ {"folder"} : v[f] = files[state.id][f]
           /\ v = files[state.id] \/ (before # None /\ v.folder = before.folder)
  BY <1>1, ViewsTyped DEF IInv
<1>3. SUFFICES ASSUME v # None
      PROVE /\ v.content = files[state.id].content
            /\ phase = "refresh" /\ quiet /\ ~failed =>
                 \A f \in Told \cup {"content"} : files[state.id][f] = v[f]
            /\ /\ phase = "apply" /\ quiet /\ ~failed /\ config # None
               /\ \A f \in Metadata : v[f] = config[f]
               => Described
  BY <1>1, <1>2
<1>4. v.content = files[state.id].content
  BY <1>2, <1>3, FieldsOf
<1>5. Told \subseteq Fields /\ (lagging => "folder" \notin Told)
  BY FieldsOf DEF Told, Metadata
<1>6. ASSUME phase = "refresh", quiet, ~failed
      PROVE  \A f \in Told \cup {"content"} : files[state.id][f] = v[f]
  <2>1. ~lagging => v = files[state.id]
    BY <1>2, <1>3, <1>6 DEF IInv, InSync
  <2> QED BY <1>2, <1>3, <1>5, <2>1, FieldsOf
<1>7. ASSUME phase = "apply", quiet, ~failed, config # None, \A f \in Metadata : v[f] = config[f]
      PROVE  Described
  <2>1. v.folder = config.folder
    BY <1>7 DEF Metadata
  <2>2. ~lagging => v = files[state.id]
    BY <1>2, <1>3, <1>7, <2>1 DEF IInv, InSync
  <2>3. Told \subseteq Metadata
    BY DEF Told
  <2> QED BY <1>2, <1>3, <1>5, <1>7, <2>2, <2>3 DEF Described
<1> QED BY <1>4, <1>6, <1>7

LEMMA ReadStep == IInv /\ Read /\ Unread /\ UNCHANGED trouble => IInv'
<1> SUFFICES ASSUME IInv, Read, Unread, UNCHANGED trouble PROVE IInv'
  OBVIOUS
<1>1. phase = "refresh" /\ state # None /\ pc = "get"
  BY DEF IInv, Standing, Read, TypeOK
<1>2. PICK v \in Views(state.id) : IF v = None THEN Forget ELSE Record(state.id, v, state.sha)
  BY DEF Read
<1>3. CASE v = None
  <2>1. /\ pc' = "done" /\ source' = None /\ seen' = None /\ count' = 0 /\ op' = op
        /\ state' = None /\ tainted' = FALSE
        /\ UNCHANGED <<files, before, late, local, config, failed, phase, quiet, lagging, mine,
                       trouble>>
    BY <1>2, <1>3 DEF Forget, Done, Goto, Unread, portal, frame
  <2>2. TypeOK'
    <3>1. tainted' \in BOOLEAN /\ (tainted' => state' # None)
      BY <2>1, Zenon
    <3> QED BY <2>1, <3>1, FilesAssumption DEF IInv, TypeOK, Active
  <2>3. RequestsValid' /\ Owned' /\ Standing' /\ InSync'
    BY <1>1, <2>1 DEF IInv, RequestsValid, ValidRequest, Owned, Active, Standing, InSync
  <2> QED BY <2>2, <2>3 DEF IInv
<1>4. CASE v # None
  <2>1. v \in Versions /\ Active(state.id) /\ state.sha \in Contents \cup {None}
    BY <1>1, <1>4, Seen DEF Models
  <2>2. ~failed /\ quiet => \A f \in Told \cup {"content"} : files[state.id][f] = v[f]
    BY <1>1, <1>4, Seen
  <2> QED BY <1>1, <1>2, <1>4, <2>1, <2>2, RecordStep
<1> QED BY <1>3, <1>4

LEMMA PrepareStep == IInv /\ Prepare /\ Unread /\ UNCHANGED trouble => IInv'
<1> SUFFICES ASSUME IInv, Prepare, Unread, UNCHANGED trouble PROVE IInv'
  OBVIOUS
<1>1. CASE Fail
  BY <1>1, FailStep DEF Prepare, IInv, TypeOK
<1>2. CASE ~Fail
  <2>1. Continue("upload", local, None) /\ local = config.content /\ op = "create" /\ state = None
        /\ config # None /\ pc = "prepare" /\ phase = "apply"
    BY <1>2 DEF Prepare, Verified, IInv, Standing, TypeOK
  <2>2. /\ pc' = "upload" /\ source' = local /\ seen' = None /\ op' = op
        /\ UNCHANGED <<files, before, late, config, state, tainted, phase, failed, quiet, lagging>>
        /\ RequestsValid' /\ Owned' /\ TypeOK'
    BY <2>1, GoesOn DEF IInv, TypeOK
  <2>3. Standing'
    BY <2>1, <2>2 DEF IInv, Standing
  <2>4. InSync'
    BY <2>1, <2>2, HarmlessGoesOn DEF IInv, InSync
  <2> QED BY <2>2, <2>3, <2>4 DEF IInv
<1> QED BY <1>1, <1>2

\* The file that a handler planned is the file as asked for.
LEMMA Planned ==
  ASSUME TypeOK, config # None, source = config.content, NEW v
  PROVE  MatchesPlan(v) => \A f \in Fields : v[f] = config[f]
<1>1. config \in Wanted /\ DOMAIN config = Fields
  BY FieldsOf DEF TypeOK
<1> QED BY <1>1 DEF MatchesPlan

LEMMA VerifyCreateStep == IInv /\ VerifyCreate /\ Unread /\ UNCHANGED trouble => IInv'
<1> SUFFICES ASSUME IInv, VerifyCreate, Unread, UNCHANGED trouble PROVE IInv'
  OBVIOUS
<1>1. /\ pc = "verify" /\ phase = "apply" /\ op = "create" /\ config # None /\ config \in Wanted
      /\ state # None /\ source = config.content
  BY FieldsOf DEF IInv, Standing, VerifyCreate, TypeOK
<1>2. PICK v \in Views(state.id) :
        IF v = None THEN Fail
        ELSE IF MatchesPlan(v) THEN Record(state.id, v, config.content)
        ELSE Continue("cleanup", None, None)
  BY DEF VerifyCreate
<1>3. CASE v = None
  BY <1>1, <1>2, <1>3, FailStep DEF IInv, TypeOK
<1>4. CASE v # None /\ MatchesPlan(v)
  <2>1. v \in Versions /\ Active(state.id) /\ config.content \in Contents
    BY <1>1, <1>4, Seen DEF Wanted
  <2>2. \A f \in Fields : v[f] = config[f]
    BY <1>1, <1>4, Planned DEF IInv
  <2>3. quiet /\ ~failed => \A f \in Told \cup {"content"} : files[state.id][f] = config[f]
    BY <1>1, <1>4, <2>2, Seen DEF Described, Fields
  <2> QED BY <1>1, <1>2, <1>4, <2>1, <2>3, RecordStep
<1>5. CASE v # None /\ ~MatchesPlan(v)
  <2>1. Continue("cleanup", None, None)
    BY <1>2, <1>5
  <2>2. /\ pc' = "cleanup" /\ op' = op
        /\ UNCHANGED <<files, before, late, config, state, tainted, phase, failed, quiet, lagging>>
        /\ RequestsValid' /\ Owned' /\ TypeOK'
    BY <2>1, GoesOn DEF IInv, TypeOK
  <2>3. Standing'
    BY <1>1, <2>2 DEF IInv, Standing
  <2>4. InSync'
    BY <1>1, <2>2, HarmlessGoesOn DEF IInv, InSync
  <2> QED BY <2>2, <2>3, <2>4 DEF IInv
<1> QED BY <1>3, <1>4, <1>5

LEMMA CurrentStep == IInv /\ Current /\ Unread /\ UNCHANGED trouble => IInv'
<1> SUFFICES ASSUME IInv, Current, Unread, UNCHANGED trouble PROVE IInv'
  OBVIOUS
<1>1. /\ pc = "current" /\ phase = "apply" /\ op = "update" /\ config # None /\ state # None
  BY DEF IInv, Standing, Current, TypeOK
<1>2. PICK v \in Views(state.id) :
        IF ~Verified \/ v = None THEN Fail
        ELSE Continue(IF MatchesMetadata(v) THEN "content" ELSE "collide", local, v)
  BY DEF Current
<1>3. CASE ~Verified \/ v = None
  BY <1>1, <1>2, <1>3, FailStep DEF IInv, TypeOK
<1>4. CASE Verified /\ v # None
  <2>1. v \in Versions /\ Active(state.id) /\ v.content = files[state.id].content
        /\ local = config.content /\ local \in Contents
    BY <1>1, <1>4, Seen DEF Verified, IInv, TypeOK
  <2>2. Continue(IF MatchesMetadata(v) THEN "content" ELSE "collide", local, v)
    BY <1>2, <1>4
  <2>3. /\ pc' = IF MatchesMetadata(v) THEN "content" ELSE "collide"
        /\ op' = op /\ source' = local /\ seen' = v
        /\ UNCHANGED <<files, before, late, config, state, tainted, phase, failed, quiet, lagging>>
        /\ RequestsValid' /\ Owned' /\ TypeOK'
    BY <2>1, <2>2, GoesOn
  <2>4. Standing'
    BY <1>1, <1>4, <2>1, <2>3 DEF IInv, Standing
  <2>5. MatchesMetadata(v) /\ quiet /\ ~failed => Described
    BY <1>1, <1>4, Seen DEF MatchesMetadata
  <2>6. InSync'
    BY <1>1, <2>1, <2>3, <2>5, HarmlessGoesOn DEF IInv, InSync, Described, Told, Active
  <2> QED BY <2>3, <2>4, <2>6 DEF IInv
<1> QED BY <1>3, <1>4

LEMMA CollideStep == IInv /\ Collide /\ Unread /\ UNCHANGED trouble => IInv'
<1> SUFFICES ASSUME IInv, Collide, Unread, UNCHANGED trouble PROVE IInv'
  OBVIOUS
<1>1. CASE Fail
  BY <1>1, FailStep DEF Collide, IInv, TypeOK
<1>2. CASE ~Fail
  <2>1. Continue("patch", source, seen) /\ pc = "collide" /\ op = "update" /\ phase = "apply"
    BY <1>2 DEF Collide, IInv, Standing, TypeOK
  <2>2. /\ pc' = "patch" /\ source' = source /\ seen' = seen /\ op' = op
        /\ UNCHANGED <<files, before, late, config, state, tainted, phase, failed, quiet, lagging>>
        /\ RequestsValid' /\ Owned' /\ TypeOK'
    BY <2>1, GoesOn DEF IInv, TypeOK
  <2>3. Standing'
    BY <2>1, <2>2 DEF IInv, Standing
  <2>4. InSync'
    BY <2>1, <2>2, HarmlessGoesOn DEF IInv, InSync, Active
  <2> QED BY <2>2, <2>3, <2>4 DEF IInv
<1> QED BY <1>1, <1>2

LEMMA CompareContentStep == IInv /\ CompareContent /\ Unread /\ UNCHANGED trouble => IInv'
<1> SUFFICES ASSUME IInv, CompareContent, Unread, UNCHANGED trouble PROVE IInv'
  OBVIOUS
<1>1. /\ pc = "content" /\ phase = "apply" /\ op = "update" /\ config # None /\ config \in Wanted
      /\ state # None /\ source = config.content /\ seen \in Versions
  BY FieldsOf DEF IInv, Standing, CompareContent, TypeOK
<1>2. CASE seen.content # source
  <2>1. Continue("put", source, seen)
    BY <1>2 DEF CompareContent
  <2>2. /\ pc' = "put" /\ source' = source /\ seen' = seen /\ op' = op
        /\ UNCHANGED <<files, before, late, config, state, tainted, phase, failed, quiet, lagging>>
        /\ RequestsValid' /\ Owned' /\ TypeOK'
    BY <2>1, GoesOn DEF IInv, TypeOK
  <2>3. Standing'
    BY <1>1, <2>2 DEF IInv, Standing
  <2>4. InSync'
    BY <1>1, <2>2, HarmlessGoesOn DEF IInv, InSync, Active, Described, Told
  <2> QED BY <2>2, <2>3, <2>4 DEF IInv
<1>3. CASE seen.content = source
  <2>1. Record(state.id, seen, config.content) /\ config.content \in Contents
    BY <1>1, <1>3 DEF CompareContent, Wanted
  <2>2. quiet /\ ~failed => /\ Active(state.id)
                            /\ \A f \in Told \cup {"content"} : files[state.id][f] = config[f]
    BY <1>1, <1>3 DEF IInv, InSync, Described
  <2> QED BY <1>1, <2>1, <2>2, RecordStep
<1> QED BY <1>2, <1>3

LEMMA AgainStep ==
  ASSUME IInv, Again, Unread, UNCHANGED trouble, pc # "done"
  PROVE  IInv'
<1>1. /\ count' \in 0..(Polls - 1)
      /\ UNCHANGED <<files, before, late, local, config, state, tainted, phase, op, pc, source,
                     seen, failed, quiet, lagging, mine, trouble>>
  BY FilesAssumption DEF Again, Unread, portal, frame, kept, IInv, TypeOK
<1> QED BY <1>1 DEF IInv, TypeOK, RequestsValid, ValidRequest, Standing, Owned, InSync, Harmless,
       Refreshed, Fulfilled, Described, Told, Active

LEMMA AwaitFileStep == IInv /\ AwaitFile /\ Unread /\ UNCHANGED trouble => IInv'
<1> SUFFICES ASSUME IInv, AwaitFile, Unread, UNCHANGED trouble PROVE IInv'
  OBVIOUS
<1>1. /\ pc \in {"patched", "replaced"} /\ phase = "apply" /\ op = "update" /\ config # None
      /\ config \in Wanted /\ state # None /\ source = config.content
  BY FieldsOf DEF IInv, Standing, AwaitFile, TypeOK
<1>2. PICK v \in Views(state.id) :
        IF v = None THEN Fail
        ELSE IF ~Expected(v) THEN Again \/ (count + 1 = Polls /\ Fail)
        ELSE IF pc = "patched" THEN Continue("content", source, v)
        ELSE Record(state.id, v, config.content)
  BY DEF AwaitFile
<1>3. CASE Again
  BY <1>1, <1>3, AgainStep
<1>4. CASE Fail
  BY <1>1, <1>4, FailStep DEF IInv, TypeOK
<1>5. CASE v # None /\ Expected(v) /\ pc = "patched"
  <2>1. Continue("content", source, v)
    BY <1>2, <1>5
  <2>2. v \in Versions /\ Active(state.id) /\ v.content = files[state.id].content
    BY <1>1, <1>5, Seen
  <2>3. quiet /\ ~failed => Described
    BY <1>1, <1>5, Seen DEF Expected, MatchesMetadata
  <2>4. /\ pc' = "content" /\ source' = source /\ seen' = v /\ op' = op
        /\ UNCHANGED <<files, before, late, config, state, tainted, phase, failed, quiet, lagging>>
        /\ RequestsValid' /\ Owned' /\ TypeOK'
    BY <2>1, <2>2, GoesOn DEF IInv, TypeOK
  <2>5. Standing'
    BY <1>1, <1>5, <2>4 DEF IInv, Standing
  <2>6. InSync'
    BY <1>1, <1>5, <2>2, <2>3, <2>4, HarmlessGoesOn DEF IInv, InSync, Active, Described, Told
  <2> QED BY <2>4, <2>5, <2>6 DEF IInv
<1>6. CASE v # None /\ Expected(v) /\ pc = "replaced"
  <2>1. v \in Versions /\ Active(state.id) /\ config.content \in Contents
    BY <1>1, <1>6, Seen DEF Wanted
  <2>2. \A f \in Fields : v[f] = config[f]
    BY <1>1, <1>6, Planned DEF IInv, Expected
  <2>3. quiet /\ ~failed => \A f \in Told \cup {"content"} : files[state.id][f] = config[f]
    BY <1>1, <1>6, <2>2, Seen DEF Described, Fields
  <2> QED BY <1>1, <1>2, <1>6, <2>1, <2>3, RecordStep
<1> QED BY <1>1, <1>2, <1>3, <1>4, <1>5, <1>6

LEMMA AwaitAbsenceStep == IInv /\ AwaitAbsence /\ Unread /\ UNCHANGED trouble => IInv'
<1> SUFFICES ASSUME IInv, AwaitAbsence, Unread, UNCHANGED trouble PROVE IInv'
  OBVIOUS
<1>1. /\ pc \in {"absent", "cleaned"} /\ phase = "apply" /\ state # None
      /\ pc = "absent" => op = "delete"
  BY DEF IInv, Standing, AwaitAbsence, TypeOK
<1>2. CASE Again
  BY <1>1, <1>2, AgainStep
<1>3. CASE Fail
  BY <1>1, <1>3, FailStep DEF IInv, TypeOK
<1>4. CASE ~Again /\ ~Fail
  <2>1. /\ ~Active(state.id)
        /\ pc' = "done" /\ source' = None /\ seen' = None /\ count' = 0 /\ op' = op
        /\ state' = None /\ tainted' = FALSE
        /\ (pc = "absent" /\ failed' = failed) \/ (pc = "cleaned" /\ failed' = TRUE)
        /\ UNCHANGED <<files, before, late, local, config, phase, quiet, lagging, mine, trouble>>
    BY <1>1, <1>4 DEF AwaitAbsence, Forget, Done, Goto, Unread, portal, frame
  <2>2. TypeOK'
    <3>1. tainted' \in BOOLEAN /\ (tainted' => state' # None)
      BY <2>1, Zenon
    <3>2. {failed', quiet', lagging'} \subseteq BOOLEAN
      <4>1. failed' \in BOOLEAN
        BY <2>1 DEF IInv, TypeOK
      <4> QED BY <2>1, <4>1 DEF IInv, TypeOK
    <3>3. /\ pc' = "done" /\ source' = None /\ seen' = None /\ count' = 0 /\ op' = op
          /\ state' = None
          /\ UNCHANGED <<files, before, late, local, config, phase, mine, trouble>>
      BY <2>1
    <3> QED BY <3>1, <3>2, <3>3, FilesAssumption DEF IInv, TypeOK, Active
  <2>3. RequestsValid' /\ Owned' /\ Standing'
    BY <1>1, <2>1 DEF IInv, RequestsValid, ValidRequest, Owned, Active, Standing
  <2>4. InSync'
    BY <1>1, <2>1 DEF IInv, InSync, Harmless, Active, Standing
  <2> QED BY <2>2, <2>3, <2>4 DEF IInv
<1> QED BY <1>2, <1>3, <1>4

LEMMA ReadsStep == IInv /\ Reads => IInv'
<1> SUFFICES ASSUME IInv, Reads PROVE IInv'
  OBVIOUS
<1>1. Unread /\ UNCHANGED trouble
  BY DEF Reads, Unread, Read, Prepare, VerifyCreate, Current, Collide, CompareContent, AwaitFile,
     AwaitAbsence, Continue, Fail, Forget, Record, Again, Done, Goto
<1> QED BY <1>1, ReadStep, PrepareStep, VerifyCreateStep, CurrentStep, CollideStep,
       CompareContentStep, AwaitFileStep, AwaitAbsenceStep DEF Reads

LEMMA ReadFailsStep == IInv /\ ReadFails => IInv'
<1> SUFFICES ASSUME IInv, ReadFails PROVE IInv'
  OBVIOUS
<1>1. trouble' \in 0..MaxTrouble
  BY FilesAssumption DEF ReadFails, Disturb, IInv, TypeOK
<1> QED BY <1>1, FailStep DEF ReadFails, Unread, Fail, Done, Goto

----------------------------------------------------------------------------
(* The handlers' writes.                                                   *)

\* Whatever a request does, types hold, and no file changes hands: one that
\* is known and gone does not come back, one that is known and own stays so.
LEMMA TakenEffect ==
  ASSUME TypeOK, NEW r, ValidRequest(r), TakeEffect(r)
  PROVE  /\ files' \in [Ids -> Versions \cup {None}] /\ before' \in Moves \cup {None}
         /\ mine' \subseteq {j \in Ids : files'[j] # None}
         /\ \A j \in Ids : Known(j) /\ ~Active(j) => files'[j] = None
         /\ \A j \in Ids : Known(j) /\ (Active(j) => j \in mine) /\ files'[j] # None => j \in mine'
<1>1. PICK i \in Ids, v \in Versions \cup {None} : Took(r, i, v)
  BY Effect
<1>2. files' \in [Ids -> Versions \cup {None}] /\ files'[i] = v
      /\ \A j \in Ids : j # i => files'[j] = files[j]
  BY <1>1 DEF Took, TypeOK
<1>3. before' \in Moves \cup {None}
  <2>1. r.kind = "patch" => files[i] \in Versions
    BY <1>1 DEF Took, Active, TypeOK
  <2> QED BY <1>1, <2>1 DEF Took, TypeOK, Moves, Versions
<1>4. r.kind \in {"upload", "put", "patch", "delete"}
  BY DEF ValidRequest
<1>5. /\ r.kind = "upload" => mine' = mine \cup {i} /\ v # None /\ ~Known(i)
      /\ r.kind \in {"put", "patch"} => mine' = mine /\ v # None /\ Active(i)
      /\ r.kind = "delete" => mine' = mine \ {i} /\ v = None /\ Active(i)
  BY <1>1, <1>4, FieldsOf DEF Took, Free
<1> QED BY <1>2, <1>3, <1>4, <1>5 DEF TypeOK, Active

\* A request that carries what the configuration asks for spoils nothing
\* that is as it should be, and what it moves it moves to the right place.
LEMMA Repeats ==
  ASSUME TypeOK, NEW r, ValidRequest(r), TakeEffect(r), r.kind \in {"patch", "put"},
         state # None, r.id = state.id, config # None,
         r.kind = "patch" => \A f \in DOMAIN r.values : r.values[f] = config[f],
         r.kind = "put" => r.file = config
  PROVE  /\ files'[state.id] # None
         /\ \A f \in Fields : files[state.id][f] = config[f] => files'[state.id][f] = config[f]
         /\ r.kind = "patch" => files'[state.id].content = files[state.id].content
         /\ r.kind = "put" => \A f \in Fields \ {"folder"} : files'[state.id][f] = config[f]
         /\ before' \in {before, None} \/ before'.folder # config.folder
<1>1. PICK i \in Ids, v \in Versions \cup {None} : Took(r, i, v)
  BY Effect
<1>2. i = state.id /\ files'[i] = v /\ v \in Versions /\ v # None
  BY <1>1, FieldsOf DEF Took, TypeOK
<1>3. r.kind = "patch" => DOMAIN r.values \subseteq Metadata
  BY DEF ValidRequest
<1>4. r.kind = "patch" => \A f \in Fields : v[f] = files[i][f] \/ v[f] = config[f]
  BY <1>1 DEF Took
<1>5. r.kind = "patch" => v.content = files[i].content
  <2>1. "content" \notin Metadata /\ "content" \in Fields
    BY DEF Metadata, Fields
  <2> QED BY <1>1, <1>3, <2>1 DEF Took
<1>6. r.kind = "put" =>
        \A f \in Fields : v[f] = IF f = "folder" THEN files[i].folder ELSE config[f]
  BY <1>1 DEF Took
<1>7. before' \in {before, None} \/ before'.folder # config.folder
  <2>1. SUFFICES ASSUME before' \notin {before, None} PROVE before'.folder # config.folder
    OBVIOUS
  <2>2. r.kind = "patch" /\ before'.folder = files[i].folder /\ files[i].folder # v.folder
    BY <1>1, <2>1 DEF Took
  <2>3. "folder" \in Fields
    BY DEF Fields, Metadata
  <2> QED BY <1>4, <2>2, <2>3
<1> QED BY <1>2, <1>4, <1>5, <1>6, <1>7

\* A PATCH, PUT or DELETE has been sent: answered or not, done or not.
Sent ==
  /\ pc \in DOMAIN After
  /\ \/ TakeEffect(Request) /\ late' = late
     \/ late' \in {late, late \cup {Request}} /\ UNCHANGED <<files, before, mine>>
  /\ Written \/ Fail
  /\ UNCHANGED frame

LEMMA SentStep ==
  ASSUME IInv, Sent, trouble' \in 0..MaxTrouble
  PROVE  IInv'
<1>1. /\ pc \in {"patch", "put", "delete", "cleanup"} /\ state # None /\ phase = "apply"
      /\ state \in Models /\ state.id \in Ids /\ Known(state.id)
      /\ ValidRequest(Request) /\ Request.kind # "upload" /\ Request.id = state.id
  BY Stops, Requests DEF IInv, Standing, TypeOK, Sent, Models, Known
<1>2. /\ files' \in [Ids -> Versions \cup {None}] /\ before' \in Moves \cup {None}
      /\ mine' \subseteq {j \in Ids : files'[j] # None}
      /\ \A j \in Ids : Known(j) /\ ~Active(j) => files'[j] = None
      /\ \A j \in Ids : Known(j) /\ (Active(j) => j \in mine) /\ files'[j] # None => j \in mine'
  <2>1. CASE TakeEffect(Request)
    BY <1>1, <2>1, TakenEffect DEF IInv
  <2>2. CASE UNCHANGED <<files, before, mine>>
    BY <2>2 DEF IInv, TypeOK, Active
  <2> QED BY <2>1, <2>2 DEF Sent
<1>3. /\ op' = op /\ count' = 0
      /\ UNCHANGED <<state, tainted, local, config, phase, quiet, lagging>>
      /\ \/ pc' = After[pc] /\ source' = source /\ seen' = seen /\ failed' = failed
         \/ pc' = "done" /\ source' = None /\ seen' = None /\ failed' = TRUE
  BY DEF Sent, Written, Continue, Fail, Done, Goto, frame, kept
<1>4. TypeOK'
  <2>1. {failed', quiet', lagging'} \subseteq BOOLEAN
    <3>1. failed' \in BOOLEAN
      BY <1>3 DEF IInv, TypeOK
    <3> QED BY <1>3, <3>1 DEF IInv, TypeOK
  <2>2. /\ pc' \in {"done", "patched", "replaced", "absent", "cleaned"}
        /\ source' \in Contents \cup {None} /\ seen' \in Versions \cup {None}
    BY <1>1, <1>3, Stops DEF IInv, TypeOK
  <2> QED BY <1>2, <1>3, <2>1, <2>2, FilesAssumption DEF IInv, TypeOK, Active
<1>5. \A r \in late' : r \in late \/ r = Request
  BY DEF Sent
<1>6. RequestsValid'
  BY <1>1, <1>5 DEF IInv, RequestsValid, ValidRequest
<1>7. Standing'
  BY <1>1, <1>3, Stops DEF IInv, Standing
<1>8. Owned'
  <2>1. files'[state.id] # None => state.id \in mine'
    BY <1>1, <1>2 DEF IInv, Owned
  <2>2. ASSUME NEW r \in late, r.kind # "upload" PROVE files'[r.id] # None => r.id \in mine'
    BY <1>2, <2>2 DEF IInv, Owned, RequestsValid, ValidRequest, Known
  <2> QED BY <1>1, <1>3, <1>5, <2>1, <2>2 DEF Owned, Active
<1>9. InSync'
  <2>1. SUFFICES ASSUME quiet, ~failed, Written PROVE InSync'
    BY <1>3 DEF Sent, InSync, Fail
  <2>2. pc' = After[pc] /\ pc' # "done" /\ failed' = failed
    BY <1>1, <2>1, Stops DEF Written, Continue, Goto
  <2>3. ASSUME NEW r \in late PROVE Harmless(r)'
    <3>1. Harmless(r)
      BY <1>1, <2>1 DEF IInv, InSync
    <3>2. r.kind = "delete" => ~Active(r.id)
      BY <1>1, <3>1 DEF Harmless
    <3>3. r.kind = "delete" => files'[r.id] = None
      BY <1>2, <3>2 DEF IInv, RequestsValid, ValidRequest, Known
    <3> QED BY <1>1, <1>3, <3>1, <3>3 DEF Harmless, Active
  <2>4. ASSUME NEW q, q = Request PROVE Harmless(q)'
    <3>1. CASE pc = "patch"
      BY <1>1, <1>3, <2>4, <3>1, Requests DEF Harmless, IInv, Standing
    <3>2. CASE pc = "put"
      BY <1>1, <1>3, <2>2, <2>4, <3>2, Requests, Stops DEF Harmless, IInv, Standing
    <3>3. CASE pc \in {"delete", "cleanup"}
      BY <1>1, <1>3, <2>2, <2>4, <3>3, Requests, Stops DEF Harmless, IInv, Standing
    <3> QED BY <1>1, <3>1, <3>2, <3>3
  <2>5. ~lagging /\ before' # None => config # None /\ before'.folder # config.folder
    <3>1. CASE before' = before
      BY <1>1, <2>1, <3>1 DEF IInv, InSync
    <3>2. CASE TakeEffect(Request) /\ pc \in {"patch", "put"}
      <4>1. config # None
        BY <3>2 DEF IInv, Standing
      <4>2. before' \in {before, None} \/ before'.folder # config.folder
        BY <1>1, <3>2, <4>1, Requests, Repeats DEF IInv
      <4> QED BY <3>1, <4>1, <4>2
    <3>3. CASE TakeEffect(Request) /\ pc \in {"delete", "cleanup"}
      <4>1. Request.kind = "delete"
        BY <3>3, Requests DEF IInv
      <4>2. before' \in {before, None}
        BY <1>1, <3>3, <4>1, Effect DEF IInv, Took
      <4> QED BY <3>1, <4>2
    <3> QED BY <1>1, <3>1, <3>2, <3>3 DEF Sent
  <2>6. pc = "put" => files'[state.id] # None /\ \A f \in Told : files'[state.id][f] = config[f]
    <3>1. SUFFICES ASSUME pc = "put"
                   PROVE  files'[state.id] # None /\ \A f \in Told : files'[state.id][f] = config[f]
      OBVIOUS
    <3>2. Active(state.id) /\ Described /\ config # None
      BY <1>1, <2>1, <3>1 DEF IInv, InSync, Standing
    <3>3. CASE UNCHANGED files
      BY <3>2, <3>3 DEF Active, Described
    <3>4. CASE TakeEffect(Request)
      <4>1. Told \subseteq Fields
        BY DEF Told, Fields
      <4> QED BY <1>1, <3>1, <3>2, <3>4, <4>1, Requests, Repeats DEF IInv, Described
    <3> QED BY <3>3, <3>4 DEF Sent
  <2>7. pc = "put" => Active(state.id)' /\ Described'
    BY <1>3, <2>6 DEF Active, Described, Told
  <2> QED BY <1>1, <1>3, <1>5, <2>1, <2>2, <2>3, <2>4, <2>5, <2>7, Stops DEF InSync
<1> QED BY <1>4, <1>6, <1>7, <1>8, <1>9 DEF IInv

LEMMA WriteStep == IInv /\ Write => IInv'
<1> SUFFICES ASSUME IInv, Write PROVE IInv'
  OBVIOUS
<1>1. Sent /\ trouble' = trouble
  BY DEF Write, Sent
<1> QED BY <1>1, SentStep DEF IInv, TypeOK

LEMMA WriteFailsStep == IInv /\ WriteFails => IInv'
<1> SUFFICES ASSUME IInv, WriteFails PROVE IInv'
  OBVIOUS
<1>1. Sent
  BY DEF WriteFails, Sent, portal
<1>2. trouble' \in 0..MaxTrouble
  BY FilesAssumption DEF WriteFails, Disturb, IInv, TypeOK
<1> QED BY <1>1, <1>2, SentStep

LEMMA UploadStep == IInv /\ Upload => IInv'
<1> SUFFICES ASSUME IInv, Upload PROVE IInv'
  OBVIOUS
<1>1. /\ pc = "upload" /\ state = None /\ phase = "apply" /\ op = "create" /\ config # None
      /\ config \in Wanted /\ source = config.content /\ UNCHANGED frame
      /\ ValidRequest(Request) /\ Request.kind = "upload" /\ Request.file = config
  BY Requests, FieldsOf DEF IInv, Standing, Upload, TypeOK
<1>2. trouble' \in 0..MaxTrouble
  BY FilesAssumption DEF Upload, Disturb, IInv, TypeOK
<1>3. CASE Fail
  <2>1. \/ TakeEffect(Request) /\ late' = late
        \/ late' \in {late, late \cup {Request}} /\ UNCHANGED <<files, before, mine>>
    BY <1>1, <1>3 DEF Upload, Fail, Done, Goto, portal
  <2>2. /\ files' \in [Ids -> Versions \cup {None}] /\ before' \in Moves \cup {None}
        /\ mine' \subseteq {j \in Ids : files'[j] # None}
        /\ \A j \in Ids : Known(j) /\ (Active(j) => j \in mine) /\ files'[j] # None => j \in mine'
    <3>1. CASE TakeEffect(Request)
      BY <1>1, <3>1, TakenEffect DEF IInv
    <3>2. CASE UNCHANGED <<files, before, mine>>
      BY <3>2 DEF IInv, TypeOK, Active
    <3> QED BY <2>1, <3>1, <3>2
  <2>3. /\ op' = op /\ pc' = "done" /\ source' = None /\ seen' = None /\ count' = 0
        /\ failed' = TRUE
        /\ UNCHANGED <<state, tainted, local, config, phase, quiet, lagging>>
    BY <1>1, <1>3 DEF Fail, Done, Goto, frame, kept
  <2>4. TypeOK'
    <3>1. {failed', quiet', lagging'} \subseteq BOOLEAN
      BY <2>3 DEF IInv, TypeOK
    <3> QED BY <1>2, <2>2, <2>3, <3>1, FilesAssumption DEF IInv, TypeOK, Active
  <2>5. RequestsValid'
    BY <1>1, <2>1 DEF IInv, RequestsValid, ValidRequest
  <2>6. ASSUME NEW r \in late, r.kind # "upload" PROVE files'[r.id] # None => r.id \in mine'
    BY <2>2, <2>6 DEF IInv, Owned, RequestsValid, ValidRequest, Known
  <2>7. Owned'
    BY <1>1, <2>1, <2>3, <2>6 DEF Owned, Active
  <2>8. Standing' /\ InSync'
    BY <1>1, <2>3 DEF IInv, Standing, InSync
  <2> QED BY <2>4, <2>5, <2>7, <2>8 DEF IInv
<1>4. CASE ~Fail
  <2>1. /\ TakeEffect(Request) /\ state' = Model(Answer(Request), config, config.content)
        /\ pc' = "verify" /\ source' = source /\ seen' = None /\ count' = 0 /\ op' = op
        /\ tainted' = TRUE /\ late' = late /\ trouble' = trouble /\ failed' = failed
        /\ UNCHANGED <<local, config, phase, quiet, lagging>>
    BY <1>1, <1>4 DEF Upload, Goto, frame
  <2>2. PICK i \in Ids, v \in Versions \cup {None} : Took(Request, i, v)
    BY <1>1, <2>1, Effect DEF IInv
  <2>3. Answer(Request) = i /\ i \in Free /\ i \in mine'
    BY <1>1, <2>1, <2>2 DEF Took, Answer, TakeEffect, Accepts, Strategy
  <2>4. state' \in Models /\ state' # None /\ state'.id = i
    <3>1. state' = [id |-> i, file |-> config, sha |-> config.content]
      BY <2>1, <2>3 DEF Model
    <3>2. state' \in Models /\ state'.id = i
      BY <1>1, <3>1 DEF Models, Wanted
    <3> QED BY <3>2, FilesAssumption
  <2>5. /\ files' \in [Ids -> Versions \cup {None}] /\ before' \in Moves \cup {None}
        /\ mine' \subseteq {j \in Ids : files'[j] # None}
        /\ \A j \in Ids : Known(j) /\ ~Active(j) => files'[j] = None
        /\ \A j \in Ids : Known(j) /\ (Active(j) => j \in mine) /\ files'[j] # None => j \in mine'
    BY <1>1, <2>1, TakenEffect DEF IInv
  <2>6. TypeOK'
    <3>1. tainted' \in BOOLEAN
      BY <2>1, Zenon
    <3> QED BY <2>1, <2>4, <2>5, <3>1, FilesAssumption DEF IInv, TypeOK, Active
  <2>7. RequestsValid' /\ Standing'
    BY <1>1, <2>1, <2>4 DEF IInv, RequestsValid, ValidRequest, Standing
  <2>8. Owned'
    <3>1. ASSUME NEW r \in late, r.kind # "upload" PROVE files'[r.id] # None => r.id \in mine'
      BY <2>5, <3>1 DEF IInv, Owned, RequestsValid, ValidRequest, Known
    <3> QED BY <2>1, <2>3, <2>4, <3>1 DEF Owned, Active
  <2>9. ASSUME NEW r \in late, Harmless(r) PROVE Harmless(r)'
    <3>1. r.kind = "delete" /\ ~Active(r.id)
      BY <1>1, <2>9 DEF Harmless
    <3>2. files'[r.id] = None
      BY <2>5, <3>1 DEF IInv, RequestsValid, ValidRequest, Known
    <3> QED BY <3>1, <3>2 DEF Harmless, Active
  <2>10. before' \in {before, None}
    BY <1>1, <2>2 DEF Took
  <2>11. InSync'
    BY <1>1, <2>1, <2>9, <2>10 DEF IInv, InSync
  <2> QED BY <2>6, <2>7, <2>8, <2>11 DEF IInv
<1> QED BY <1>3, <1>4

----------------------------------------------------------------------------
(* Terraform.                                                              *)

LEMMA StartRunStep == IInv /\ StartRun => IInv'
<1> SUFFICES ASSUME IInv, StartRun PROVE IInv'
  OBVIOUS
<1>1. /\ pc = "done" /\ phase' = "refresh" /\ config' \in Configs /\ local' \in Contents
      /\ IF state = None THEN op' = "none" /\ pc' = "done" ELSE op' = "read" /\ pc' = "get"
      /\ source' = None /\ seen' = None /\ count' = 0
      /\ (quiet' <=> (late = {})) /\ (lagging' <=> (before # None))
      /\ UNCHANGED <<files, before, late, state, tainted, failed, mine, trouble>>
  BY DEF IInv, Standing, StartRun, Begin, portal, kept
<1>2. TypeOK'
  <2>1. quiet' \in BOOLEAN /\ lagging' \in BOOLEAN
    BY DEF StartRun
  <2> QED BY <1>1, <2>1, FilesAssumption DEF IInv, TypeOK, Active
<1>3. RequestsValid' /\ Owned' /\ Standing' /\ InSync'
  BY <1>1 DEF IInv, RequestsValid, ValidRequest, Owned, Active, Standing, InSync
<1> QED BY <1>2, <1>3 DEF IInv

LEMMA PlanStep == IInv /\ Plan => IInv'
<1> SUFFICES ASSUME IInv, Plan PROVE IInv'
  OBVIOUS
<1>1. /\ phase = "refresh" /\ pc = "done" /\ ~failed
      /\ UNCHANGED <<files, before, late, local, config, state, tainted, quiet, lagging, mine,
                     trouble>>
  BY DEF Plan, portal, kept
<1>2. CASE config # None /\ ~Verified
  <2>1. failed' = TRUE /\ UNCHANGED <<phase, op, pc, source, seen, count>>
    BY <1>2 DEF Plan, handler
  <2>2. TypeOK'
    <3>1. {failed', quiet', lagging'} \subseteq BOOLEAN
      BY <1>1, <2>1 DEF IInv, TypeOK
    <3>2. UNCHANGED <<phase, op, pc, source, seen, count>>
      BY <2>1
    <3> QED BY <1>1, <3>1, <3>2 DEF IInv, TypeOK, Active
  <2>3. RequestsValid' /\ Owned' /\ Standing' /\ InSync'
    BY <1>1, <2>1 DEF IInv, RequestsValid, ValidRequest, Owned, Active, Standing, InSync
  <2> QED BY <2>2, <2>3 DEF IInv
<1>3. CASE config = None \/ Verified
  <2>1. /\ phase' = "apply" /\ failed' = failed /\ source' = None /\ seen' = None /\ count' = 0
        /\ \/ state = None /\ config # None /\ op' = "create" /\ pc' = "prepare"
           \/ state # None /\ op' = "delete" /\ pc' = "delete"
           \/ state # None /\ config # None /\ op' = "update" /\ pc' = "current"
           \/ /\ op' = "none" /\ pc' = "done"
              /\ \/ state = None /\ config = None
                 \/ state # None /\ config # None /\ ~tainted /\ ~Differs
    BY <1>1, <1>3 DEF Plan, Begin
  <2>2. TypeOK'
    <3>1. op' \in {"none", "create", "delete", "update"}
          /\ pc' \in {"done", "prepare", "delete", "current"}
      BY <2>1
    <3> QED BY <1>1, <2>1, <3>1, FilesAssumption DEF IInv, TypeOK, Active
  <2>3. RequestsValid' /\ Owned'
    BY <1>1 DEF IInv, RequestsValid, ValidRequest, Owned, Active
  <2>4. Standing'
    BY <1>1, <2>1 DEF IInv, Standing
  <2>5. quiet => late = {} /\ (~lagging => before = None) /\ (state # None => Refreshed)
    BY <1>1 DEF IInv, InSync
  <2>6. quiet /\ state # None /\ config # None /\ ~tainted /\ ~Differs => Fulfilled
    <3>1. Told \subseteq Metadata
      BY DEF Told
    <3>2. local = config.content \/ config = None
      BY <1>3 DEF Verified
    <3> QED BY <2>5, <3>1, <3>2 DEF Differs, MatchesMetadata, Refreshed, Fulfilled
  <2>7. Fulfilled => Fulfilled'
    BY <1>1 DEF Fulfilled, Told, Active
  <2>8. state = None /\ config = None => Fulfilled
    BY DEF Fulfilled
  <2>9. InSync'
    BY <1>1, <2>1, <2>5, <2>6, <2>7, <2>8 DEF InSync
  <2> QED BY <2>2, <2>3, <2>4, <2>9 DEF IInv
<1> QED BY <1>2, <1>3

LEMMA ReplaceStep == IInv /\ Replace => IInv'
<1> SUFFICES ASSUME IInv, Replace PROVE IInv'
  OBVIOUS
<1>1. /\ phase = "apply" /\ pc = "done" /\ op = "delete" /\ state = None /\ config # None
      /\ op' = "create" /\ pc' = "prepare" /\ source' = None /\ seen' = None /\ count' = 0
      /\ UNCHANGED <<files, before, late, local, config, state, tainted, phase, failed, quiet,
                     lagging, mine, trouble>>
  BY DEF Replace, Replacing, Begin, portal, kept, frame
<1>2. TypeOK'
  BY <1>1, FilesAssumption DEF IInv, TypeOK, Active
<1>3. RequestsValid' /\ Owned' /\ Standing' /\ InSync'
  BY <1>1 DEF IInv, RequestsValid, ValidRequest, Owned, Active, Standing, InSync, Harmless
<1> QED BY <1>2, <1>3 DEF IInv

\* A run that is over has nothing left to keep.
LEMMA StopStep ==
  ASSUME IInv, Stop, trouble' \in 0..MaxTrouble, RequestsValid', Owned'
  PROVE  IInv'
<1>1. /\ phase' = "idle" /\ op' = "none" /\ pc' = "done" /\ source' = None /\ seen' = None
      /\ count' = 0 /\ failed' = FALSE /\ quiet' = TRUE /\ lagging' = FALSE
      /\ UNCHANGED <<files, before, local, config, state, tainted, mine>>
  BY DEF Stop, Begin, kept
<1>2. TypeOK'
  <2>1. {failed', quiet', lagging'} \subseteq BOOLEAN
    BY <1>1
  <2>2. /\ phase' = "idle" /\ op' = "none" /\ pc' = "done" /\ source' = None /\ seen' = None
        /\ count' = 0 /\ UNCHANGED <<files, before, local, config, state, tainted, mine>>
    BY <1>1
  <2> QED BY <2>1, <2>2, FilesAssumption DEF IInv, TypeOK, Active
<1>3. Standing' /\ InSync'
  BY <1>1 DEF Standing, InSync
<1> QED BY <1>2, <1>3 DEF IInv

LEMMA EndRunStep == IInv /\ EndRun => IInv'
<1> SUFFICES ASSUME IInv, EndRun PROVE IInv'
  OBVIOUS
<1>1. Stop /\ late' = late /\ trouble' = trouble /\ UNCHANGED <<files, state, mine>>
  BY DEF EndRun, Stop, kept
<1>2. RequestsValid' /\ Owned'
  BY <1>1 DEF IInv, RequestsValid, ValidRequest, Owned, Active
<1> QED BY <1>1, <1>2, StopStep DEF IInv, TypeOK

LEMMA CrashStep == IInv /\ Crash => IInv'
<1> SUFFICES ASSUME IInv, Crash PROVE IInv'
  OBVIOUS
<1>1. trouble' \in 0..MaxTrouble
  BY FilesAssumption DEF Crash, Disturb, IInv, TypeOK
<1>2. Stop /\ UNCHANGED <<files, state, mine>>
  BY DEF Crash, Stop, kept
<1>3. ASSUME NEW r \in late' PROVE ValidRequest(r) /\ (r.kind # "upload" /\ Active(r.id) => r.id \in mine)
  <2>1. CASE r \in late
    BY <2>1 DEF IInv, RequestsValid, Owned
  <2>2. CASE r = Request /\ pc \in {"upload", "patch", "put", "delete", "cleanup"}
    <3>1. ValidRequest(Request) /\ (Request.kind # "upload" => pc # "upload" /\ Request.id = state.id)
      BY <2>2, Requests DEF IInv
    <3>2. pc # "upload" => state # None
      BY <2>2 DEF IInv, Standing
    <3> QED BY <2>2, <3>1, <3>2 DEF IInv, Owned
  <2> QED BY <1>3, <2>1, <2>2, Stops DEF Crash
<1>4. RequestsValid' /\ Owned'
  BY <1>2, <1>3 DEF RequestsValid, ValidRequest, Owned, Active, IInv
<1> QED BY <1>1, <1>2, <1>4, StopStep

LEMMA ImportStep == IInv /\ Import => IInv'
<1> SUFFICES ASSUME IInv, Import PROVE IInv'
  OBVIOUS
<1>1. PICK i \in Ids : /\ Active(i)
                       /\ \E v \in Views(i) : v.access \in Access /\ state' = Model(i, v, None)
                       /\ mine' = mine \cup {i}
  BY DEF Import
<1>2. PICK v \in Views(i) : v.access \in Access /\ state' = [id |-> i, file |-> v, sha |-> None]
  BY <1>1 DEF Model
<1>3. v \in Versions
  BY <1>1, ViewsTyped DEF IInv
<1>4. state' \in Models /\ state'.id = i
  BY <1>2, <1>3 DEF Models, Versions
<1>5. state' # None
  BY <1>4, FilesAssumption
<1>6. /\ phase = "idle" /\ state = None /\ pc = "done"
      /\ UNCHANGED <<files, before, late, local, config, tainted, phase, op, pc, source, seen, count,
                     failed, quiet, lagging, trouble>>
  BY DEF Import, portal, handler, frame, IInv, Standing
<1>7. TypeOK'
  BY <1>1, <1>4, <1>5, <1>6 DEF IInv, TypeOK, Active
<1>8. RequestsValid' /\ Owned' /\ Standing' /\ InSync'
  BY <1>1, <1>4, <1>6 DEF IInv, RequestsValid, ValidRequest, Owned, Active, Standing, InSync
<1> QED BY <1>7, <1>8 DEF IInv

----------------------------------------------------------------------------
(* Everybody else.                                                         *)

LEMMA CatchUpStep == IInv /\ CatchUp => IInv'
<1> SUFFICES ASSUME IInv, CatchUp PROVE IInv'
  OBVIOUS
<1>1. /\ before' = None
      /\ UNCHANGED <<files, late, local, config, state, tainted, phase, op, pc, source, seen, count,
                     failed, quiet, lagging, mine, trouble>>
  BY DEF CatchUp, kept, handler, frame
<1> QED BY <1>1 DEF IInv, TypeOK, RequestsValid, ValidRequest, Owned, Active, Standing, InSync,
       Harmless, Refreshed, Fulfilled, Described, Told

LEMMA ForeignStep == IInv /\ Foreign => IInv'
<1> SUFFICES ASSUME IInv, Foreign PROVE IInv'
  OBVIOUS
<1>1. /\ trouble' \in 0..MaxTrouble /\ mine' = {i \in mine : files'[i] # None}
      /\ UNCHANGED <<before, late, config, state, tainted, phase, op, pc, source, seen, count,
                     failed, lagging>>
  BY FilesAssumption DEF Foreign, Disturb, IInv, TypeOK, kept, handler
<1>2. CASE UNCHANGED <<files, quiet>> /\ local' \in Contents
  <2>1. mine' = mine
    BY <1>1, <1>2 DEF IInv, TypeOK, Active
  <2> QED BY <1>1, <1>2, <2>1 DEF IInv, TypeOK, RequestsValid, ValidRequest, Owned, Active, Standing,
         InSync, Harmless, Refreshed, Fulfilled, Described, Told
<1>3. CASE ~(UNCHANGED <<files, quiet>> /\ local' \in Contents)
  <2>1. UNCHANGED local /\ quiet' = (phase = "idle")
    BY <1>3 DEF Foreign
  <2>2. PICK i \in Ids :
          \/ Active(i) /\ \E s \in Stems : files' = [files EXCEPT ![i].stem = s]
          \/ Active(i) /\ \E d \in Folders : files' = [files EXCEPT ![i].folder = d]
          \/ Active(i) /\ \E a \in Access \cup {Hidden} : files' = [files EXCEPT ![i].access = a]
          \/ Active(i) /\ \E c \in Contents : files' = [files EXCEPT ![i].content = c]
          \/ Active(i) /\ files' = [files EXCEPT ![i] = None]
          \/ i \in Free /\ \E c \in Configs \ {None} : files' = [files EXCEPT ![i] = c]
    BY <1>3 DEF Foreign
  <2>3. /\ files' \in [Ids -> Versions \cup {None}]
        /\ \A j \in Ids : j # i => files'[j] = files[j]
    <3>1. CASE Active(i)
      <4>1. files[i] \in Versions
        BY <3>1 DEF IInv, TypeOK, Active
      <4>2. /\ \A s \in Stems : [files[i] EXCEPT !.stem = s] \in Versions
            /\ \A d \in Folders : [files[i] EXCEPT !.folder = d] \in Versions
            /\ \A a \in Access \cup {Hidden} : [files[i] EXCEPT !.access = a] \in Versions
            /\ \A c \in Contents : [files[i] EXCEPT !.content = c] \in Versions
        BY <4>1 DEF Versions
      <4> QED BY <2>2, <3>1, <4>2 DEF IInv, TypeOK, Free
    <3>2. CASE ~Active(i)
      BY <2>2, <3>2, FieldsOf DEF IInv, TypeOK
    <3> QED BY <3>1, <3>2
  <2>4. TypeOK'
    <3>1. quiet' \in BOOLEAN
      BY <2>1
    <3> QED BY <1>1, <2>1, <2>3, <3>1 DEF IInv, TypeOK, Active
  <2>5. RequestsValid' /\ Standing' /\ InSync'
    BY <1>1, <2>1 DEF IInv, RequestsValid, ValidRequest, Standing, InSync
  <2>6. ASSUME NEW j \in Ids, Known(j), Active(j) => j \in mine, files'[j] # None
        PROVE  j \in mine'
    BY <1>1, <2>2, <2>3, <2>6 DEF Free, Active
  <2>7. Owned'
    BY <1>1, <2>6 DEF IInv, Owned, RequestsValid, ValidRequest, TypeOK, Models, Known, Active
  <2> QED BY <2>4, <2>5, <2>7 DEF IInv
<1> QED BY <1>2, <1>3

LEMMA ArriveLateStep == IInv /\ ArriveLate => IInv'
<1> SUFFICES ASSUME IInv, ArriveLate PROVE IInv'
  OBVIOUS
<1>1. UNCHANGED <<local, config, state, tainted, phase, op, pc, source, seen, count, failed, quiet,
                  lagging, trouble>>
  BY DEF ArriveLate, kept, handler, frame
<1>2. PICK r \in late : /\ late' = late \ {r}
                        /\ TakeEffect(r) \/ UNCHANGED <<files, before, mine>>
  BY DEF ArriveLate
<1>3. ValidRequest(r)
  BY DEF IInv, RequestsValid
<1>4. CASE UNCHANGED <<files, before, mine>>
  BY <1>1, <1>2, <1>4 DEF IInv, TypeOK, RequestsValid, ValidRequest, Owned, Active, Standing,
         InSync, Harmless, Refreshed, Fulfilled, Described, Told
<1>5. CASE TakeEffect(r)
  <2>1. /\ files' \in [Ids -> Versions \cup {None}] /\ before' \in Moves \cup {None}
        /\ mine' \subseteq {j \in Ids : files'[j] # None}
        /\ \A j \in Ids : Known(j) /\ ~Active(j) => files'[j] = None
        /\ \A j \in Ids : Known(j) /\ (Active(j) => j \in mine) /\ files'[j] # None => j \in mine'
    BY <1>3, <1>5, TakenEffect DEF IInv
  <2>2. TypeOK' /\ RequestsValid' /\ Standing'
    BY <1>1, <1>2, <2>1 DEF IInv, TypeOK, Active, RequestsValid, ValidRequest, Standing
  <2>3. Owned'
    BY <1>1, <1>2, <2>1 DEF IInv, Owned, RequestsValid, ValidRequest, TypeOK, Models, Known, Active
  <2>4. InSync'
    <3>1. SUFFICES ASSUME phase # "idle", quiet, ~failed PROVE InSync'
      BY <1>1 DEF InSync
    <3>2. /\ phase = "apply" /\ Harmless(r) /\ r.kind # "upload"
          /\ \A q \in late : Harmless(q)
      BY <3>1 DEF IInv, InSync, Standing, TypeOK, Harmless
    <3>3. ASSUME NEW q \in late, Harmless(q) PROVE Harmless(q)'
      <4>1. q.kind = "delete" /\ ~Active(q.id) => ~Active(q.id)'
        BY <2>1 DEF IInv, RequestsValid, ValidRequest, Known, Active
      <4> QED BY <1>1, <3>3, <4>1 DEF Harmless
    <3>4. CASE r.kind = "delete"
      <4>1. Active(r.id)
        BY <1>5, <3>4 DEF TakeEffect, Accepts
      <4>2. pc \in {"absent", "cleaned"}
        BY <3>2, <3>4, <4>1 DEF Harmless
      <4>3. before' \in {before, None}
        BY <1>3, <1>5, <3>4, Effect DEF IInv, Took
      <4> QED BY <1>1, <1>2, <3>1, <3>2, <3>3, <4>2, <4>3 DEF IInv, InSync
    <3>5. CASE r.kind \in {"patch", "put"}
      <4>1. /\ op = "update" /\ state # None /\ r.id = state.id /\ config # None
            /\ r.kind = "patch" => \A f \in DOMAIN r.values : r.values[f] = config[f]
            /\ r.kind = "put" => r.file = config /\ pc \in {"replaced", "done"}
        BY <3>2, <3>5 DEF Harmless, IInv, Standing
      <4>2. /\ files'[state.id] # None
            /\ \A f \in Fields : files[state.id][f] = config[f] => files'[state.id][f] = config[f]
            /\ r.kind = "patch" => files'[state.id].content = files[state.id].content
            /\ before' \in {before, None} \/ before'.folder # config.folder
        BY <1>3, <1>5, <3>5, <4>1, Repeats DEF IInv
      <4>3. Told \cup {"content"} \subseteq Fields
        BY DEF Told, Fields
      <4>4. Described => Described'
        BY <1>1, <4>2, <4>3 DEF Described, Told
      <4>5. Fulfilled => Fulfilled'
        BY <1>1, <4>1, <4>2, <4>3 DEF Fulfilled, Told, Active
      <4>6. Active(state.id)'
        BY <1>1, <4>2 DEF Active
      <4>7. pc \notin {"replaced", "done"} => r.kind = "patch"
        BY <3>5, <4>1
      <4>8. ~lagging /\ before' # None => before'.folder # config.folder
        BY <3>1, <4>2 DEF IInv, InSync
      <4> QED BY <1>1, <1>2, <3>1, <3>2, <3>3, <4>1, <4>2, <4>4, <4>5, <4>6, <4>7, <4>8
              DEF IInv, InSync
    <3> QED BY <1>3, <3>2, <3>4, <3>5 DEF ValidRequest
  <2> QED BY <2>2, <2>3, <2>4 DEF IInv
<1> QED BY <1>2, <1>4, <1>5

----------------------------------------------------------------------------
(* The theorems.                                                           *)

LEMMA Initially == Init => IInv
<1> SUFFICES ASSUME Init PROVE IInv
  OBVIOUS
<1>1. TypeOK
  <2>1. {failed, quiet, lagging} \subseteq BOOLEAN /\ tainted \in BOOLEAN /\ ~tainted
    BY DEF Init
  <2> QED BY <2>1, FilesAssumption DEF Init, TypeOK
<1> QED BY <1>1 DEF Init, IInv, RequestsValid, Standing, Owned, InSync

LEMMA Stutters == IInv /\ UNCHANGED vars => IInv'
<1> SUFFICES ASSUME IInv, UNCHANGED vars PROVE IInv'
  OBVIOUS
<1>1. UNCHANGED <<files, before, late, local, config, state, tainted, phase, op, pc, source, seen,
                  count, failed, quiet, lagging, mine, trouble>>
  BY DEF vars, portal, kept, handler, frame
<1> QED BY <1>1 DEF IInv, TypeOK, RequestsValid, ValidRequest, Owned, Active, Standing,
       InSync, Harmless, Refreshed, Fulfilled, Described, Told

LEMMA Inductive == IInv /\ [Next]_vars => IInv'
<1>1. IInv /\ Handle => IInv'
  BY ReadsStep, ReadFailsStep, UploadStep, WriteStep, WriteFailsStep DEF Handle
<1> QED BY <1>1, StartRunStep, PlanStep, ReplaceStep, EndRunStep, CrashStep, ImportStep,
       CatchUpStep, ForeignStep, ArriveLateStep, Stutters DEF Next

\* The inductive invariant of the file resource.
THEOREM Invariance == Spec => []IInv
BY Initially, Inductive, PTL DEF Spec

\* Every variable stays in its domain: state never holds an access state
\* outside the contract, and what is called own exists (fileModelFromRemote).
THEOREM TypeCorrect == Spec => []TypeOK
<1>1. IInv => TypeOK
  BY DEF IInv
<1> QED BY <1>1, Invariance, PTL

\* A run that ends without an error has left the file as it was asked for,
\* whatever became of its requests and whichever reads were stale (Create,
\* Update and Delete of file_resource.go).
THEOREM SuccessVerified == Spec => []SuccessIsVerified
<1>1. IInv => SuccessIsVerified
  <2>1. SUFFICES ASSUME IInv, phase = "apply", pc = "done", quiet, ~failed, ~Replacing
                 PROVE  IF config = None THEN state = None
                        ELSE /\ state # None /\ ~tainted /\ Active(state.id)
                             /\ \A f \in DOMAIN config \ (IF lagging THEN {"folder"} ELSE {}) :
                                  files[state.id][f] = config[f]
                             /\ state.sha = config.content
    BY DEF SuccessIsVerified
  <2>2. Fulfilled
    BY <2>1 DEF IInv, InSync, Replacing, Fulfilled
  <2>3. config # None => DOMAIN config \ (IF lagging THEN {"folder"} ELSE {}) \subseteq Told \cup {"content"}
    BY <2>1, FieldsOf DEF Told, Fields, IInv, TypeOK
  <2> QED BY <2>2, <2>3 DEF Fulfilled
<1> QED BY <1>1, Invariance, PTL

\* State lets go of an ID only when its file is gone (waitForFileAbsent, and
\* the 404 that Read and the cleanup of Create wait for).
THEOREM LetsGoWhenGone == Spec => LetGoOnlyWhenGone
<1>1. IInv /\ [Next]_vars => [state # None /\ state' = None => ~Active(state.id)]_vars
  <2> SUFFICES ASSUME IInv, Next, state # None, state' = None, Active(state.id) PROVE FALSE
    OBVIOUS
  <2>1. ASSUME NEW v \in Versions, NEW sha \in Contents \cup {None}, Record(state.id, v, sha)
        PROVE  FALSE
    <3>1. v.access \in Access /\ state' = [id |-> state.id, file |-> v, sha |-> sha]
      BY <2>1 DEF Record, Model, Fail, kept
    <3>2. state' \in Models
      BY <3>1 DEF IInv, TypeOK, Models, Versions
    <3> QED BY <3>2, FilesAssumption
  <2>2. CASE Read
    <3>1. PICK v \in Views(state.id) : IF v = None THEN Forget ELSE Record(state.id, v, state.sha)
      BY <2>2 DEF Read
    <3> QED BY <2>1, <3>1, Seen DEF Models
  <2>3. CASE VerifyCreate \/ AwaitFile
    <3>1. config # None /\ config \in Wanted
      BY <2>3, FieldsOf DEF VerifyCreate, AwaitFile, IInv, Standing, TypeOK
    <3>2. PICK v \in Views(state.id) : v # None /\ Record(state.id, v, config.content)
      BY <2>3 DEF VerifyCreate, AwaitFile, Continue, Again, Fail, kept
    <3> QED BY <2>1, <3>1, <3>2, Seen DEF Wanted
  <2>4. CASE CompareContent
    <3>1. config # None /\ config \in Wanted /\ seen \in Versions
      BY <2>4, FieldsOf DEF CompareContent, IInv, Standing, TypeOK
    <3>2. Record(state.id, seen, config.content)
      BY <2>4 DEF CompareContent, Continue, kept
    <3> QED BY <2>1, <3>1, <3>2 DEF Wanted
  <2>5. CASE Prepare \/ Current \/ Collide \/ AwaitAbsence \/ ReadFails
    BY <2>5 DEF Prepare, Current, Collide, AwaitAbsence, ReadFails, Continue, Again, Fail, kept
  <2>6. CASE Upload
    BY <2>6 DEF Upload, IInv, Standing
  <2>7. CASE Write \/ WriteFails
    BY <2>7 DEF Write, WriteFails, Written, Continue, Fail, kept
  <2>8. CASE StartRun \/ Plan \/ Replace \/ EndRun \/ Crash \/ Import \/ CatchUp \/ Foreign \/ ArriveLate
    BY <2>8 DEF StartRun, Plan, Replace, EndRun, Crash, Stop, Import, CatchUp, Foreign, ArriveLate, kept
  <2> QED BY <2>2, <2>3, <2>4, <2>5, <2>6, <2>7, <2>8 DEF Next, Handle, Reads
<1> QED BY <1>1, Invariance, PTL DEF LetGoOnlyWhenGone, Spec

\* The provider changes and deletes only files of its own, and sends only the
\* bytes that the configuration names (inspectManagedFileSource, and the
\* cleanup of Create in file_resource.go).
THEOREM OwnFilesOnly == Spec => OwnFilesReviewedBytes
<1> DEFINE Step ==
      \A i \in Ids : files'[i] # files[i] /\ (pc' # pc \/ late' # late) =>
        /\ files[i] # None => i \in mine
        /\ pc' # pc /\ files'[i] # None =>
             \/ files'[i].content = config.content
             \/ files[i] # None /\ files'[i].content = files[i].content
<1>1. IInv /\ [Next]_vars => [Step]_vars
  <2> SUFFICES ASSUME IInv, Next PROVE Step
    OBVIOUS
  <2>1. CASE UNCHANGED files
    BY <2>1
  <2>2. CASE UNCHANGED <<pc, late>>
    BY <2>2
  <2>3. CASE Upload /\ TakeEffect(Request)
    <3>1. ValidRequest(Request) /\ Request.kind = "upload" /\ Request.file = config
      BY <2>3, Requests DEF Upload, IInv
    <3>2. PICK i \in Ids, v \in Versions \cup {None} : Took(Request, i, v)
      BY <2>3, <3>1, Effect DEF IInv
    <3>3. /\ ~Active(i) /\ files'[i].content = config.content
          /\ \A j \in Ids : files'[j] # files[j] => j = i
      BY <3>1, <3>2 DEF Took, Free, IInv, TypeOK
    <3> QED BY <3>3 DEF Active
  <2>4. CASE (Write \/ WriteFails) /\ TakeEffect(Request)
    <3>1. pc \in {"patch", "put", "delete", "cleanup"} /\ state # None
      BY <2>4, Stops DEF Write, WriteFails, IInv, Standing
    <3>2. ValidRequest(Request) /\ Request.kind # "upload" /\ Request.id = state.id
      BY <3>1, Requests DEF IInv
    <3>3. PICK i \in Ids, v \in Versions \cup {None} : Took(Request, i, v)
      BY <2>4, <3>2, Effect DEF IInv
    <3>4. /\ i = state.id /\ i \in mine /\ files'[i] = v
          /\ \A j \in Ids : files'[j] # files[j] => j = i
      BY <3>1, <3>2, <3>3 DEF Took, IInv, TypeOK, Owned
    <3>5. v = None \/ v.content = config.content \/ v.content = files[i].content
      <4>1. "content" \in Fields /\ "content" \notin Metadata
        BY DEF Fields, Metadata
      <4>2. pc \in {"delete", "cleanup"} => v = None
        BY <3>3, Requests DEF IInv, Took
      <4>3. pc = "put" => v.content = config.content
        BY <3>3, <4>1, Requests DEF IInv, Took
      <4>4. pc = "patch" => v.content = files[i].content
        BY <3>3, <4>1, Requests DEF IInv, Took
      <4> QED BY <3>1, <4>2, <4>3, <4>4
    <3>6. files[i] # None
      BY <3>2, <3>3 DEF Took, Active
    <3> QED BY <3>4, <3>5, <3>6
  <2>5. CASE ArriveLate
    <3>1. pc' = pc
      BY <2>5 DEF ArriveLate, handler
    <3>2. PICK r \in late : TakeEffect(r) \/ UNCHANGED files
      BY <2>5 DEF ArriveLate
    <3>3. CASE TakeEffect(r)
      <4>1. PICK i \in Ids, v \in Versions \cup {None} : Took(r, i, v)
        BY <3>3, Effect DEF IInv, RequestsValid
      <4>2. \A j \in Ids : files'[j] # files[j] => j = i
        BY <4>1 DEF Took, IInv, TypeOK
      <4>3. files[i] # None => i \in mine
        BY <4>1 DEF Took, Free, Active, IInv, Owned
      <4> QED BY <3>1, <4>2, <4>3
    <3> QED BY <3>2, <3>3, <2>1
  <2>6. CASE Reads \/ ReadFails \/ StartRun \/ Plan \/ Replace \/ EndRun \/ Crash \/ Import \/ CatchUp
    BY <2>1, <2>6 DEF Reads, ReadFails, StartRun, Plan, Replace, EndRun, Crash, Stop, Import, CatchUp, portal
  <2>7. CASE Foreign
    BY <2>2, <2>7 DEF Foreign, handler
  <2> QED BY <2>1, <2>3, <2>4, <2>5, <2>6, <2>7 DEF Next, Handle, Upload, Write, WriteFails, portal
<1> QED BY <1>1, Invariance, PTL DEF OwnFilesReviewedBytes, Spec
=============================================================================
