-------------------------------- MODULE Files --------------------------------
(***************************************************************************)
(* The hubspot_file resource: a file in HubSpot with a generated ID, whose *)
(* bytes come from a local file bound to a digest in the configuration.    *)
(* No write is repeated.  A file that did not come out as planned is       *)
(* deleted again; a change of metadata is a PATCH, a change of bytes a PUT *)
(* that carries name and access, too.                                      *)
(***************************************************************************)
EXTENDS Integers

CONSTANTS
  Ids,         \* generated IDs, given out again once nobody knows them
  Stems,       \* file names without their extension
  Extensions,  \* the extensions
  Folders,     \* folders, all of them active
  Contents,    \* bytes, as good as their digests
  Configs,     \* files the author may ask for, None to destroy
  Polls,       \* reads that fit in a wait
  Lags,        \* whether a read may show a moved file where it was
  MaxTrouble,  \* bound on failures, crashes and foreign changes
  None         \* no file

Access == {"PRIVATE", "PUBLIC"}   \* the supported states; there are others
Hidden == "HIDDEN"

Wanted == [stem : Stems, ext : Extensions, folder : Folders, access : Access,
           content : Contents]
Versions == [stem : Stems \cup {"normalized"}, ext : Extensions, folder : Folders,
             access : Access \cup {Hidden}, content : Contents]
Models == [id : Ids, file : [stem : Stems \cup {"normalized"}, ext : Extensions,
                             folder : Folders, access : Access, content : Contents],
           sha : Contents \cup {None}]
Moves == [id : Ids, folder : Folders]

ASSUME FilesAssumption ==
  /\ Polls \in Nat \ {0} /\ MaxTrouble \in Nat /\ Lags \in BOOLEAN
  /\ Configs \subseteq {None} \cup Wanted
  /\ None \notin Contents \cup Versions \cup Models \cup Moves

VARIABLES
  files,    \* the active files, by ID
  before,   \* the file that was moved last and where from, while reads may tell
  late,     \* requests whose caller has given up, still on their way
  local,    \* the bytes at source_path
  config,   \* the configuration being applied
  state,    \* fileResourceModel
  tainted,  \* whether the creation ended in an error after state was set
  phase,    \* what Terraform is doing
  op,       \* the handler that runs, or ran
  pc,       \* where it stands
  source,   \* the bytes it has read and found to match the digest
  seen,     \* the remote file it has read
  count,    \* reads made by the wait it is in
  failed,   \* whether this run has reported an error
  quiet,    \* whether nobody else has changed anything during this run
  lagging,  \* whether a read could show an old folder when the run began
  mine,     \* files that were uploaded by the provider or imported
  trouble   \* how much has gone wrong so far

portal == <<files, before, late>>
kept == <<state, tainted>>
handler == <<op, pc, source, seen, count>>
frame == <<local, config, phase, quiet, lagging>>
vars == <<portal, kept, handler, failed, frame, mine, trouble>>

Metadata == {"stem", "ext", "folder", "access"}

Init ==
  /\ files = [i \in Ids |-> None] /\ before = None /\ late = {}
  /\ local \in Contents /\ config \in Configs
  /\ state = None /\ tainted = FALSE
  /\ phase = "idle" /\ op = "none" /\ pc = "done"
  /\ source = None /\ seen = None /\ count = 0
  /\ failed = FALSE /\ quiet = TRUE /\ lagging = FALSE
  /\ mine = {} /\ trouble = 0

----------------------------------------------------------------------------
(* HubSpot.                                                                *)

Active(i) == files[i] # None
Named(f, folder) == {i \in Ids : Active(i) /\ files[i].stem = f.stem /\ files[i].ext = f.ext
                                 /\ files[i].folder = folder}
Known(i) == \/ state # None /\ state.id = i
            \/ \E r \in late : r.kind # "upload" /\ r.id = i
Free == {i \in Ids : ~Active(i) /\ ~Known(i)}
Fresh == CHOOSE i \in Free : TRUE

\* duplicateValidationStrategy, within the folder and by content.
ReturnExisting == "RETURN_EXISTING"
Strategy == "REJECT"
Same(r) == {i \in Ids : /\ Active(i) /\ files[i].folder = r.file.folder
                        /\ files[i].content = r.file.content}

Accepts(r) ==
  IF r.kind = "upload" THEN IF Same(r) = {} THEN Free # {} ELSE Strategy # "REJECT"
  ELSE Active(r.id)

\* The ID an upload is answered with.
Answer(r) == IF Same(r) = {} THEN Fresh ELSE CHOOSE i \in Same(r) : TRUE

\* An upload under a name that is taken is given another.  A PATCH sends the
\* stem and leaves the extension alone; a PUT sends the whole name.
Uploaded(f) == IF Named(f, f.folder) = {} THEN f ELSE [f EXCEPT !.stem = "normalized"]
Result(r) ==
  CASE r.kind = "upload" -> Uploaded(r.file)
    [] r.kind = "patch"  -> [f \in DOMAIN files[r.id] |-> IF f \in DOMAIN r.values \ {"ext"}
                                                   THEN r.values[f] ELSE files[r.id][f]]
    [] r.kind = "put"    -> [r.file EXCEPT !.folder = files[r.id].folder]
    [] r.kind = "delete" -> None

Moved(r) == r.kind = "patch" /\ files[r.id].folder # Result(r).folder

TakeEffect(r) ==
  /\ Accepts(r)
  /\ files' = IF r.kind # "upload" THEN [files EXCEPT ![r.id] = Result(r)]
              ELSE IF Same(r) = {} THEN [files EXCEPT ![Fresh] = Result(r)] ELSE files
  /\ before' \in IF Lags /\ Moved(r) THEN {None, [id |-> r.id, folder |-> files[r.id].folder]}
                 ELSE {before}
  /\ mine' = CASE r.kind = "upload" /\ Same(r) = {} -> mine \cup {Fresh}
               [] r.kind = "delete" -> mine \ {r.id}
               [] OTHER -> mine

\* What an exact-ID read may return; 404 when the file is not active.
Views(i) ==
  IF ~Active(i) THEN {None}
  ELSE {files[i]} \cup (IF before = None THEN {}
                        ELSE IF before.id = i THEN {[files[i] EXCEPT !.folder = before.folder]}
                        ELSE {})

Disturb == trouble < MaxTrouble /\ trouble' = trouble + 1

----------------------------------------------------------------------------
(* How a handler goes on and ends.                                         *)

Goto(l, s, v) == pc' = l /\ source' = s /\ seen' = v /\ count' = 0 /\ UNCHANGED op
Done == Goto("done", None, None)

Continue(l, s, v) == Goto(l, s, v) /\ UNCHANGED <<kept, failed>>
Fail == Done /\ failed' = TRUE /\ UNCHANGED kept
Forget == Done /\ state' = None /\ tainted' = FALSE /\ UNCHANGED failed

Again ==
  /\ count + 1 < Polls /\ count' = count + 1
  /\ UNCHANGED <<op, pc, source, seen, kept, failed>>

\* fileModelFromRemote: an access state outside the contract is refused.
Model(i, v, sha) == [id |-> i, file |-> v, sha |-> sha]
RecordAnyAccess(i, v, sha) ==
  Done /\ state' = Model(i, v, sha) /\ tainted' = (tainted /\ op = "read") /\ UNCHANGED failed
Record(i, v, sha) ==
  IF v.access \notin Access THEN Fail
  ELSE /\ Done
       /\ state' = Model(i, v, sha)
       /\ tainted' = (tainted /\ op = "read")
       /\ UNCHANGED failed

\* inspectManagedFileSource
Verified == local = config.content

MatchesMetadata(v) == \A f \in Metadata : v[f] = config[f]
MatchesPlan(v) == v = [f \in DOMAIN config |-> IF f = "content" THEN source ELSE config[f]]

Collision(own) == Named(config, config.folder) \ {own} # {}

----------------------------------------------------------------------------
(* The handlers.                                                           *)

Read ==
  /\ op = "read" /\ pc = "get"
  /\ \E v \in Views(state.id) : IF v = None THEN Forget ELSE Record(state.id, v, state.sha)

\* Create inspects the source and looks for a file of that name.
Prepare ==
  /\ op = "create" /\ pc = "prepare"
  /\ IF ~Verified \/ Collision(None) THEN Fail ELSE Continue("upload", local, None)

\* A generated ID that reads back as planned is kept, any other file is
\* deleted again; when the read fails the ID is kept for recovery.
VerifyCreate ==
  /\ pc = "verify"
  /\ \E v \in Views(state.id) :
       IF v = None THEN Fail
       ELSE IF MatchesPlan(v) THEN Record(state.id, v, config.content)
       ELSE Continue("cleanup", None, None)

\* Update inspects the source and reads the file.
Current ==
  /\ op = "update" /\ pc = "current"
  /\ \E v \in Views(state.id) :
       IF ~Verified \/ v = None THEN Fail
       ELSE Continue(IF MatchesMetadata(v) THEN "content" ELSE "collide", local, v)

Collide ==
  /\ pc = "collide"
  /\ IF Collision(state.id) THEN Fail ELSE Continue("patch", source, seen)

\* Bytes are compared by MD5 and size, with what was read last.
CompareContent ==
  /\ pc = "content"
  /\ IF seen.content # source THEN Continue("put", source, seen)
     ELSE Record(state.id, seen, config.content)

\* waitForManagedFile, after a PATCH and after a PUT.
Expected(v) == IF pc = "patched" THEN MatchesMetadata(v) ELSE MatchesPlan(v)
AwaitFile ==
  /\ pc \in {"patched", "replaced"}
  /\ \E v \in Views(state.id) :
       IF v = None THEN Fail
       ELSE IF ~Expected(v) THEN Again \/ (count + 1 = Polls /\ Fail)
       ELSE IF pc = "patched" THEN Continue("content", source, v)
       ELSE Record(state.id, v, config.content)

\* waitForFileAbsent: only a 404 tells that a file is gone.
AbsenceTrusted ==
  /\ pc \in {"absent", "cleaned"}
  /\ IF pc = "absent" THEN Forget
     ELSE Done /\ state' = None /\ tainted' = FALSE /\ failed' = TRUE
AwaitAbsence ==
  /\ pc \in {"absent", "cleaned"}
  /\ IF Active(state.id) THEN Again \/ (count + 1 = Polls /\ Fail)
     ELSE IF pc = "absent" THEN Forget
     ELSE Done /\ state' = None /\ tainted' = FALSE /\ failed' = TRUE

Reads ==
  /\ \/ Read \/ Prepare \/ VerifyCreate \/ Current \/ Collide \/ CompareContent
     \/ AwaitFile \/ AwaitAbsence
  /\ UNCHANGED <<portal, frame, mine, trouble>>

\* A read fails otherwise than by 404, or the folder's path cannot be told.
ReadFails ==
  /\ pc \in {"get", "prepare", "verify", "current", "collide", "content", "patched",
             "replaced", "absent", "cleaned"}
  /\ Fail /\ Disturb
  /\ UNCHANGED <<portal, frame, mine>>

Request ==
  CASE pc = "upload" -> [kind |-> "upload", file |-> [config EXCEPT !.content = source]]
    [] pc = "patch" -> [kind |-> "patch", id |-> state.id, values |->
                        [f \in {g \in Metadata : seen[g] # config[g]} |-> config[f]]]
    [] pc = "put" -> [kind |-> "put", id |-> state.id,
                      file |-> [config EXCEPT !.content = source]]
    [] OTHER -> [kind |-> "delete", id |-> state.id]

\* An upload that is answered with an ID puts it into state at once.
Upload ==
  /\ pc = "upload"
  /\ \/ /\ TakeEffect(Request)
        /\ state' = Model(Answer(Request), config, config.content) /\ tainted' = TRUE
        /\ Goto("verify", source, None)
        /\ UNCHANGED <<late, failed, trouble>>
     \/ ~Accepts(Request) /\ Fail /\ UNCHANGED <<portal, mine, trouble>>
     \/ \* no answer with an ID, whatever became of the request
        /\ \/ TakeEffect(Request) /\ UNCHANGED late
           \/ late' = late \cup {Request} /\ UNCHANGED <<files, before, mine>>
           \/ UNCHANGED <<portal, mine>>
        /\ Fail
        /\ Disturb
  /\ UNCHANGED frame

After == [patch |-> "patched", put |-> "replaced", delete |-> "absent", cleanup |-> "cleaned"]
Written == Continue(After[pc], source, seen)

Write ==
  /\ pc \in DOMAIN After
  /\ \/ TakeEffect(Request) /\ Written
     \/ /\ ~Accepts(Request)
        /\ IF pc \in {"delete", "cleanup"} THEN Written ELSE Fail
        /\ UNCHANGED <<files, before, mine>>
  /\ UNCHANGED <<late, frame, trouble>>

\* An ambiguous error, settled by the reads that follow, or one that is final.
WriteFails ==
  /\ pc \in DOMAIN After
  /\ \/ TakeEffect(Request) /\ UNCHANGED late /\ Written
     \/ late' = late \cup {Request} /\ UNCHANGED <<files, before, mine>> /\ Written
     \/ UNCHANGED <<portal, mine>> /\ (Written \/ Fail)
  /\ Disturb
  /\ UNCHANGED frame

Handle == Reads \/ ReadFails \/ Upload \/ Write \/ WriteFails

----------------------------------------------------------------------------
(* Terraform.                                                              *)

Begin(o, l) == op' = o /\ pc' = l /\ source' = None /\ seen' = None /\ count' = 0

\* The author edits the configuration and the source before a run.
StartRun ==
  /\ phase = "idle" /\ phase' = "refresh"
  /\ config' \in Configs /\ local' \in Contents
  /\ IF state = None THEN Begin("none", "done") ELSE Begin("read", "get")
  /\ quiet' = (late = {}) /\ lagging' = (before # None)
  /\ UNCHANGED <<portal, kept, failed, mine, trouble>>

\* ModifyPlan binds a plan to the source; a drift of the bytes is a change.
DiffersAsConfigured == ~MatchesMetadata(state.file) \/ state.sha # config.content
Differs == \/ ~MatchesMetadata(state.file)
           \/ state.file.content # local \/ state.sha # config.content

Plan ==
  /\ phase = "refresh" /\ pc = "done" /\ ~failed
  /\ IF config # None /\ ~Verified THEN failed' = TRUE /\ UNCHANGED <<phase, handler>>
     ELSE /\ phase' = "apply" /\ UNCHANGED failed
          /\ CASE state = None /\ config # None -> Begin("create", "prepare")
               [] state # None /\ (config = None \/ tainted) -> Begin("delete", "delete")
               [] state # None /\ config # None /\ ~tainted ->
                    IF Differs THEN Begin("update", "current") ELSE Begin("none", "done")
               [] OTHER -> Begin("none", "done")
  /\ UNCHANGED <<portal, kept, local, config, quiet, lagging, mine, trouble>>

Replacing == op = "delete" /\ state = None /\ config # None /\ ~failed

Replace ==
  /\ phase = "apply" /\ pc = "done" /\ Replacing
  /\ Begin("create", "prepare")
  /\ UNCHANGED <<portal, kept, failed, frame, mine, trouble>>

Stop ==
  /\ phase' = "idle"
  /\ Begin("none", "done")
  /\ failed' = FALSE /\ quiet' = TRUE /\ lagging' = FALSE
  /\ UNCHANGED <<files, before, kept, local, config, mine>>

EndRun ==
  /\ pc = "done"
  /\ \/ phase = "refresh" /\ failed
     \/ phase = "apply" /\ ~Replacing
  /\ Stop
  /\ UNCHANGED <<late, trouble>>

\* The process is killed; a request just sent may still arrive.
Crash ==
  /\ phase # "idle" /\ Disturb
  /\ late' \in {late} \cup (IF pc \in DOMAIN After \cup {"upload"} THEN {late \cup {Request}}
                            ELSE {})
  /\ Stop

\* terraform import of an exact ID; the source is not known yet.
Import ==
  /\ phase = "idle" /\ state = None
  /\ \E i \in {j \in Ids : Active(j)} : \E v \in Views(i) :
       /\ v.access \in Access
       /\ state' = Model(i, v, None) /\ mine' = mine \cup {i}
  /\ UNCHANGED <<portal, tainted, handler, failed, frame, trouble>>

----------------------------------------------------------------------------
(* Everybody else.                                                         *)

CatchUp ==
  /\ before # None /\ before' = None
  /\ UNCHANGED <<files, late, kept, handler, failed, frame, mine, trouble>>

\* Somebody adds, edits, replaces, moves or deletes a file, or the local
\* source changes on disk while a run is under way.
Foreign ==
  /\ Disturb
  /\ \/ /\ UNCHANGED local
        /\ \E i \in Ids :
             \/ Active(i) /\ \E s \in Stems : files' = [files EXCEPT ![i].stem = s]
             \/ Active(i) /\ \E d \in Folders : files' = [files EXCEPT ![i].folder = d]
             \/ Active(i) /\ \E a \in Access \cup {Hidden} : files' = [files EXCEPT ![i].access = a]
             \/ Active(i) /\ \E c \in Contents : files' = [files EXCEPT ![i].content = c]
             \/ Active(i) /\ files' = [files EXCEPT ![i] = None]
             \/ i \in Free /\ \E c \in Configs \ {None} : files' = [files EXCEPT ![i] = c]
        /\ files' # files
        /\ quiet' = (phase = "idle")
     \/ /\ phase # "idle" /\ local' \in Contents \ {local}
        /\ UNCHANGED <<files, quiet>>
  /\ mine' = {i \in mine : files'[i] # None}
  /\ UNCHANGED <<before, late, kept, handler, failed, config, phase, lagging>>

\* A request arrives after its caller gave up, or never does.
ArriveLate ==
  \E r \in late :
    /\ late' = late \ {r}
    /\ TakeEffect(r) \/ UNCHANGED <<files, before, mine>>
    /\ UNCHANGED <<kept, handler, failed, frame, trouble>>

Next ==
  \/ Handle \/ StartRun \/ Plan \/ Replace \/ EndRun \/ Crash \/ Import
  \/ CatchUp \/ Foreign \/ ArriveLate

Spec == Init /\ [][Next]_vars
----------------------------------------------------------------------------
(* Properties.                                                             *)

\* Every variable stays in its domain; what was made here is active.
TypeOK ==
  /\ files \in [Ids -> Versions \cup {None}] /\ before \in Moves \cup {None}
  /\ local \in Contents /\ config \in Configs
  /\ source \in Contents \cup {None} /\ seen \in Versions \cup {None}
  /\ state \in Models \cup {None}
  /\ tainted \in BOOLEAN /\ (tainted => state # None)
  /\ phase \in {"idle", "refresh", "apply"}
  /\ op \in {"none", "read", "create", "update", "delete"}
  /\ pc \in {"done", "get", "prepare", "upload", "verify", "cleanup", "cleaned", "current",
            "collide", "patch", "patched", "content", "put", "replaced", "delete", "absent"}
  /\ count \in 0..(Polls - 1)
  /\ {failed, quiet, lagging} \subseteq BOOLEAN
  /\ mine \subseteq {i \in Ids : Active(i)} /\ trouble \in 0..MaxTrouble

\* The provider changes and deletes only files that it has uploaded itself or
\* that were imported, also when an upload does not come out as planned; and
\* the bytes it sends are those the configuration names by their digest, even
\* if the local file changes after the plan.
OwnFilesReviewedBytes ==
  [][\A i \in Ids : files'[i] # files[i] /\ (pc' # pc \/ late' # late) =>
       /\ files[i] # None => i \in mine
       /\ pc' # pc /\ files'[i] # None =>
            \/ files'[i].content = config.content
            \/ files[i] # None /\ files'[i].content = files[i].content]_vars

\* State lets go of an ID only when its file is gone: not because an upload
\* was not verified, or a deletion is not known to have happened.
LetGoOnlyWhenGone ==
  [][state # None /\ state' = None => ~Active(state.id)]_vars

\* A run that ends without an error has left the file under its ID with the
\* name, folder, access and bytes that were asked for, also when it had
\* nothing to send; when reads may still show an earlier move, only what does
\* not depend on the folder.
SuccessIsVerified ==
  phase = "apply" /\ pc = "done" /\ quiet /\ ~failed /\ ~Replacing =>
    IF config = None THEN state = None
    ELSE /\ state # None /\ ~tainted /\ Active(state.id)
         /\ \A f \in DOMAIN config \ (IF lagging THEN {"folder"} ELSE {}) :
              files[state.id][f] = config[f]
         /\ state.sha = config.content

\* A change of the name of a file is carried out in place: an update with
\* which nothing interferes succeeds.
NameIsMutable ==
  phase = "apply" /\ pc = "done" /\ op = "update" /\ trouble = 0 => ~failed
=============================================================================
