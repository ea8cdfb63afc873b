------------------------------ MODULE Segments ------------------------------
(***************************************************************************)
(* The hubspot_contact_segment resource.  HubSpot keeps a deleted list as  *)
(* a tombstone that can be restored, processes a change of filters in the  *)
(* background, counts the versions of a list, and may answer a read with   *)
(* the version before the last one.  No write is ever repeated: the        *)
(* provider reads until the version it waits for is there, or gives up.    *)
(***************************************************************************)
EXTENDS Integers, SegmentFilters

CONSTANTS
  Names,       \* list names
  Configs,     \* the definitions the author may ask for, None to destroy
  Trees,       \* filter trees that somebody may write in HubSpot
  Polls,       \* how many reads fit in the five minutes of a poll
  MaxTrouble,  \* bound on failures, crashes and foreign changes
  None         \* no list

Incomplete == "restoring"   \* the name of a list that is being restored
Models == {m \in [name : Names, type : {"manual", "dynamic", "snapshot"},
                  groups : SUBSET SUBSET Filters] : Writable(m)}
Types == {"manual", "dynamic", "snapshot"}
Statuses == {"PROCESSING", "COMPLETE", "FAILED"}

Stored == [name : Names \cup {Incomplete}, type : Types, groups : SUBSET SUBSET Filters]

\* The conversions are tabulated for the trees that can occur; a manual list
\* has none (contactSegmentCreateFromWrite).
Sent == [c \in Configs \ {None} |->
           IF c.type = "manual" THEN <<>> ELSE BranchFromGroups(c.groups)]
AllTrees == Trees \cup {Sent[c] : c \in Configs \ {None}}
Meaning == [t \in AllTrees |-> GroupsFromBranch(t)]

Lists == [name : Names \cup {Incomplete}, type : Types, branches : AllTrees,
          version : Nat \ {0}, status : Statuses, deleted : BOOLEAN]

ASSUME SegmentAssumption ==
  /\ Polls \in Nat \ {0} /\ MaxTrouble \in Nat
  /\ Configs \subseteq {None} \cup Models
  /\ \A c \in Configs \ {None} :
       IsFiniteSet(c.groups) /\ (\A g \in c.groups : IsFiniteSet(g))
  /\ Trees \subseteq Seq(Seq(WireFilters))
  /\ None \notin Lists \cup Stored
  /\ Incomplete \notin Names

VARIABLES
  list,     \* the list whose ID is, or was last, in state
  before,   \* the version before the last one, as long as reads may return it
  taken,    \* names of the other active lists
  late,     \* requests whose caller has given up, still on their way
  config,   \* the configuration being applied
  state,    \* contactSegmentResourceModel
  marker,   \* the private mark of a tombstone
  tainted,  \* whether the creation ended in an error after state was set
  phase,    \* what Terraform is doing
  op,       \* the handler that runs, or ran
  pc,       \* where it stands
  current,  \* the tombstone it restores
  least,    \* the version it waits for
  count,    \* reads made by the poll it is in
  failed,   \* whether this run has reported an error
  wrote,    \* whether this run sent a change of filters
  quiet,    \* whether nobody else has changed anything during this run
  lagging,  \* whether a read could return an older version when it began
  trouble   \* how much has gone wrong so far

service == <<list, before, taken>>
portal == <<list, before, taken, late>>
files == <<state, marker, tainted>>
handler == <<op, pc, current, least, count>>
frame == <<config, phase, wrote, lagging>>
vars == <<portal, config, files, phase, handler, failed, wrote, quiet, lagging, trouble>>

Init ==
  /\ list = None /\ before = None /\ taken = {} /\ late = {}
  /\ config \in Configs
  /\ state = None /\ marker = FALSE /\ tainted = FALSE
  /\ phase = "idle" /\ op = "none" /\ pc = "done"
  /\ current = None /\ least = 0 /\ count = 0
  /\ failed = FALSE /\ wrote = FALSE /\ quiet = TRUE /\ lagging = FALSE
  /\ trouble = 0

----------------------------------------------------------------------------
(* HubSpot.                                                                *)

Active == list # None /\ ~list.deleted

\* An active list that is in no state only stands in the way of its name; a
\* deleted one is as good as gone, unless it is imported.
Others == taken \cup (IF state = None /\ Active THEN {list.name} ELSE {})

Request(kind) ==
  [kind |-> kind,
   name |-> IF config = None THEN None ELSE config.name,
   type |-> IF config = None THEN None ELSE config.type,
   branches |-> IF config = None THEN <<>> ELSE Sent[config]]

Accepts(r) ==
  CASE r.kind = "create"  -> r.name \notin Others
    [] r.kind = "name"    -> Active /\ r.name \notin taken
    [] r.kind = "filters" -> Active /\ list.type = "dynamic"
    [] r.kind = "restore" -> list # None /\ list.deleted /\ list.name \notin taken
    [] r.kind = "delete"  -> Active

\* The list that an accepted request leaves, processed at once or not yet.
Results(r) ==
  CASE r.kind = "create" ->
         [name : {r.name}, type : {r.type}, branches : {r.branches}, version : {1},
          status : {"PROCESSING", "COMPLETE"}, deleted : {FALSE}]
    [] r.kind = "name" -> {[list EXCEPT !.name = r.name]}
    [] r.kind = "filters" ->
         {[list EXCEPT !.branches = r.branches, !.version = @ + 1, !.status = s] :
            s \in {"PROCESSING", "COMPLETE"}}
    [] r.kind = "restore" ->
         {[list EXCEPT !.deleted = FALSE, !.version = @ + 1, !.status = "COMPLETE"]}
    [] r.kind = "delete" -> {[list EXCEPT !.deleted = TRUE, !.version = @ + 1]}

\* What reads may return besides it for a while.
Remains(r, new) ==
  CASE r.kind = "create"  -> {None}
    [] r.kind = "filters" -> {None, list}
    [] r.kind = "restore" -> {None, [new EXCEPT !.name = Incomplete]}
    [] OTHER              -> {before}

TakeEffect(r) ==
  /\ Accepts(r)
  /\ \E new \in Results(r) : list' = new /\ before' \in Remains(r, new)
  /\ taken' = IF r.kind = "create" THEN Others ELSE taken

\* A create whose ID nobody learns.
TakeName(r) ==
  /\ Accepts(r)
  /\ taken' = taken \cup {r.name}
  /\ UNCHANGED <<list, before>>

\* Exact-ID reads, and what they tell of the filters.
Views == IF list = None THEN {None} ELSE {list, before} \ {None}
Groups(v) == IF v.type # "manual" THEN Meaning[v.branches]
             ELSE IF v.branches = <<>> THEN {} ELSE Unsupported

\* An answer that contactSegmentFromWire refuses.
Unreadable(v) == v # None /\ Groups(v) = Unsupported

Disturb == trouble < MaxTrouble /\ trouble' = trouble + 1

----------------------------------------------------------------------------
(* How a handler goes on and ends.                                         *)

Goto(l) == pc' = l /\ count' = 0 /\ UNCHANGED op
Done == Goto("done") /\ current' = None /\ least' = 0

\* Update clears the mark once it knows the list to be active.
FailMarked(m) ==
  /\ Done
  /\ failed' = TRUE
  /\ marker' = m
  /\ UNCHANGED <<state, tainted>>
Fail ==
  FailMarked(marker /\ (op # "update" \/ pc \in {"preflight", "restore", "restored"}))

ForgetMarked ==
  /\ Done
  /\ state' = None /\ tainted' = FALSE
  /\ UNCHANGED <<marker, failed>>
Forget ==
  /\ Done
  /\ state' = None /\ marker' = FALSE /\ tainted' = FALSE
  /\ UNCHANGED failed

\* contactSegmentModelFromRemote
Model(v) == [name |-> v.name, type |-> v.type, groups |-> Groups(v)]

Record(v) ==
  /\ Done
  /\ state' = Model(v)
  /\ marker' = (v.deleted /\ op # "update") /\ tainted' = (tainted /\ op = "read")
  /\ UNCHANGED failed

Continue(l, v, n) ==
  /\ Goto(l)
  /\ current' = v /\ least' = n
  /\ UNCHANGED <<files, failed>>

\* One more read within the deadline.
PollForever ==
  /\ count' = (count + 1) % Polls
  /\ UNCHANGED <<op, pc, current, least, files, failed>>
PollAgain ==
  /\ count + 1 < Polls
  /\ count' = count + 1
  /\ UNCHANGED <<op, pc, current, least, files, failed>>

\* ContactSegmentMatches
Matches(v, m) == v.name = m.name /\ v.type = m.type /\ Groups(v) = m.groups

\* What Update does next, once it has read an active list.
Proceed(v) ==
  CASE v.name # config.name -> Continue("name", None, 0)
    [] v.name = config.name /\ config.type = "dynamic" /\ Groups(v) # config.groups ->
         Continue("filters", None, v.version + 1)
    [] OTHER -> IF Matches(v, config) THEN Record(v) ELSE FailMarked(FALSE)

----------------------------------------------------------------------------
(* The reads.                                                              *)

Read ==
  /\ op = "read" /\ pc = "get"
  /\ \E v \in Views :
       CASE v = None                   -> Forget
         [] v # None /\ Unreadable(v) -> Fail
         [] OTHER                      -> Record(v)
  /\ UNCHANGED <<portal, frame, quiet, trouble>>

\* Update and Delete look first.  Update tells from what it finds, not from
\* the mark, whether the list has to be restored.
Preflight ==
  /\ pc = "preflight"
  /\ \E v \in Views :
       \/ v = None /\ IF op = "delete" THEN Forget ELSE Fail
       \/ Unreadable(v) /\ Fail
       \/ /\ v # None /\ ~Unreadable(v)
          /\ IF op = "delete"
               THEN IF v.deleted THEN Forget ELSE Continue("delete", None, 0)
               ELSE IF v.type # config.type THEN Fail
               ELSE IF v.deleted THEN Continue("restore", v, v.version + 1)
               ELSE Proceed(v)
  /\ UNCHANGED <<portal, frame, quiet, trouble>>

\* waitForActiveDefinition and waitForTombstone: pollSegment with what is
\* waited for.
Retained == [name |-> current.name, type |-> current.type, groups |-> Groups(current)]
ReadyInAnyVersion(v) ==
  IF pc = "tombstone" THEN v.deleted
  ELSE ~v.deleted /\ Matches(v, IF pc = "restored" THEN Retained ELSE config)
Ready(v) ==
  IF pc = "tombstone" THEN v.deleted
  ELSE /\ ~v.deleted /\ v.version >= least
       /\ Matches(v, IF pc = "restored" THEN Retained ELSE config)

Seen(v) ==
  CASE pc = "tombstone" -> Forget
    [] pc = "restored"  -> Proceed(v)
    [] OTHER            -> Record(v)

Await ==
  /\ pc \in {"await", "restored", "tombstone"}
  /\ \E v \in Views :
       \/ v = None /\ IF pc = "tombstone" THEN Forget ELSE PollAgain \/ Fail
       \/ Unreadable(v) /\ Fail
       \/ /\ v # None /\ ~Unreadable(v)
          /\ LET done == pc = "tombstone" \/ v.status = "COMPLETE"
             IN  IF Ready(v) /\ done THEN Seen(v)
                 ELSE IF v.status = "FAILED" THEN Fail
                 ELSE PollAgain \/ Fail
  /\ UNCHANGED <<portal, frame, quiet, trouble>>

\* After a rename, one read of the exact list (readMatchingDefinition).
CheckName ==
  /\ pc = "named"
  /\ \E v \in Views :
       IF v = None \/ Unreadable(v) THEN Fail
       ELSE IF v.deleted \/ v.name # config.name \/ v.type # config.type THEN Fail
       ELSE Proceed(v)
  /\ UNCHANGED <<portal, frame, quiet, trouble>>

----------------------------------------------------------------------------
(* The writes.                                                             *)

\* A create that is answered with an ID leaves it in state at once.  What is
\* still on its way to the list that had been in state before can only bring
\* that list back.
Create ==
  /\ op = "create" /\ pc = "create"
  /\ LET r == Request("create")
         back == {[q EXCEPT !.kind = "create", !.name = list.name] :
                    q \in {x \in late : x.kind = "restore" /\ list # None}}
     IN  \/ /\ TakeEffect(r)
            /\ late' = {q \in late : q.kind = "create"} \cup back
            /\ state' = config /\ tainted' = TRUE
            /\ Goto("await")
            /\ current' = None /\ least' = 1
            /\ UNCHANGED <<marker, failed>>
         \/ ~Accepts(r) /\ Fail /\ UNCHANGED portal
  /\ UNCHANGED <<frame, quiet, trouble>>

\* Without an ID, whatever became of the request, nothing is kept.
CreateUnknown ==
  /\ op = "create" /\ pc = "create"
  /\ \/ TakeName(Request("create")) /\ UNCHANGED late
     \/ UNCHANGED portal
     \/ late' = late \cup {Request("create")} /\ UNCHANGED service
  /\ Fail
  /\ Disturb
  /\ UNCHANGED <<frame, quiet>>

After == [restore |-> "restored", name |-> "named", filters |-> "await",
          delete |-> "tombstone"]
Written(l) == Goto(After[l]) /\ UNCHANGED <<current, least, files, failed>>

\* A change is answered; a delete that finds nothing active is done.
Write ==
  /\ pc \in DOMAIN After
  /\ LET r == Request(pc)
     IN  \/ TakeEffect(r) /\ Written(pc)
         \/ /\ ~Accepts(r)
            /\ IF pc = "delete" THEN Forget ELSE Fail
            /\ UNCHANGED service
  /\ wrote' = (wrote \/ pc = "filters")
  /\ UNCHANGED <<late, config, phase, lagging, quiet, trouble>>

\* An ambiguous error: the request was carried out, or is still on its way,
\* or neither.  Any other error ends the handler.
DeleteTrusted ==
  /\ pc \in DOMAIN After
  /\ LET r == Request(pc)
     IN  \/ TakeEffect(r) /\ UNCHANGED late
         \/ late' = late \cup {r} /\ UNCHANGED service
         \/ UNCHANGED portal
  /\ IF pc = "delete" THEN Forget ELSE Written(pc)
  /\ wrote' = (wrote \/ pc = "filters")
  /\ Disturb
  /\ UNCHANGED <<config, phase, lagging, quiet>>
WriteFails ==
  /\ pc \in DOMAIN After
  /\ LET r == Request(pc)
     IN  \/ TakeEffect(r) /\ UNCHANGED late /\ Written(pc)
         \/ late' = late \cup {r} /\ UNCHANGED service /\ Written(pc)
         \/ UNCHANGED portal /\ (Written(pc) \/ Fail)
  /\ wrote' = (wrote \/ pc = "filters")
  /\ Disturb
  /\ UNCHANGED <<config, phase, lagging, quiet>>

\* A read fails otherwise than by 404.
ReadFails ==
  /\ pc \in {"get", "preflight", "await", "restored", "tombstone", "named"}
  /\ Fail
  /\ Disturb
  /\ UNCHANGED <<portal, frame, quiet>>

Handle ==
  \/ Read \/ Preflight \/ Await \/ CheckName \/ ReadFails
  \/ Create \/ CreateUnknown \/ Write \/ WriteFails

----------------------------------------------------------------------------
(* Terraform.                                                              *)

Begin(o, l) == op' = o /\ pc' = l /\ current' = None /\ least' = 0 /\ count' = 0

\* Versions are compared within a handler only, so they may be counted anew
\* between runs.
Renumbered(v, w) ==
  IF v = None THEN None
  ELSE [v EXCEPT !.version = IF w # None /\ v.version < w.version THEN 1 ELSE 2]
CountAnew == list' = Renumbered(list, None) /\ before' = Renumbered(before, list)

StartRun ==
  /\ phase = "idle"
  /\ phase' = "refresh"
  /\ config' \in Configs
  /\ CountAnew
  /\ IF state = None THEN Begin("none", "done") ELSE Begin("read", "get")
  /\ quiet' = (late = {})
  /\ lagging' = (before # None)
  /\ UNCHANGED <<taken, late, files, failed, wrote, trouble>>

\* ModifyPlan: a mark makes the ID unknown, which alone is a difference; the
\* filters of a snapshot cannot be changed in place.
Replaces == /\ state # None /\ config # None
            /\ \/ tainted \/ config.type # state.type
               \/ config.type = "snapshot" /\ config.groups # state.groups
Differs == marker \/ state # config

Plan ==
  /\ phase = "refresh" /\ pc = "done" /\ ~failed
  /\ phase' = "apply"
  /\ CASE state = None /\ config # None -> Begin("create", "create")
       [] state # None /\ (config = None \/ Replaces) -> Begin("delete", "preflight")
       [] state # None /\ config # None /\ ~Replaces /\ Differs ->
            Begin("update", "preflight")
       [] OTHER -> Begin("none", "done")
  /\ UNCHANGED <<portal, config, files, failed, wrote, quiet, lagging, trouble>>

Replacing == op = "delete" /\ state = None /\ config # None

Replace ==
  /\ phase = "apply" /\ pc = "done" /\ Replacing
  /\ Begin("create", "create")
  /\ UNCHANGED <<portal, frame, files, failed, quiet, trouble>>

Stop ==
  /\ phase' = "idle"
  /\ Begin("none", "done")
  /\ CountAnew
  /\ failed' = FALSE /\ wrote' = FALSE /\ quiet' = TRUE /\ lagging' = FALSE
  /\ UNCHANGED <<taken, config, files>>

EndRun ==
  /\ pc = "done"
  /\ \/ phase = "refresh" /\ failed
     \/ phase = "apply" /\ ~Replacing
  /\ Stop
  /\ UNCHANGED <<late, trouble>>

\* The process is killed; a request just sent may still arrive.
Crash ==
  /\ phase # "idle" /\ Disturb
  /\ late' \in {late} \cup
       (IF pc \in DOMAIN After \cup {"create"} THEN {late \cup {Request(pc)}} ELSE {})
  /\ Stop

\* terraform import of an exact ID, active or deleted.
Import ==
  /\ phase = "idle" /\ state = None
  /\ \/ /\ \E v \in Views \ {None} :
             ~Unreadable(v) /\ state' = Model(v) /\ marker' = v.deleted
        /\ UNCHANGED portal
     \/ \E c \in {d \in Configs \ {None} : d.name \in taken} :
          /\ list' = [name |-> c.name, type |-> c.type, version |-> 1, deleted |-> FALSE,
                      branches |-> Sent[c], status |-> "COMPLETE"]
          /\ before' = None
          /\ taken' = Others \ {c.name}
          /\ state' = c /\ marker' = FALSE
          /\ late' = {q \in late : q.kind = "create"}
  /\ UNCHANGED <<config, phase, handler, tainted, failed, wrote, quiet,
                 lagging, trouble>>

----------------------------------------------------------------------------
(* Everybody else.                                                         *)

\* The processing of the list ends, well or badly, or reads catch up with it.
Process ==
  /\ \/ /\ list # None /\ list.status = "PROCESSING"
        /\ \/ list' = [list EXCEPT !.status = "COMPLETE"] /\ UNCHANGED trouble
           \/ list' = [list EXCEPT !.status = "FAILED"] /\ Disturb
        /\ UNCHANGED before
     \/ /\ before # None /\ before' = None
        /\ UNCHANGED <<list, trouble>>
  /\ UNCHANGED <<taken, late, config, files, phase, handler, failed, wrote, quiet,
                 lagging>>

\* Somebody renames, edits, deletes, restores or purges the list, or takes a
\* name for a list of their own, or removes that one.
Foreign ==
  /\ Disturb
  /\ \/ list # None /\ \E n \in Names \ {list.name} : TakeEffect([kind |-> "name", name |-> n])
     \/ list # None /\ \E t \in Trees \ {list.branches} :
                          TakeEffect([kind |-> "filters", branches |-> t])
     \/ \E k \in {"delete", "restore"} : TakeEffect([kind |-> k])
     \/ list # None /\ list' = None /\ before' = None /\ UNCHANGED taken
     \/ \E n \in Names : /\ ~(Active /\ list.name = n)
                         /\ taken' = IF n \in taken THEN taken \ {n} ELSE taken \cup {n}
                         /\ UNCHANGED <<list, before>>
  /\ quiet' = (phase = "idle")
  /\ UNCHANGED <<late, config, files, phase, handler, failed, wrote, lagging>>

\* A request arrives after its caller gave up, or never does.
ArriveLate ==
  \E r \in late :
    /\ late' = late \ {r}
    /\ \/ IF r.kind = "create" THEN TakeName(r) ELSE TakeEffect(r)
       \/ UNCHANGED service
    /\ UNCHANGED <<config, files, phase, handler, failed, wrote, quiet, lagging, trouble>>

Next ==
  \/ Handle \/ StartRun \/ Plan \/ Replace \/ EndRun \/ Crash \/ Import
  \/ Foreign \/ ArriveLate \/ Process

Spec == Init /\ [][Next]_vars

\* Every call of a handler returns and Terraform goes on; nothing makes the
\* processing of a list end.
Fairness == WF_vars(Handle \/ Plan \/ Replace \/ EndRun)

FairSpec == Spec /\ Fairness
----------------------------------------------------------------------------
(* Properties.                                                             *)

Requests == [kind : DOMAIN After \cup {"create"}, name : Names \cup {None},
             type : Types \cup {None}, branches : AllTrees \cup {<<>>}]

\* Every variable stays in its domain.
TypeOK ==
  /\ {list, before, current} \subseteq Lists \cup {None}
  /\ taken \subseteq Names
  /\ late \subseteq Requests
  /\ config \in Configs
  /\ state \in Stored \cup {None}
  /\ marker \in BOOLEAN /\ tainted \in BOOLEAN /\ (state = None => ~marker /\ ~tainted)
  /\ phase \in {"idle", "refresh", "apply"}
  /\ op \in {"none", "read", "create", "update", "delete"}
  /\ pc \in {"done", "get", "preflight", "create", "await", "restored", "named",
            "tombstone"} \cup DOMAIN After
  /\ least \in Nat /\ count \in 0..(Polls - 1)
  /\ {failed, wrote, quiet, lagging} \subseteq BOOLEAN
  /\ trouble \in 0..MaxTrouble

\* While nothing is managed yet: what would be written for any one or two
\* groups of one or two predicates is read back as it was, in whatever order
\* it travels, and selects the contacts it should, so no plan shows a
\* difference that the conversion made; and a tree that somebody else writes
\* is read as what it means or not at all.
FiltersKeepMeaning == list = None => FiltersSurvive /\ MeaningKept

\* State lets go of a list only when it is deleted or gone: not because a
\* read failed, not because a delete was sent, not because of a filter that
\* the provider cannot express.
LetGoOnlyWhenDead ==
  [][state # None /\ state' = None => ~Active]_vars

AsConfigured ==
  IF config = None THEN state = None
  ELSE /\ state # None
       /\ Active
       /\ Matches(list, config)

\* The run is over for the handlers.
Applied == phase = "apply" /\ pc = "done" /\ ~Replacing

\* A run that ends without an error has left the list active and as
\* configured, the filters with the meaning they were given; the same holds
\* when nothing was planned, so neither a tombstone nor a change made in
\* HubSpot is taken for the definition.  When reads may return a version from
\* before the run, this holds if the run changed the filters, whatever became
\* of the request; otherwise such a change has been processed, too.
SuccessIsVerified ==
  Applied /\ quiet /\ ~failed =>
    /\ ~lagging \/ (op = "update" /\ wrote) => AsConfigured
    /\ ~lagging /\ op = "update" /\ wrote => list.status = "COMPLETE"

\* A run always ends, whatever HubSpot does.
EveryRunEnds == (phase # "idle") ~> (phase = "idle")
=============================================================================
