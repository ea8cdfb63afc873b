----------------------------- MODULE FileFolders ----------------------------
(***************************************************************************)
(* The hubspot_file_folder resource: folders that contain each other, with *)
(* identities the portal generates, names that must be unique in a parent, *)
(* renames and moves that run as tasks of the portal, and reads that may   *)
(* return an older revision after such a task.                             *)
(*                                                                         *)
(* Handlers of different addresses run concurrently, in the order their    *)
(* references ask for; a parent that is named by its literal ID asks for   *)
(* none. Updates also take turns on one mutex.                             *)
(***************************************************************************)
EXTENDS Integers, FiniteSets, FiniteSetsExt

CONSTANTS
  Addresses,   \* resource addresses of the configuration
  Ids,         \* folder IDs, in the order the portal generates them
  Names,       \* folder names
  Configs,     \* the configurations the author may apply
  Attempts,    \* attempts of the bounded polls, 7 in the code
  Matches,     \* requiredConsecutiveMatches, 3 in the code
  Lag,         \* whether reads may return an older revision after a task
  MaxTrouble,  \* bound on failures, crashes and foreign changes
  None         \* no folder, no address

Root == 0
Folders == [name : Names, parent : Ids \cup {Root}, files : BOOLEAN]
Defs == [name : Names, under : Addresses \cup Ids \cup {None}]
Revisions == [name : Names, parent : Ids \cup {Root}, back : 1..2]
States == [id : Ids, name : Names, parent : Ids \cup {Root}]

\* A parent is a reference, a literal ID or the root; a reference is to a
\* resource that the configuration declares.
ASSUME FolderAssumption ==
  /\ Ids \subseteq Nat \ {0} /\ IsFiniteSet(Ids)
  /\ Attempts \in Nat \ {0} /\ Matches \in 1..Attempts
  /\ Lag \in BOOLEAN /\ MaxTrouble \in Nat
  /\ Configs \subseteq [Addresses -> Defs \cup {None}]
  /\ \A c \in Configs, a \in Addresses :
       c[a] # None /\ c[a].under \in Addresses => c[c[a].under] # None
  /\ None \notin Addresses \cup Folders \cup Defs \cup Revisions \cup States

VARIABLES
  folders,   \* the active folders of the portal, with what others must not reuse
  before,    \* the revision before a task, as long as reads still return it
  late,      \* requests and tasks whose caller has given up
  config,    \* the configuration being applied
  state,     \* fileFolderResourceModel of each address
  age,       \* how many revisions the folder has had since the one in state
  tainted,   \* addresses whose creation ended in an error after state was set
  phase,     \* what Terraform is doing
  op,        \* the handler that runs, or ran, for each address in this phase
  pc,        \* where that handler stands
  hand,      \* the ID that Create got
  count,     \* attempts made by the poll the handler is in
  streak,    \* consecutive reads that matched the plan
  async,     \* addresses whose update is a task
  result,    \* age of the task result that matched the plan, -1 without one
  lock,      \* who holds fileFolderUpdateMutex
  erred,     \* addresses whose handler reported an error in this run
  quiet,     \* whether this run has had its folders to itself
  strays,    \* history: folders put into one whose handler had looked, by
             \* somebody whom Terraform does not keep waiting for that handler
  lagging,   \* whether a read could return an older revision when it began
  trouble    \* how much has gone wrong so far

portal == <<folders, before, late>>
files == <<state, age, tainted>>
poll == <<count, streak, async, result>>
scan == <<count, streak, async>>
frame == <<config, phase, op, hand, strays>>
vars == <<folders, before, late, config, state, age, tainted, phase, op, pc,
          hand, count, streak, async, result, lock, erred, quiet, strays, lagging,
          trouble>>

Init ==
  /\ folders = [i \in Ids |-> None] /\ before = [i \in Ids |-> None]
  /\ late = {}
  /\ config \in Configs
  /\ state = [a \in Addresses |-> None] /\ age = [a \in Addresses |-> 0]
  /\ tainted = {}
  /\ phase = "idle"
  /\ op = [a \in Addresses |-> "none"] /\ pc = [a \in Addresses |-> "done"]
  /\ hand = [a \in Addresses |-> Root]
  /\ count = [a \in Addresses |-> 0] /\ streak = [a \in Addresses |-> 0]
  /\ async = {} /\ result = [a \in Addresses |-> -1]
  /\ lock = None /\ erred = {}
  /\ quiet = TRUE /\ strays = {} /\ lagging = FALSE /\ trouble = 0

----------------------------------------------------------------------------
(* The portal.                                                             *)

Exists(i) == i \in {Root} \cup {j \in Ids : folders[j] # None}
ChildFolders(i) == {j \in Ids : folders[j] # None /\ folders[j].parent = i}
Empty(i) == ChildFolders(i) = {} /\ ~folders[i].files

\* A folder and everything it is in.
Within(i) ==
  LET up[j \in Ids \cup {Root}] == IF j = Root THEN {} ELSE {j} \cup up[folders[j].parent]
  IN  up[i]

\* The folders a name collides with.
Namesakes(name, parent, own) ==
  {j \in ChildFolders(parent) \ {own} : folders[j].name = name}

\* The next ID. One that nobody has heard of stands for all such IDs.
HeardOf ==
  {state[a].id : a \in {b \in Addresses : state[b] # None}}
    \cup {state[a].parent : a \in {b \in Addresses : state[b] # None}}
    \cup {hand[a] : a \in {b \in Addresses : pc[b] = "confirm"}}
    \cup {config[a].under : a \in {b \in Addresses : config[b] # None}}
    \cup {r.id : r \in late} \cup {r.parent : r \in late}
Unheard == {i \in Ids \ HeardOf : folders[i] = None}
Fresh == {i \in Unheard : \A j \in Unheard : i <= j}

\* A request: a rename and a delete name a folder, a move also its new place,
\* a create only the place, and the address that asks.
Requests ==
  {r \in [kind : {"create", "rename", "move", "delete"}, id : Ids \cup {Root},
          name : Names, parent : Ids \cup {Root}] : r.kind = "create" <=> r.id = Root}

Accepts(r) ==
  CASE r.kind = "create" -> Exists(r.parent) /\ Fresh # {}
    [] r.kind = "rename" ->
         /\ folders[r.id] # None
         /\ Namesakes(r.name, folders[r.id].parent, r.id) = {}
    [] r.kind = "move" ->
         /\ folders[r.id] # None /\ Exists(r.parent)
         /\ r.id \notin Within(r.parent)
         /\ Namesakes(r.name, r.parent, r.id) = {}
    [] r.kind = "delete" -> folders[r.id] # None /\ Empty(r.id)

\* A create finds a folder that is there already and returns it.
Answer(r) == IF Namesakes(r.name, r.parent, Root) # {}
               THEN Namesakes(r.name, r.parent, Root) ELSE Fresh

\* A rename of a folder with files is reported as a success and reverted.
Effect(r, i) ==
  CASE r.kind = "create" ->
         IF folders[i] # None THEN folders
         ELSE [folders EXCEPT ![i] = [name |-> r.name, parent |-> r.parent,
                                      files |-> FALSE]]
    [] r.kind \in {"rename", "move"} ->
         [folders EXCEPT ![i].name = IF folders[i].files THEN @ ELSE r.name,
                         ![i].parent = IF r.kind = "move" THEN r.parent ELSE @]
    [] r.kind = "delete" -> [folders EXCEPT ![i] = None]

\* Exact-ID reads: the older revision for a while, if there is one.
Get(i) == IF before[i] # None THEN before[i] ELSE folders[i]
AgeOfGet(i) == IF before[i] # None THEN before[i].back ELSE 0

\* Folder i has a new revision, so what is known of it is one revision older.
Older(n) == IF n \in {0, 1} THEN n + 1 ELSE n
Knows(a, i) == state[a] # None /\ state[a].id = i
Aged(ages, i) == [a \in Addresses |-> IF Knows(a, i) THEN Older(ages[a]) ELSE ages[a]]
Revised(i) ==
  /\ age' = Aged(age, i)
  /\ result' = Aged(result, i)
  /\ before' = [before EXCEPT ![i] = IF @ = None \/ folders'[i] = None THEN None
                                     ELSE [@ EXCEPT !.back = Older(before[i].back)]]

\* Rename handlers of a folder that have looked for folders in it.
Looked(i) ==
  {a \in Addresses : /\ Knows(a, i)
                     /\ op[a] = "update" /\ pc[a] \in {"collide", "parent", "write"}}

\* A step that may put folders somewhere; who takes it waits for the addresses w.
Placed == {i \in Ids : folders'[i] # None /\ ( \/ folders[i] = None
                                              \/ folders'[i].parent # folders[i].parent )}
MarkStrays(w) ==
  strays' = strays \cup {i \in Placed : Looked(folders'[i].parent) \ w # {}}

Disturb == trouble < MaxTrouble /\ trouble' = trouble + 1

----------------------------------------------------------------------------
(* How a handler ends.                                                     *)

Goto(a, l) == pc' = [pc EXCEPT ![a] = l]
Unlock(a) == lock' = IF lock = a THEN None ELSE lock

Done(a) == /\ Goto(a, "done")
           /\ Unlock(a)
           /\ UNCHANGED poll

\* An error leaves the prior state; after Create has an ID it leaves that.
Fail(a) ==
  /\ Done(a)
  /\ erred' = erred \cup {a}
  /\ UNCHANGED files

Record(a, f, n) ==
  /\ Done(a)
  /\ state' = [state EXCEPT ![a] = f]
  /\ age' = [age EXCEPT ![a] = n]
  /\ UNCHANGED <<tainted, erred>>

Forget(a) ==
  /\ Done(a)
  /\ state' = [state EXCEPT ![a] = None]
  /\ age' = [age EXCEPT ![a] = 0]
  /\ tainted' = tainted \ {a}
  /\ UNCHANGED erred

\* On to another step, with the state file as it is.
Continue(a, l) ==
  /\ Goto(a, l)
  /\ count' = [count EXCEPT ![a] = 0]
  /\ UNCHANGED <<files, streak, async, result, lock, erred>>

\* Once more round a bounded poll that has not seen what it waits for.
PollOnceMore(a, l) ==
  /\ count[a] + 1 <= Attempts
  /\ Goto(a, l)
  /\ count' = [count EXCEPT ![a] = @ + 1]
  /\ UNCHANGED <<files, streak, async, result, lock, erred>>
PollAgain(a, l) ==
  /\ count[a] + 1 < Attempts
  /\ Goto(a, l)
  /\ count' = [count EXCEPT ![a] = @ + 1]
  /\ UNCHANGED <<files, streak, async, result, lock, erred>>
LastPoll(a) == count[a] + 1 = Attempts

\* What the configuration asks of a folder; its parent has an ID by then.
Parent(a) ==
  LET u == config[a].under
  IN  IF u \in Addresses THEN state[u].id ELSE IF u = None THEN Root ELSE u
Wanted(a, i) == [id |-> i, name |-> config[a].name, parent |-> Parent(a)]
Snapshot(i) == [id |-> i, name |-> Get(i).name, parent |-> Get(i).parent]

----------------------------------------------------------------------------
(* Read: waitForCurrentFolderRevision.                                     *)

ReadAnyRevision(a) ==
  /\ op[a] = "read" /\ pc[a] = "get"
  /\ LET i == state[a].id
     IN  \/ Get(i) = None /\ Forget(a)
         \/ Get(i) # None /\ Record(a, Snapshot(i), AgeOfGet(i))
  /\ UNCHANGED <<portal, frame, quiet, lagging, trouble>>
Read(a) ==
  /\ op[a] = "read" /\ pc[a] = "get"
  /\ LET i == state[a].id
         stale == Get(i) # None /\ AgeOfGet(i) > age[a]
     IN  \/ Get(i) = None /\ Forget(a)
         \/ Get(i) # None /\ ~stale /\ Record(a, Snapshot(i), AgeOfGet(i))
         \/ stale /\ PollAgain(a, "get")
         \/ stale /\ LastPoll(a) /\ Done(a) /\ UNCHANGED <<files, erred>>
  /\ UNCHANGED <<portal, frame, quiet, lagging, trouble>>

----------------------------------------------------------------------------
(* Create and Update up to their write.                                    *)

\* folderCollision, by a search that the portal may overtake at once.
Collide(a) ==
  /\ pc[a] = "collide"
  /\ LET own == IF op[a] = "update" THEN state[a].id ELSE Root
     IN  \/ Namesakes(config[a].name, Parent(a), own) # {} /\ Fail(a)
         \/ /\ Namesakes(config[a].name, Parent(a), own) = {}
            /\ IF op[a] = "update" /\ Parent(a) = state[a].parent /\ Parent(a) # Root
                 THEN Continue(a, "parent") ELSE Continue(a, "write")
  /\ UNCHANGED <<portal, frame, quiet, lagging, trouble>>

\* A rename looks for files, which forbid it, and for folders in the folder.
NoFiles(a) ==
  /\ op[a] = "update" /\ pc[a] = "files"
  /\ IF Exists(state[a].id) /\ folders[state[a].id].files
       THEN Fail(a) ELSE Continue(a, "children")
  /\ UNCHANGED <<portal, frame, quiet, lagging, trouble>>

RenameByPatch(a) ==
  /\ op[a] = "update" /\ pc[a] = "children"
  /\ Goto(a, "collide")
  /\ UNCHANGED <<portal, frame, files, poll, lock, erred, quiet, lagging, trouble>>
HasChildren(a) ==
  /\ op[a] = "update" /\ pc[a] = "children"
  /\ async' = IF ChildFolders(state[a].id) = {} THEN async ELSE async \cup {a}
  /\ Goto(a, "collide")
  /\ UNCHANGED <<portal, frame, files, count, streak, result, lock, erred, quiet, lagging, trouble>>

\* waitForCurrentParentPath: a path may be an older one, too.
AwaitParent(a) ==
  /\ op[a] = "update" /\ pc[a] = "parent"
  /\ LET i == state[a].id  p == Parent(a)
         there == Get(p) # None /\ Get(i) # None
         inside == there /\ Get(i).parent = p
     IN  \/ ~there /\ Fail(a)
         \/ inside /\ Continue(a, "write")
         \/ there /\ (Lag \/ ~inside) /\ (PollAgain(a, "parent") \/ (LastPoll(a) /\ Fail(a)))
  /\ UNCHANGED <<portal, frame, quiet, lagging, trouble>>

----------------------------------------------------------------------------
(* The writes.                                                             *)

IsTask(a) == a \in async \/ Parent(a) # state[a].parent

Request(a) ==
  [kind |-> CASE op[a] = "create" -> "create"
              [] op[a] = "delete" -> "delete"
              [] OTHER -> IF IsTask(a) THEN "move" ELSE "rename",
   id |-> IF op[a] = "create" THEN Root ELSE state[a].id,
   name |-> IF op[a] = "delete" THEN state[a].name ELSE config[a].name,
   parent |-> IF op[a] = "delete" THEN state[a].parent ELSE Parent(a)]

\* The request of a handler has its effect on the portal.
Apply(a) ==
  /\ Accepts(Request(a))
  /\ folders' = Effect(Request(a), state[a].id)

\* A create is answered with an ID, of a new folder or of one that was there.
CreateAnswered(a) ==
  /\ op[a] = "create" /\ pc[a] = "write"
  /\ LET r == Request(a)
     IN  \/ /\ Accepts(r)
            /\ \E i \in Answer(r) : /\ folders' = Effect(r, i)
                                    /\ hand' = [hand EXCEPT ![a] = i]
                                    /\ quiet' = (quiet /\ folders[i] = None)
            /\ Continue(a, "confirm")
         \/ ~Accepts(r) /\ Fail(a) /\ UNCHANGED <<folders, hand, quiet>>
  /\ MarkStrays({config[a].under})
  /\ UNCHANGED <<before, late, config, phase, op, lagging, trouble>>

\* No ID comes back, whatever became of the request.
CreateUnknown(a) ==
  /\ op[a] = "create" /\ pc[a] = "write"
  /\ LET r == Request(a)
     IN  \/ Accepts(r) /\ (\E i \in Answer(r) : folders' = Effect(r, i)) /\ UNCHANGED late
         \/ UNCHANGED <<folders, late>>
         \/ late' = late \cup {r} /\ UNCHANGED folders
  /\ Fail(a)
  /\ MarkStrays({config[a].under})
  /\ Disturb
  /\ UNCHANGED <<before, config, phase, op, hand, quiet, lagging>>

\* The exact-ID read-back, which may fail, too; the generated ID is kept with
\* the planned values in any case.
Confirm(a) ==
  /\ op[a] = "create" /\ pc[a] = "confirm"
  /\ LET i == hand[a]
         match == Get(i) # None /\ Snapshot(i) = Wanted(a, i)
         proved == /\ age' = [age EXCEPT ![a] = AgeOfGet(i)]
                   /\ UNCHANGED <<tainted, erred, trouble>>
         unproved == /\ age' = [age EXCEPT ![a] = 2]
                     /\ tainted' = tainted \cup {a} /\ erred' = erred \cup {a}
     IN  /\ state' = [state EXCEPT ![a] = Wanted(a, i)]
         /\ \/ match /\ proved
            \/ ~match /\ unproved /\ UNCHANGED trouble
            \/ match /\ unproved /\ Disturb
  /\ Done(a)
  /\ UNCHANGED <<portal, frame, quiet, lagging>>

\* A rename is a PATCH: a refusal is an error, also after the read-back.
Rename(a) ==
  /\ op[a] = "update" /\ pc[a] = "write" /\ ~IsTask(a)
  /\ \/ Apply(a) /\ Revised(state[a].id) /\ Goto(a, "verify")
        /\ UNCHANGED <<state, tainted, scan, lock, erred>>
     \/ ~Accepts(Request(a)) /\ Fail(a) /\ UNCHANGED <<folders, before>>
  /\ UNCHANGED <<late, frame, quiet, lagging, trouble>>

\* A move, or the rename of a folder with folders, is a task of the portal.
StartTask(a) ==
  /\ op[a] = "update" /\ pc[a] = "write" /\ IsTask(a)
  /\ IF Accepts(Request(a)) THEN Continue(a, "task") ELSE Fail(a)
  /\ UNCHANGED <<portal, frame, quiet, lagging, trouble>>

\* waitForFolderTask sees the task COMPLETE; its result may be stale too.
TaskCompletes(a) ==
  /\ pc[a] = "task"
  /\ Apply(a)
  /\ LET i == state[a].id
         old == [name |-> folders[i].name, parent |-> folders[i].parent, back |-> 1]
     IN  /\ before' \in {[before EXCEPT ![i] = None]}
                        \cup (IF Lag THEN {[before EXCEPT ![i] = old]} ELSE {})
         /\ age' = Aged(age, i)
         /\ \/ /\ folders'[i].name = config[a].name
               /\ result' = [Aged(result, i) EXCEPT ![a] = 0]
            \/ /\ folders'[i].name # config[a].name \/ Lag
               /\ result' = Aged(result, i)
  /\ Goto(a, "verify")
  /\ MarkStrays({config[a].under})
  /\ UNCHANGED <<late, config, phase, op, hand, state, tainted, scan, lock, erred, quiet,
                 lagging, trouble>>

\* The task fails, or its caller stops waiting and it may yet be carried out.
TaskFails(a) ==
  /\ pc[a] = "task"
  /\ late' \in {late} \cup (IF trouble < MaxTrouble THEN {late \cup {Request(a)}} ELSE {})
  /\ trouble' = IF late' = late THEN trouble ELSE trouble + 1
  /\ late' = late => ~Accepts(Request(a))
  /\ Fail(a)
  /\ UNCHANGED <<folders, before, frame, quiet, lagging>>

\* waitForFolderPlan that takes whatever exists for the planned folder, and the
\* one of the code: enough matches in a row, or the result of the task.
VerifyExistence(a) ==
  /\ op[a] = "update" /\ pc[a] = "verify"
  /\ LET i == state[a].id
     IN  \/ Get(i) = None /\ Fail(a)
         \/ Get(i) # None /\ Record(a, Wanted(a, i), AgeOfGet(i))
  /\ UNCHANGED <<portal, frame, quiet, lagging, trouble>>
Verify(a) ==
  /\ op[a] = "update" /\ pc[a] = "verify"
  /\ LET i == state[a].id
         match == Get(i) # None /\ Snapshot(i) = Wanted(a, i)
         enough == match /\ streak[a] + 1 = Matches
     IN  \/ Get(i) = None /\ Fail(a)
         \/ enough /\ Record(a, Wanted(a, i), AgeOfGet(i))
         \/ /\ Get(i) # None /\ ~enough /\ ~LastPoll(a)
            /\ streak' = [streak EXCEPT ![a] = IF match THEN @ + 1 ELSE 0]
            /\ count' = [count EXCEPT ![a] = @ + 1]
            /\ UNCHANGED <<pc, files, async, result, lock, erred>>
         \/ /\ Get(i) # None /\ ~enough /\ LastPoll(a)
            /\ IF result[a] = -1 THEN Fail(a) ELSE Record(a, Wanted(a, i), result[a])
  /\ UNCHANGED <<portal, frame, quiet, lagging, trouble>>

\* waitForFolderEmpty: two searches, as often as it takes.
NoChildFolders(a) ==
  /\ op[a] = "delete" /\ pc[a] = "empty"
  /\ \/ ChildFolders(state[a].id) = {} /\ Goto(a, "nofiles")
        /\ UNCHANGED <<files, poll, lock, erred>>
     \/ ChildFolders(state[a].id) # {} /\ (PollAgain(a, "empty") \/ (LastPoll(a) /\ Fail(a)))
  /\ UNCHANGED <<portal, frame, quiet, lagging, trouble>>

NoChildFiles(a) ==
  /\ op[a] = "delete" /\ pc[a] = "nofiles"
  /\ LET some == Exists(state[a].id) /\ folders[state[a].id].files
     IN  \/ ~some /\ Continue(a, "write")
         \/ some /\ (PollAgain(a, "empty") \/ (LastPoll(a) /\ Fail(a)))
  /\ UNCHANGED <<portal, frame, quiet, lagging, trouble>>

\* A folder that is gone already is on its way to being verified; one that is
\* not empty after all is refused.
Delete(a) ==
  /\ op[a] = "delete" /\ pc[a] = "write"
  /\ \/ Apply(a) /\ Revised(state[a].id) /\ Goto(a, "absent")
        /\ UNCHANGED <<state, tainted, scan, lock, erred>>
     \/ folders[state[a].id] = None /\ Continue(a, "absent") /\ UNCHANGED <<folders, before>>
     \/ /\ folders[state[a].id] # None /\ ~Accepts(Request(a))
        /\ Fail(a) /\ UNCHANGED <<folders, before>>
  /\ UNCHANGED <<late, frame, quiet, lagging, trouble>>

\* waitForFolderAbsent: only a 404 will do, until the operation's deadline.
AwaitNothing(a) ==
  /\ pc[a] = "absent"
  /\ Forget(a)
  /\ UNCHANGED <<portal, frame, quiet, lagging, trouble>>
AwaitAbsence(a) ==
  /\ pc[a] = "absent"
  /\ IF Get(state[a].id) = None THEN Forget(a) ELSE Fail(a)
  /\ UNCHANGED <<portal, frame, quiet, lagging, trouble>>

\* The answer to a rename or to a delete is lost, with the request or without.
Unanswered(a) ==
  /\ pc[a] = "write" /\ op[a] \in {"update", "delete"}
  /\ LET r == Request(a)
     IN  /\ \/ r.kind # "move" /\ Apply(a) /\ Revised(r.id) /\ UNCHANGED late
            \/ UNCHANGED <<folders, before, age, result, late>>
            \/ late' = late \cup {r} /\ UNCHANGED <<folders, before, age, result>>
         /\ IF r.kind = "move"
              THEN Goto(a, "done") /\ Unlock(a) /\ erred' = erred \cup {a}
              ELSE /\ Goto(a, IF r.kind = "rename" THEN "verify" ELSE "absent")
                   /\ UNCHANGED <<lock, erred>>
  /\ Disturb
  /\ UNCHANGED <<frame, state, tainted, scan, quiet, lagging>>

\* A search or a read fails, or a write reports an error after its effect.
CallFails(a) ==
  /\ \/ /\ pc[a] \in {"get", "files", "children", "collide", "parent", "verify",
                      "empty", "nofiles", "absent"}
        /\ UNCHANGED <<folders, before, age, result>>
     \/ /\ pc[a] = "write" /\ Request(a).kind \in {"rename", "delete"}
        /\ Apply(a)
        /\ Revised(state[a].id)
  /\ Goto(a, "done") /\ Unlock(a)
  /\ erred' = erred \cup {a}
  /\ Disturb
  /\ UNCHANGED <<late, frame, state, tainted, scan, quiet, lagging>>

----------------------------------------------------------------------------
(* Terraform.                                                              *)

Shared == \E a, b \in Addresses : a # b /\ state[a] # None /\ Knows(b, state[a].id)

StartRun ==
  /\ phase = "idle"
  /\ phase' = "refresh"
  /\ config' \in Configs
  /\ op' = [a \in Addresses |-> IF state[a] = None THEN "none" ELSE "read"]
  /\ pc' = [a \in Addresses |-> IF state[a] = None THEN "done" ELSE "get"]
  /\ erred' = {} /\ quiet' = ~Shared /\ lagging' = (\E i \in Ids : before[i] # None)
  /\ count' = [a \in Addresses |-> 0]
  /\ UNCHANGED <<portal, files, hand, streak, async, result, lock, strays, trouble>>

\* A parent that is still to be made, or made again, has an unknown ID.
SameParent(a) ==
  LET u == config[a].under
  IN  IF u \in Addresses
        THEN state[u] # None /\ u \notin tainted /\ state[u].id = state[a].parent
        ELSE state[a].parent = Parent(a)
Planned(a) ==
  CASE state[a] # None /\ (config[a] = None \/ a \in tainted) -> "delete"
    [] state[a] = None /\ config[a] # None -> "create"
    [] state[a] = None /\ config[a] = None -> "none"
    [] OTHER -> IF state[a].name = config[a].name /\ SameParent(a) THEN "none" ELSE "update"

AllDone == \A a \in Addresses : pc[a] = "done"
Replacing(a) == op[a] = "delete" /\ state[a] = None /\ config[a] # None

Plan ==
  /\ phase = "refresh" /\ AllDone /\ erred = {}
  /\ phase' = "apply"
  /\ op' = [a \in Addresses |-> Planned(a)]
  /\ pc' = [a \in Addresses |-> IF Planned(a) = "none" THEN "done" ELSE "ready"]
  /\ count' = [a \in Addresses |-> 0] /\ streak' = [a \in Addresses |-> 0]
  /\ async' = {} /\ result' = [a \in Addresses |-> -1]
  /\ hand' = [a \in Addresses |-> Root]
  /\ UNCHANGED <<portal, config, files, lock, erred, quiet, strays, lagging, trouble>>

\* A folder waits for the parent it refers to. Deletes come in any order: they
\* wait for the references that the state file recorded, a literal ID is none.
Before(a) == IF op[a] = "delete" THEN {} ELSE {config[a].under} \cap Addresses
Ready(a) == \A b \in Before(a) : pc[b] = "done" /\ ~Replacing(b)
Doomed(a) == \E b \in Before(a) : b \in erred \/ state[b] = None

\* Update begins by taking the mutex, Delete and Create just begin.
Start(a) ==
  /\ pc[a] = "ready" /\ Ready(a) /\ ~Doomed(a)
  /\ CASE op[a] = "create" -> Goto(a, "collide") /\ UNCHANGED lock
       [] op[a] = "delete" -> Goto(a, "empty") /\ UNCHANGED lock
       [] op[a] = "update" ->
            /\ lock = None
            /\ lock' = a
            /\ Goto(a, IF state[a].name = config[a].name THEN "collide" ELSE "files")
  /\ UNCHANGED <<portal, frame, files, poll, erred, quiet, lagging, trouble>>

Skip(a) ==
  /\ pc[a] = "ready" /\ Ready(a) /\ Doomed(a)
  /\ Goto(a, "done")
  /\ erred' = erred \cup {a}
  /\ UNCHANGED <<portal, frame, files, poll, lock, quiet, lagging, trouble>>

Replace(a) ==
  /\ phase = "apply" /\ pc[a] = "done"
  /\ Replacing(a)
  /\ op' = [op EXCEPT ![a] = "create"]
  /\ Goto(a, "ready")
  /\ UNCHANGED <<portal, files, config, phase, hand, poll, lock, erred, quiet, strays,
                 lagging, trouble>>

\* What the handlers kept to themselves ends with the run.
Cleared ==
  /\ op' = [a \in Addresses |-> "none"] /\ hand' = [a \in Addresses |-> Root]
  /\ count' = [a \in Addresses |-> 0] /\ streak' = [a \in Addresses |-> 0]
  /\ async' = {} /\ result' = [a \in Addresses |-> -1]
  /\ erred' = {} /\ strays' = {} /\ lagging' = FALSE

EndRun ==
  /\ AllDone
  /\ \/ phase = "refresh" /\ erred # {}
     \/ phase = "apply" /\ \A a \in Addresses : ~Replacing(a)
  /\ phase' = "idle"
  /\ Cleared
  /\ UNCHANGED <<portal, files, config, pc, lock, quiet, trouble>>

\* The process is killed, and the mutex with it; its requests may yet arrive.
Crash ==
  /\ phase # "idle"
  /\ Disturb
  /\ phase' = "idle"
  /\ pc' = [a \in Addresses |-> "done"]
  /\ lock' = None
  /\ Cleared
  /\ \E sent \in SUBSET {a \in Addresses : pc[a] \in {"write", "task"}} :
       late' = late \cup {Request(a) : a \in sent}
  /\ UNCHANGED <<folders, before, files, config, quiet>>

\* terraform import, by exact ID.
Import(a, i) ==
  /\ phase = "idle" /\ state[a] = None
  /\ Get(i) # None
  /\ \A b \in Addresses : ~Knows(b, i)
  /\ state' = [state EXCEPT ![a] = Snapshot(i)]
  /\ age' = [age EXCEPT ![a] = AgeOfGet(i)]
  /\ UNCHANGED <<portal, tainted, frame, pc, poll, lock, erred, quiet, lagging, trouble>>

----------------------------------------------------------------------------
(* Everybody else.                                                         *)

\* Somebody makes, renames or deletes a folder, or puts files into it.
Foreign ==
  /\ Disturb
  /\ \/ \E i \in Fresh, n \in Names, p \in Ids \cup {Root} :
          /\ Exists(p) /\ Namesakes(n, p, i) = {}
          /\ folders' = [folders EXCEPT ![i] = [name |-> n, parent |-> p, files |-> FALSE]]
          /\ UNCHANGED <<before, age, result>>
     \/ \E i \in Ids :
          /\ folders[i] # None
          /\ \/ \E n \in Names : /\ n # folders[i].name
                                 /\ Namesakes(n, folders[i].parent, i) = {}
                                 /\ folders' = [folders EXCEPT ![i].name = n]
             \/ Empty(i) /\ folders' = [folders EXCEPT ![i] = None]
          /\ Revised(i)
     \/ \E i \in Ids :
          /\ folders[i] # None
          /\ folders' = [folders EXCEPT ![i].files = ~@]
          /\ UNCHANGED <<before, age, result>>
  /\ MarkStrays({})
  /\ quiet' = FALSE
  /\ UNCHANGED <<late, state, tainted, config, phase, op, hand, pc, scan, lock, erred,
                 lagging>>

\* Reads return the newest revision from now on.
CatchUp(i) ==
  /\ before[i] # None
  /\ before' = [before EXCEPT ![i] = None]
  /\ UNCHANGED <<folders, late, files, frame, pc, poll, lock, erred, quiet, lagging, trouble>>

\* A request or a task is carried out after its caller gave up, or never.
ArriveLate ==
  \E r \in late :
    /\ late' = late \ {r}
    /\ \/ /\ Accepts(r)
          /\ IF r.kind = "create"
               THEN /\ \E i \in Answer(r) : folders' = Effect(r, i)
                    /\ UNCHANGED <<before, age, result>>
               ELSE folders' = Effect(r, r.id) /\ Revised(r.id)
          /\ quiet' = FALSE
       \/ UNCHANGED <<folders, before, age, result, quiet>>
    /\ MarkStrays({})
    /\ UNCHANGED <<state, tainted, config, phase, op, hand, pc, scan, lock, erred, lagging,
                   trouble>>

Step(a) ==
  \/ Read(a) \/ Collide(a) \/ NoFiles(a) \/ HasChildren(a) \/ AwaitParent(a)
  \/ CreateAnswered(a) \/ CreateUnknown(a) \/ Confirm(a)
  \/ Rename(a) \/ StartTask(a) \/ TaskCompletes(a) \/ TaskFails(a) \/ Verify(a)
  \/ NoChildFolders(a) \/ NoChildFiles(a) \/ Delete(a) \/ AwaitAbsence(a)
  \/ Unanswered(a) \/ CallFails(a)
  \/ Start(a) \/ Skip(a) \/ Replace(a)

Next ==
  \/ \E a \in Addresses : Step(a) \/ \E i \in Ids : Import(a, i)
  \/ StartRun \/ Plan \/ EndRun \/ Crash
  \/ Foreign \/ ArriveLate
  \/ \E i \in Ids : CatchUp(i)

Spec == Init /\ [][Next]_vars

----------------------------------------------------------------------------
(* Properties.                                                             *)

\* Types of the variables, and what goes together.
TypeOK ==
  /\ folders \in [Ids -> Folders \cup {None}]
  /\ before \in [Ids -> Revisions \cup {None}]
  /\ late \subseteq Requests
  /\ config \in Configs
  /\ state \in [Addresses -> States \cup {None}]
  /\ age \in [Addresses -> 0..2]
  /\ tainted \subseteq Addresses
  /\ phase \in {"idle", "refresh", "apply"}
  /\ op \in [Addresses -> {"none", "read", "create", "update", "delete"}]
  /\ pc \in [Addresses -> {"ready", "get", "collide", "files", "children", "parent",
                            "write", "confirm", "task", "verify", "empty", "nofiles",
                            "absent", "done"}]
  /\ hand \in [Addresses -> Ids \cup {Root}]
  /\ count \in [Addresses -> 0..Attempts - 1]
  /\ streak \in [Addresses -> 0..Matches - 1]
  /\ async \subseteq Addresses
  /\ result \in [Addresses -> -1..2]
  /\ lock \in Addresses \cup {None}
  /\ erred \subseteq Addresses
  /\ quiet \in BOOLEAN /\ lagging \in BOOLEAN
  /\ strays \subseteq Ids
  /\ trouble \in 0..MaxTrouble
  /\ \A i \in Ids : folders[i] = None => before[i] = None

\* The state file lets go of a folder only when the folder is gone, whichever
\* answers were lost: a 404 or an absence that was waited for, never a guess.
IdentityKept ==
  [][\A a \in Addresses :
       state[a] # None /\ (state'[a] = None \/ state'[a].id # state[a].id)
         => folders[state[a].id] = None]_vars

\* A refresh never replaces what the state file knows by an older revision of
\* the same folder, however long the portal returns one.
RefreshKeepsNewest ==
  [][\A a \in Addresses :
       op[a] = "read" /\ pc'[a] # pc[a] /\ phase' = phase /\ state'[a] # None
         => age'[a] <= age[a]]_vars

\* A folder that holds folders is renamed by a task that carries its descendants
\* along, not by a PATCH, whoever else is at work: what the preflight saw is still
\* so at the PATCH, because the folders that refer to this one wait and updates
\* take turns. The exceptions came after the preflight, from somebody whom
\* Terraform does not keep waiting: a person, a late request, a literal ID.
PatchOnlyLeaves ==
  [][\A a \in Addresses :
       /\ op[a] = "update" /\ pc[a] = "write" /\ pc'[a] # "write"
       /\ ~IsTask(a) /\ state[a].name # config[a].name
       /\ folders' # folders
       => ChildFolders(state[a].id) \subseteq strays]_vars

\* After a run without an error, in which nobody else wrote and which began
\* when reads were up to date, the portal and the state file hold what the
\* configuration says. (Addresses that share a folder because one adopted it
\* do not count as alone.)
AsConfigured(a) ==
  IF config[a] = None THEN state[a] = None
  ELSE /\ state[a] # None
       /\ folders[state[a].id] # None
       /\ folders[state[a].id].name = config[a].name
       /\ folders[state[a].id].parent = Parent(a)
Succeeded == /\ phase = "apply" /\ AllDone /\ erred = {} /\ quiet
             /\ \A a \in Addresses : ~Replacing(a)
SuccessIsVerified == Succeeded /\ ~lagging => \A a \in Addresses : AsConfigured(a)

\* The same of the addresses that the run changed: what an update or a create
\* reports as proved by exact-ID reads is so, older revisions or not.
ChangesAreVerified ==
  Succeeded => \A a \in Addresses : op[a] # "none" => AsConfigured(a)
============================================================================
