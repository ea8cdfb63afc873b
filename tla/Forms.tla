-------------------------------- MODULE Forms --------------------------------
(***************************************************************************)
(* The hubspot_form_definition resource: a form with a generated ID and    *)
(* four subtrees that a PATCH replaces one by one.  HubSpot archives a     *)
(* deleted form for good, shows it in a view of its own, and forgets it    *)
(* after some months.  No write is repeated: the provider reads the exact  *)
(* ID back and believes what it sees.  A form that somebody has given a    *)
(* structure outside the contract is refused.                              *)
(***************************************************************************)
EXTENDS Integers

CONSTANTS
  Ids,         \* generated IDs, given out again once nobody can refer to them
  Texts,       \* what the author may write into a subtree
  Configs,     \* the definitions the author may ask for, None to destroy
  Polls,       \* reads that fit in the wait for an archival
  MaxTrouble,  \* bound on failures, crashes and foreign changes
  None         \* no form

Subtrees == {"name", "fieldGroups", "configuration", "displayOptions"}
NoDomains == "no domains"   \* field groups with an empty block list
Sentinel == "one blank"     \* the list [""] that HubSpot makes of it
Alien == "alien"            \* a subtree outside the contract
Managed == [Subtrees -> Texts \cup {NoDomains}]
Structures == [Subtrees -> Texts \cup {NoDomains, Alien}]
Versions == [values : Structures, archived : BOOLEAN]  \* of a form in the portal
Models == [id : Ids, values : Managed]                 \* formDefinitionResourceModel

ASSUME FormAssumption ==
  /\ Ids # {} /\ Polls \in Nat \ {0} /\ MaxTrouble \in Nat
  /\ Configs \subseteq Managed \cup {None}
  /\ {Sentinel, Alien} \cap Texts = {}
  /\ None \notin Managed \cup Versions \cup Models

VARIABLES
  forms,    \* the forms of the portal, by ID; None when never made or forgotten
  late,     \* requests whose caller has given up, still on their way
  config,   \* the configuration being applied
  state,    \* formDefinitionResourceModel
  tainted,  \* whether the creation ended in an error after state was set
  phase,    \* what Terraform is doing
  op,       \* the handler that runs, or ran
  pc,       \* where it stands
  count,    \* reads made by the wait it is in
  failed,   \* whether this run has reported an error
  quiet,    \* whether nobody else has changed anything during this run
  trouble   \* how much has gone wrong so far

portal == <<forms, late>>
kept == <<state, tainted>>
handler == <<op, pc, count>>
vars == <<portal, config, kept, phase, handler, failed, quiet, trouble>>

Init ==
  /\ forms = [i \in Ids |-> None] /\ late = {}
  /\ config \in Configs /\ state = None /\ tainted = FALSE
  /\ phase = "idle" /\ op = "none" /\ pc = "done" /\ count = 0
  /\ failed = FALSE /\ quiet = TRUE /\ trouble = 0

----------------------------------------------------------------------------
(* HubSpot.                                                                *)

Active(i) == forms[i] # None /\ ~forms[i].archived
Known(i) == \/ state # None /\ state.id = i
            \/ \E r \in late : r.kind # "create" /\ r.id = i
Free == {i \in Ids : ~Active(i) /\ ~Known(i)}
Fresh == CHOOSE i \in Free : TRUE

Supported(values) == \A s \in Subtrees : values[s] # Alien

\* A PATCH replaces the subtrees it names, as long as the whole is supported.
Merged(new, values) ==
  [s \in Subtrees |-> IF s \in DOMAIN new THEN new[s] ELSE values[s]]
Result(r) ==
  CASE r.kind = "create"  -> [values |-> r.values, archived |-> FALSE]
    [] r.kind = "patch"   -> [forms[r.id] EXCEPT !.values = Merged(r.values, @)]
    [] r.kind = "archive" -> [forms[r.id] EXCEPT !.archived = TRUE]

Accepts(r) ==
  IF r.kind = "create" THEN Free # {}
  ELSE Active(r.id) /\ (r.kind = "patch" => Supported(Result(r).values))

TakeEffect(r) ==
  /\ Accepts(r)
  /\ forms' = [forms EXCEPT ![IF r.kind = "create" THEN Fresh ELSE r.id] = Result(r)]

\* An empty block list may come back as a list of one blank.
OnWire(values) ==
  {values} \cup (IF values["fieldGroups"] = NoDomains
                 THEN {[values EXCEPT !["fieldGroups"] = Sentinel]} ELSE {})

\* normalizeFormDefinition
AsReceived(values) == values
Normalized(values) ==
  [values EXCEPT !["fieldGroups"] = IF @ = Sentinel THEN NoDomains ELSE @]

\* What a read by exact ID returns of an active form.
Views(i) == {Normalized(v) : v \in OnWire(forms[i].values)}

Disturb == trouble < MaxTrouble /\ trouble' = trouble + 1

----------------------------------------------------------------------------
(* How a handler goes on and ends.                                         *)

Goto(l) == pc' = l /\ count' = 0 /\ UNCHANGED op
Continue(l) == Goto(l) /\ UNCHANGED <<kept, failed>>
Fail == Goto("done") /\ failed' = TRUE /\ UNCHANGED kept
Forget == Goto("done") /\ state' = None /\ tainted' = FALSE /\ UNCHANGED failed

\* formModelFromDefinition refuses what is outside the contract.
Model(i, values) == [id |-> i, values |-> values]
RecordAnything(values) ==
  /\ Goto("done") /\ state' = Model(state.id, values)
  /\ tainted' = (tainted /\ op = "read") /\ UNCHANGED failed
Record(values) ==
  IF ~Supported(values) THEN Fail
  ELSE /\ Goto("done")
       /\ state' = Model(state.id, values)
       /\ tainted' = (tainted /\ op = "read")
       /\ UNCHANGED failed

\* formModelsEqualManaged
MatchesName(values) == values["name"] = config["name"]
MatchesPlan(values) == values = config

\* formPatchFromModels: the subtrees in which plan and state differ.
EverySubtree == Subtrees
Changed == {s \in Subtrees : state.values[s] # config[s]}

----------------------------------------------------------------------------
(* The handlers.                                                           *)

Read ==
  /\ op = "read" /\ pc = "get"
  /\ IF ~Active(state.id) THEN Continue("archived")
     ELSE \E v \in Views(state.id) : Record(v)

\* Create and Update believe the read-back, whatever the write reported.
Verify ==
  /\ pc = "verify"
  /\ IF ~Active(state.id) THEN Fail
     ELSE \E v \in Views(state.id) : IF MatchesPlan(v) THEN Record(v) ELSE Fail

\* Delete does nothing to a form that is not active.
Preflight ==
  /\ op = "delete" /\ pc = "get"
  /\ Continue(IF Active(state.id) THEN "archive" ELSE "archived")

\* formPresence looks into the archive for a form that is not active; there
\* or nowhere, it is gone for good.
Archived == pc = "archived" /\ Forget

\* waitForFormTerminal
AwaitTerminal ==
  /\ pc = "terminal"
  /\ IF ~Active(state.id) THEN Continue("archived")
     ELSE IF count + 1 = Polls THEN Fail
     ELSE count' = count + 1 /\ UNCHANGED <<op, pc, kept, failed>>

Reads ==
  /\ Read \/ Verify \/ Preflight \/ Archived \/ AwaitTerminal
  /\ UNCHANGED <<portal, config, phase, quiet, trouble>>

\* A read fails otherwise than by 404, or names another form.
ReadFails ==
  /\ pc \in {"get", "archived", "verify", "terminal"}
  /\ Fail /\ Disturb
  /\ UNCHANGED <<portal, config, phase, quiet>>

Request ==
  CASE op = "create" -> [kind |-> "create", values |-> config]
    [] op = "update" -> [kind |-> "patch", id |-> state.id,
                         values |-> [s \in Changed |-> config[s]]]
    [] op = "delete" -> [kind |-> "archive", id |-> state.id]

\* An ID that is answered, be it in a broken response, is kept at once.
Create ==
  /\ pc = "create"
  /\ \/ /\ TakeEffect(Request)
        /\ state' = Model(Fresh, config) /\ tainted' = TRUE
        /\ Goto("verify")
        /\ UNCHANGED <<late, failed, trouble>>
     \/ ~Accepts(Request) /\ Fail /\ UNCHANGED <<portal, trouble>>
     \/ \* no ID, whatever became of the request
        /\ \/ TakeEffect(Request) /\ UNCHANGED late
           \/ late' = late \cup {Request} /\ UNCHANGED forms
           \/ UNCHANGED portal
        /\ Fail
        /\ Disturb
  /\ UNCHANGED <<config, phase, quiet>>

After == [patch |-> "verify", archive |-> "terminal"]
Write ==
  /\ pc \in DOMAIN After
  /\ \/ TakeEffect(Request)
     \/ ~Accepts(Request) /\ UNCHANGED forms
  /\ Continue(After[pc])
  /\ UNCHANGED <<late, config, phase, quiet, trouble>>

\* An error, after which the reads decide all the same.
WriteFails ==
  /\ pc \in DOMAIN After
  /\ \/ TakeEffect(Request) /\ UNCHANGED late
     \/ late' = late \cup {Request} /\ UNCHANGED forms
     \/ UNCHANGED portal
  /\ Continue(After[pc])
  /\ Disturb
  /\ UNCHANGED <<config, phase, quiet>>

Handle == Reads \/ ReadFails \/ Create \/ Write \/ WriteFails

----------------------------------------------------------------------------
(* Terraform.                                                              *)

Begin(o, l) == op' = o /\ pc' = l /\ count' = 0

StartRun ==
  /\ phase = "idle" /\ phase' = "refresh"
  /\ config' \in Configs
  /\ IF state = None THEN Begin("none", "done") ELSE Begin("read", "get")
  /\ quiet' = (late = {})
  /\ UNCHANGED <<portal, kept, failed, trouble>>

\* An update is planned only when something differs, so that the PATCH is
\* never empty.
Plan ==
  /\ phase = "refresh" /\ pc = "done" /\ ~failed
  /\ phase' = "apply"
  /\ CASE state = None /\ config # None -> Begin("create", "create")
       [] state # None /\ (config = None \/ tainted) -> Begin("delete", "get")
       [] state # None /\ config # None /\ ~tainted /\ Changed # {} ->
            Begin("update", "patch")
       [] OTHER -> Begin("none", "done")
  /\ UNCHANGED <<portal, config, kept, failed, quiet, trouble>>

\* A tainted form is made anew once it is gone from state.
Replacing == op = "delete" /\ state = None /\ config # None /\ ~failed
Replace ==
  /\ phase = "apply" /\ pc = "done" /\ Replacing
  /\ Begin("create", "create")
  /\ UNCHANGED <<portal, config, kept, phase, failed, quiet, trouble>>

Stop ==
  /\ phase' = "idle" /\ Begin("none", "done")
  /\ failed' = FALSE /\ quiet' = TRUE
  /\ UNCHANGED <<forms, config, kept>>

EndRun ==
  /\ pc = "done"
  /\ \/ phase = "refresh" /\ failed
     \/ phase = "apply" /\ ~Replacing
  /\ Stop
  /\ UNCHANGED <<late, trouble>>

\* The process is killed; a request just sent may still arrive.
Crash ==
  /\ phase # "idle" /\ Disturb
  /\ late' \in {late} \cup (IF pc \in DOMAIN After \cup {"create"}
                            THEN {late \cup {Request}} ELSE {})
  /\ Stop

\* terraform import of the exact ID of an active form within the contract.
Import ==
  /\ phase = "idle" /\ state = None
  /\ \E i \in {j \in Ids : Active(j)} :
       \E v \in Views(i) : Supported(v) /\ state' = Model(i, v)
  /\ UNCHANGED <<portal, config, tainted, phase, handler, failed, quiet, trouble>>

----------------------------------------------------------------------------
(* Everybody else.                                                         *)

\* Somebody makes, edits or archives a form.
Foreign ==
  /\ Disturb
  /\ \E i \in Ids :
       \/ i \in Free /\ \E c \in Configs \ {None} :
            forms' = [forms EXCEPT ![i] = [values |-> c, archived |-> FALSE]]
       \/ /\ Active(i)
          /\ \/ \E s \in Subtrees, t \in Texts \cup {Alien} :
                  forms' = [forms EXCEPT ![i].values[s] = t]
             \/ forms' = [forms EXCEPT ![i].archived = TRUE]
  /\ forms' # forms
  /\ quiet' = (phase = "idle")
  /\ UNCHANGED <<late, config, kept, phase, handler, failed>>

\* HubSpot forgets an archived form.
Purge ==
  /\ \E i \in Ids : /\ forms[i] # None /\ forms[i].archived
                    /\ forms' = [forms EXCEPT ![i] = None]
  /\ UNCHANGED <<late, config, kept, phase, handler, failed, quiet, trouble>>

\* A request arrives after its caller gave up, or never does.
ArriveLate ==
  \E r \in late :
    /\ late' = late \ {r}
    /\ TakeEffect(r) \/ UNCHANGED forms
    /\ UNCHANGED <<config, kept, phase, handler, failed, quiet, trouble>>

Next ==
  \/ Handle \/ StartRun \/ Plan \/ Replace \/ EndRun \/ Crash \/ Import
  \/ Foreign \/ Purge \/ ArriveLate

Spec == Init /\ [][Next]_vars
----------------------------------------------------------------------------
(* Properties.                                                             *)

\* Types; in state there is never a structure outside the contract, nor the
\* sentinel.
TypeOK ==
  /\ forms \in [Ids -> Versions \cup {None}]
  /\ config \in Configs
  /\ state \in Models \cup {None}
  /\ tainted \in BOOLEAN /\ (tainted => state # None)
  /\ phase \in {"idle", "refresh", "apply"}
  /\ op \in {"none", "read", "create", "update", "delete"}
  /\ pc \in {"get", "archived", "verify", "terminal", "create", "done"} \cup DOMAIN After
  /\ count \in 0..(Polls - 1) /\ {failed, quiet} \subseteq BOOLEAN
  /\ trouble \in 0..MaxTrouble

\* A run that ends without an error has left the form under its ID active
\* and as asked for in every subtree, whatever its writes were answered.
SuccessIsVerified ==
  phase = "apply" /\ pc = "done" /\ quiet /\ ~failed /\ ~Replacing =>
    IF config = None THEN state = None
    ELSE /\ state # None /\ ~tainted /\ Active(state.id)
         /\ forms[state.id].values = config

\* The provider touches no form but the one in state, and of that one only
\* subtrees the author changed since the refresh: what somebody else does to
\* the others in the meantime is not undone.  State lets go of an ID only
\* when its form can never be active again.
OwnSubtreesOnly ==
  [][/\ pc' # pc => \A i \in Ids : forms'[i] # forms[i] /\ forms[i] # None /\ Active(i) =>
          /\ state # None /\ state.id = i
          /\ \A s \in Subtrees : forms'[i].values[s] # forms[i].values[s] =>
               state.values[s] # config[s] /\ forms'[i].values[s] = config[s]
     /\ state # None /\ state' = None => ~Active(state.id)]_vars

\* As long as nothing goes wrong no run fails: an empty list that comes back
\* as a list of one blank is not taken for a value that did not stick.
UndisturbedRunsSucceed == trouble = 0 => ~failed
=============================================================================
