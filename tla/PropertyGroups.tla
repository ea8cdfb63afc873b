--------------------------- MODULE PropertyGroups --------------------------
(***************************************************************************)
(* The hubspot_property_group resource: one Terraform configuration, its   *)
(* state file and its CRUD handlers, against a portal that other people    *)
(* and requests already given up on may change at any time.                *)
(*                                                                         *)
(* Handlers of different groups run concurrently; each is a chain of       *)
(* remote calls (write, Get, List) with nothing atomic between them.  A    *)
(* call is one step: Transport.tla shows what its result may tell.         *)
(***************************************************************************)
EXTENDS Integers, FiniteSets, FiniteSetsExt

CONSTANTS
  Names,        \* group names of one CRM object type
  Labels,       \* display labels
  Configs,      \* the configurations the author may apply
  MaxOrder,     \* bound on display orders
  MaxTrouble,   \* bound on failures, crashes and foreign changes
  None          \* no group

Orders == 0..MaxOrder
Groups == [label : Labels, order : Orders]
Models == [label : Labels, order : Orders \cup {-1}]

ASSUME GroupAssumption ==
  /\ MaxOrder \in Nat /\ MaxTrouble \in Nat
  /\ None \notin Models
  /\ Configs \subseteq [Names -> Models \cup {None}]
  /\ IsFiniteSet(Names)

VARIABLES
  remote,    \* the active groups of the portal
  late,      \* requests whose caller has given up, still on their way
  config,    \* the configuration being applied
  state,     \* propertyGroupModel of each managed group
  tainted,   \* groups whose creation ended in an error after state was set
  phase,     \* what Terraform is doing
  op,        \* the handler that runs, or ran, for each group in this phase
  pc,        \* where that handler stands
  hand,      \* the group its last Get returned
  failed,    \* whether this run has reported an error
  quiet,     \* whether nobody else changed the portal during this run
  settled,   \* whether the last run succeeded and nobody changed anything since
  trouble    \* how much has gone wrong so far

portal == <<remote, late>>
files == <<config, state, tainted>>
run == <<phase, op, pc, hand, failed>>
history == <<quiet, settled, trouble>>
vars == <<remote, late, config, state, tainted, phase, op, pc, hand, failed,
          quiet, settled, trouble>>

Init ==
  /\ remote \in [Names -> {None} \cup
       {[label |-> l, order |-> 0] : l \in Labels}]
  /\ late = {}
  /\ config \in Configs
  /\ state = [n \in Names |-> None]
  /\ tainted = {}
  /\ phase = "idle"
  /\ op = [n \in Names |-> "none"]
  /\ pc = [n \in Names |-> "done"]
  /\ hand = [n \in Names |-> None]
  /\ failed = FALSE
  /\ quiet = TRUE
  /\ settled = FALSE
  /\ trouble = 0

----------------------------------------------------------------------------
(* The portal.                                                             *)

Active == {n \in Names : remote[n] # None}
LastOrder(ns) == Max({-1} \cup {remote[n].order : n \in ns \cap Active})

\* -1 appends after every other active group of the object type (MaxOrder
\* stands for every order from there on).
DisplayOrderOfLast(n, requested) ==
  IF requested # -1 THEN requested ELSE LastOrder(Names \ {n})
DisplayOrder(n, requested) ==
  IF requested # -1 THEN requested
  ELSE Min({LastOrder(Names \ {n}) + 1, MaxOrder})

Written(n, m) == [label |-> m.label, order |-> DisplayOrder(n, m.order)]

\* What the service does with a create, an update or an archive request; a
\* name in use is a conflict, a missing one is 404.
Accepts(kind, n) == IF kind = "create" THEN remote[n] = None ELSE remote[n] # None
Effect(kind, n, m) ==
  [remote EXCEPT ![n] = IF kind = "delete" THEN None ELSE Written(n, m)]

Request(n) == [kind |-> op[n], name |-> n, model |-> config[n]]

Disturb == /\ trouble < MaxTrouble
           /\ trouble' = trouble + 1
           /\ UNCHANGED settled

----------------------------------------------------------------------------
(* The handlers.                                                           *)

Goto(n, l) == pc' = [pc EXCEPT ![n] = l]

Fail(n) == /\ Goto(n, "done")
           /\ failed' = TRUE

Forget(n) == /\ state' = [state EXCEPT ![n] = None]
             /\ tainted' = tainted \ {n}

\* The write request of Create, Update and Delete is answered.  A 404 on an
\* archive ends Delete; every other refusal is an error.
Answered(n) ==
  /\ pc[n] = "write"
  /\ \/ /\ Accepts(op[n], n)
        /\ remote' = Effect(op[n], n, config[n])
        /\ Goto(n, "get")
        /\ UNCHANGED <<state, tainted, failed>>
     \/ /\ ~Accepts(op[n], n)
        /\ CASE op[n] = "create" -> Fail(n) /\ UNCHANGED <<state, tainted>>
             [] op[n] = "update" -> /\ Goto(n, "recover")
                                    /\ UNCHANGED <<state, tainted, failed>>
             [] op[n] = "delete" -> /\ Forget(n)
                                    /\ Goto(n, "done")
                                    /\ UNCHANGED failed
        /\ UNCHANGED remote
  /\ UNCHANGED <<late, config, phase, op, hand, history>>

\* The write fails with a status: nothing was done, or all of it was and the
\* answer is a 5xx or a body that does not decode.  Create, whose error is
\* not marked Ambiguous, looks no further.
Faulted(n) ==
  /\ pc[n] = "write"
  /\ remote' \in {remote} \cup (IF Accepts(op[n], n)
                                 THEN {Effect(op[n], n, config[n])} ELSE {})
  /\ IF op[n] = "create" THEN Fail(n) ELSE Goto(n, "recover") /\ UNCHANGED failed
  /\ Disturb
  /\ UNCHANGED <<late, files, phase, op, hand, quiet>>

\* No answer at all: the error is Ambiguous, and the request has been carried
\* out, has been refused or lost, or is still on its way.
Unanswered(n) ==
  /\ pc[n] = "write"
  /\ \/ /\ Accepts(op[n], n)
        /\ remote' = Effect(op[n], n, config[n])
        /\ UNCHANGED late
     \/ UNCHANGED portal
     \/ /\ late' = late \cup {Request(n)}
        /\ UNCHANGED remote
  /\ Goto(n, "recover")
  /\ Disturb
  /\ UNCHANGED <<files, phase, op, hand, failed, quiet>>

\* modelFromGroup
Model(g) == [label |-> g.label, order |-> g.order]

\* propertyGroupMatchesPlan
MatchesPlan(g, m) == /\ g # None
                     /\ g.label = m.label
                     /\ m.order \in {-1, g.order}

\* Whether modelFromGroupWithOrder compares the group with its neighbours.
Appended(n) == IF op[n] = "read" THEN state[n].order = -1 ELSE config[n].order = -1

\* The handler ends with a model in state.  Terraform accepts it only if it
\* is what was planned, and taints a created resource otherwise.
Record(n, m) ==
  /\ state' = [state EXCEPT ![n] = m]
  /\ Goto(n, "done")
  /\ IF op[n] = "read" \/ m = config[n]
       THEN UNCHANGED <<tainted, failed>>
       ELSE /\ failed' = TRUE
            /\ tainted' = IF op[n] = "create" THEN tainted \cup {n} ELSE tainted

Observe(n) ==
  IF Appended(n)
    THEN /\ hand' = [hand EXCEPT ![n] = remote[n]]
         /\ Goto(n, "list")
         /\ UNCHANGED <<state, tainted, failed>>
    ELSE Record(n, Model(remote[n])) /\ UNCHANGED hand

\* Read: one Get, and state follows what it found.
ReadGetKeepingMissing(n) ==
  /\ op[n] = "read" /\ pc[n] = "get"
  /\ IF remote[n] = None
       THEN Goto(n, "done") /\ UNCHANGED <<state, tainted, hand, failed>>
       ELSE Observe(n)
  /\ UNCHANGED <<portal, config, phase, op, history>>
ReadGet(n) ==
  /\ op[n] = "read" /\ pc[n] = "get"
  /\ IF remote[n] = None
       THEN Forget(n) /\ Goto(n, "done") /\ UNCHANGED <<hand, failed>>
       ELSE Observe(n)
  /\ UNCHANGED <<portal, config, phase, op, history>>

\* Create and Update verify by read-back, after success and after an error
\* that leaves room for it.
VerifyTrustingTheWrite(n) ==
  /\ op[n] \in {"create", "update"} /\ pc[n] \in {"get", "recover"}
  /\ Record(n, config[n])
  /\ UNCHANGED <<portal, config, phase, op, hand, history>>
Verify(n) ==
  /\ op[n] \in {"create", "update"} /\ pc[n] \in {"get", "recover"}
  /\ IF MatchesPlan(remote[n], config[n])
       THEN Observe(n)
       ELSE Fail(n) /\ UNCHANGED <<state, tainted, hand>>
  /\ UNCHANGED <<portal, config, phase, op, history>>

\* Delete verifies too.  The portal shows an archived group as archived or
\* not at all; after a failed archive request only the former is accepted.
VerifyDeleteHasty(n) ==
  /\ op[n] = "delete" /\ pc[n] \in {"get", "recover"}
  /\ \/ Forget(n) /\ Goto(n, "done") /\ UNCHANGED failed
     \/ pc[n] = "recover" /\ Fail(n) /\ UNCHANGED <<state, tainted>>
  /\ UNCHANGED <<portal, config, phase, op, hand, history>>
VerifyDelete(n) ==
  /\ op[n] = "delete" /\ pc[n] \in {"get", "recover"}
  /\ \/ /\ remote[n] = None
        /\ Forget(n) /\ Goto(n, "done") /\ UNCHANGED failed
     \/ /\ remote[n] # None \/ pc[n] = "recover"
        /\ Fail(n) /\ UNCHANGED <<state, tainted>>
  /\ UNCHANGED <<portal, config, phase, op, hand, history>>

\* The List of modelFromGroupWithOrder, against the group read before it.
List(n) ==
  /\ pc[n] = "list"
  /\ Record(n, IF hand[n].order >= LastOrder(Names)
                 THEN [Model(hand[n]) EXCEPT !.order = -1] ELSE Model(hand[n]))
  /\ UNCHANGED <<portal, config, phase, op, hand, history>>

\* A Get or a List fails.
ReadFails(n) ==
  /\ pc[n] \in {"get", "recover", "list"}
  /\ Fail(n)
  /\ Disturb
  /\ UNCHANGED <<portal, files, phase, op, hand, quiet>>

----------------------------------------------------------------------------
(* Terraform.                                                              *)

\* A run starts, perhaps with an edited configuration, and refreshes.
StartRun ==
  /\ phase = "idle"
  /\ phase' = "refresh"
  /\ config' \in Configs
  /\ op' = [n \in Names |-> IF state[n] = None THEN "none" ELSE "read"]
  /\ pc' = [n \in Names |-> IF state[n] = None THEN "done" ELSE "get"]
  /\ failed' = FALSE
  /\ quiet' = TRUE
  /\ settled' = (settled /\ config' = config)
  /\ UNCHANGED <<portal, state, tainted, hand, trouble>>

Planned(n) ==
  CASE state[n] # None /\ (config[n] = None \/ n \in tainted) -> "delete"
    [] state[n] = None /\ config[n] # None -> "create"
    [] /\ state[n] # None /\ config[n] # None /\ n \notin tainted
       /\ state[n] # config[n] -> "update"
    [] OTHER -> "none"

AllDone == \A n \in Names : pc[n] = "done"

Plan ==
  /\ phase = "refresh"
  /\ AllDone
  /\ ~failed
  /\ phase' = "apply"
  /\ op' = [n \in Names |-> Planned(n)]
  /\ pc' = [n \in Names |-> IF Planned(n) = "none" THEN "done" ELSE "write"]
  /\ UNCHANGED <<portal, files, hand, failed, history>>

\* A replaced group is created again once it is gone from state.
Replacing(n) == op[n] = "delete" /\ state[n] = None /\ config[n] # None

Replace(n) ==
  /\ phase = "apply" /\ pc[n] = "done"
  /\ Replacing(n)
  /\ op' = [op EXCEPT ![n] = "create"]
  /\ Goto(n, "write")
  /\ UNCHANGED <<portal, files, phase, hand, failed, history>>

EndRun ==
  /\ AllDone
  /\ \/ phase = "refresh" /\ failed
     \/ phase = "apply" /\ \A n \in Names : ~Replacing(n)
  /\ phase' = "idle"
  /\ settled' = (~failed /\ quiet)
  /\ UNCHANGED <<portal, files, op, pc, hand, failed, quiet, trouble>>

\* The process is killed: what its handlers returned is in the state file, and
\* the requests they had just sent may still arrive.
Crash ==
  /\ phase # "idle"
  /\ trouble < MaxTrouble /\ trouble' = trouble + 1
  /\ phase' = "idle"
  /\ pc' = [n \in Names |-> "done"]
  /\ \E sent \in SUBSET {n \in Names : pc[n] = "write"} :
       late' = late \cup {Request(n) : n \in sent}
  /\ settled' = FALSE
  /\ UNCHANGED <<remote, files, op, hand, failed, quiet>>

\* terraform import: ImportState knows the name only, so the Read after it
\* takes the order of the portal as it is.
Import(n) ==
  /\ phase = "idle" /\ state[n] = None
  /\ remote[n] # None
  /\ state' = [state EXCEPT ![n] = Model(remote[n])]
  /\ settled' = FALSE
  /\ UNCHANGED <<portal, config, tainted, run, quiet, trouble>>

----------------------------------------------------------------------------
(* Everybody else.                                                         *)

\* Somebody creates, edits or archives a group in HubSpot.
Foreign(n) ==
  /\ trouble < MaxTrouble /\ trouble' = trouble + 1
  /\ \E g \in Groups \cup {None} :
       /\ g # remote[n]
       /\ remote' = [remote EXCEPT ![n] = g]
  /\ quiet' = FALSE /\ settled' = FALSE
  /\ UNCHANGED <<late, files, run>>

\* A request arrives after its caller gave up, or never does.
ArriveLate ==
  \E r \in late :
    /\ late' = late \ {r}
    /\ \/ /\ Accepts(r.kind, r.name)
          /\ remote' = Effect(r.kind, r.name, r.model)
          /\ quiet' = FALSE /\ settled' = FALSE
       \/ UNCHANGED <<remote, quiet, settled>>
    /\ UNCHANGED <<files, run, trouble>>

Step(n) ==
  \/ Answered(n) \/ Faulted(n) \/ Unanswered(n)
  \/ ReadGet(n) \/ Verify(n) \/ VerifyDelete(n) \/ List(n) \/ ReadFails(n)
  \/ Replace(n)

Next ==
  \/ \E n \in Names : Step(n) \/ Import(n) \/ Foreign(n)
  \/ StartRun \/ Plan \/ EndRun \/ Crash \/ ArriveLate

Spec == Init /\ [][Next]_vars

----------------------------------------------------------------------------
(* Properties.                                                             *)

Requests == [kind : {"create", "update", "delete"}, name : Names,
             model : Models \cup {None}]

\* Every variable stays in its domain.
TypeOK ==
  /\ remote \in [Names -> Groups \cup {None}]
  /\ late \subseteq Requests
  /\ config \in Configs
  /\ state \in [Names -> Models \cup {None}]
  /\ tainted \subseteq {n \in Names : state[n] # None}
  /\ phase \in {"idle", "refresh", "apply"}
  /\ op \in [Names -> {"none", "read", "create", "update", "delete"}]
  /\ pc \in [Names -> {"done", "write", "get", "recover", "list"}]
  /\ hand \in [Names -> Groups \cup {None}]
  /\ failed \in BOOLEAN /\ quiet \in BOOLEAN /\ settled \in BOOLEAN
  /\ trouble \in 0..MaxTrouble

\* State forgets a group only at a moment when the portal has no such active
\* group: not after a failed refresh, not after an archive request whose
\* outcome is unknown, not because an update failed.
ForgottenOnlyWhenGone ==
  [][\A n \in Names : state[n] # None /\ state'[n] = None => remote[n] = None]_vars

\* The group is as configured; the append sentinel asks for the last place.
InPlace(n) == /\ MatchesPlan(remote[n], config[n])
              /\ config[n].order = -1 => remote[n].order = LastOrder(Names)

\* An empty plan hides no drift, and the -1 that state shows for an appended
\* group is no excuse: unless somebody interfered during the very refresh,
\* every configured group is in place and no managed one is left over.
EmptyPlanHidesNoDrift ==
  phase = "apply" /\ quiet /\ (\A n \in Names : op[n] = "none") =>
    \A n \in Names :
      IF config[n] = None THEN state[n] = None ELSE InPlace(n)

\* A run that ends without an error has done what it was asked to, whatever
\* became of its requests: the handlers verify every write before they
\* report success.
SuccessIsVerified ==
  phase = "apply" /\ quiet /\ ~failed /\ AllDone
    /\ (\A n \in Names : ~Replacing(n)) =>
    \A n \in Names :
      IF config[n] = None
        THEN state[n] = None /\ (op[n] = "delete" => remote[n] = None)
        ELSE MatchesPlan(remote[n], config[n])

\* Once a run has succeeded, and as long as nobody interferes, the next plan
\* for the same configuration is empty.  docs/surfaces/crm-property-schema.md
\* promises this for the generated order too.  It is not so: appending one
\* group moves the other one from the last place.
SecondPlanEmpty ==
  settled /\ phase = "apply" => \A n \in Names : op[n] = "none"
============================================================================
