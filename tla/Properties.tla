------------------------------ MODULE Properties ------------------------------
(***************************************************************************)
(* The hubspot_property resource: definitions with a place in their group  *)
(* and, for enumerations, options with places of their own.  In both, the  *)
(* configured order -1 asks for the last place; the portal numbers it, and *)
(* the provider has to find out from the numbers whether -1 still holds.   *)
(* An option map that is not configured follows the portal, unless the     *)
(* property stops being an enumeration.                                    *)
(***************************************************************************)
EXTENDS Integers, FiniteSets, FiniteSetsExt, Functions

CONSTANTS
  Names,        \* property names of one CRM object type
  PropGroups,   \* their groups
  Values,       \* option values, numbered as they sort
  Configs,      \* the configurations the author may apply
  Foreigners,   \* the definitions that other people write
  MaxOrder,     \* bound on display orders
  MaxTrouble,   \* bound on failures, crashes and foreign changes
  None          \* no definition; as options, none configured

Kinds == {"enumeration", "string"}
OptionMaps(orders) == UNION {[vs -> orders] : vs \in SUBSET Values}
NoOptions == [v \in {} |-> 0]
OptionOrders == 0..(MaxOrder + Cardinality(Values))
Definitions == [kind : Kinds, group : PropGroups, order : 0..MaxOrder,
                options : OptionMaps(OptionOrders), locked : BOOLEAN]
Models == [kind : Kinds, group : PropGroups, order : -1..MaxOrder,
           options : OptionMaps(OptionOrders \cup {-1})]
Plans == Models \cup {[m EXCEPT !.options = None] : m \in Models}

\* MaxOrder bounds the orders that people write, of options too.
ASSUME PropertyAssumption ==
  /\ MaxOrder \in Nat /\ MaxTrouble \in Nat
  /\ Values \subseteq Nat /\ IsFiniteSet(Values) /\ IsFiniteSet(Names)
  /\ None \notin Definitions \cup Plans \cup OptionMaps(OptionOrders \cup {-1})
  /\ Configs \subseteq [Names -> {None} \cup
       {p \in Plans : p.options # None => Range(p.options) \subseteq -1..MaxOrder}]
  /\ Foreigners \subseteq {d \in Definitions : Range(d.options) \subseteq 0..MaxOrder}

VARIABLES
  remote,    \* the active definitions of the portal
  late,      \* requests whose caller has given up, still on their way
  config,    \* the configuration being applied
  state,     \* propertyResourceModel of each managed property
  tainted,   \* properties whose creation ended in an error after state was set
  phase,     \* what Terraform is doing
  op,        \* the handler that runs, or ran, for each property in this phase
  pc,        \* where that handler stands
  hand,      \* the definition its last Get returned
  failed,    \* whether this run has reported an error
  quiet,     \* whether nobody else changed the portal during this run
  settled,   \* whether the last run succeeded and nobody changed anything since
  trouble    \* how much has gone wrong so far

portal == <<remote, late>>
kept == <<state, tainted>>
handlers == <<op, pc, hand>>
history == <<quiet, settled, trouble>>
vars == <<portal, config, kept, phase, handlers, failed, history>>

Init ==
  /\ remote \in [Names -> Foreigners \cup {None}] /\ late = {}
  /\ config \in Configs
  /\ state = [n \in Names |-> None] /\ tainted = {}
  /\ phase = "idle" /\ op = [n \in Names |-> "none"]
  /\ pc = [n \in Names |-> "done"] /\ hand = [n \in Names |-> None]
  /\ failed = FALSE /\ quiet = TRUE /\ settled = FALSE /\ trouble = 0

----------------------------------------------------------------------------
(* Places.                                                                 *)

\* The last place of a group, and the place of a definition written to it.
LastOrder(g, ns) ==
  Max({-1} \cup {remote[n].order : n \in {m \in ns : remote[m] # None /\ remote[m].group = g}})
Place(n, m) ==
  IF m.order # -1 THEN m.order
  ELSE Min({LastOrder(m.group, Names \ {n}) + 1, MaxOrder})

\* The portal appends options with the order -1 in the order of the request,
\* which propertyWriteFromModel sorts by value.
Sentinels(o) == {v \in DOMAIN o : o[v] = -1}
Numbered(o) ==
  LET last == Max({-1} \cup Range(o))
      rank(v) == Cardinality({w \in Sentinels(o) : w <= v})
  IN [v \in DOMAIN o |-> IF o[v] = -1 THEN last + rank(v) ELSE o[v]]

\* preserveConfiguredOptionAppendOrders: -1 comes back for all the options
\* that have it in the plan or none, and only if they are the last ones and
\* in the order of their values.
Before(o, v, w) == o[v] < o[w] \/ (o[v] = o[w] /\ v < w)
AnyTail(o, vs) == vs \subseteq DOMAIN o
AreTail(o, vs) ==
  /\ vs \subseteq DOMAIN o
  /\ \A v \in vs, w \in DOMAIN o :
       (w \notin vs => Before(o, w, v)) /\ (w \in vs /\ v < w => Before(o, v, w))
AsWritten(o, planned) == planned
Preserved(o, planned) ==
  IF planned = None \/ ~AreTail(o, Sentinels(planned)) THEN o
  ELSE [v \in DOMAIN o |-> IF v \in Sentinels(planned) THEN -1 ELSE o[v]]

----------------------------------------------------------------------------
(* What is planned, and what is sent.                                      *)

\* propertyOptionsPlanModifier
PlannedOptions(n) ==
  CASE config[n].options # None -> config[n].options
    [] config[n].options = None /\ state[n] = None -> None
    [] OTHER -> IF config[n].kind # state[n].kind /\ config[n].kind # "enumeration"
                  THEN NoOptions ELSE state[n].options
Wanted(n) == [config[n] EXCEPT !.options = PlannedOptions(n)]

\* propertyWriteFromModel sends an empty list for options that are not known;
\* validatePropertyShape refuses it for an enumeration, and options elsewhere.
Sent(m) == IF m.options = None THEN NoOptions ELSE m.options
ValidShape(m) == m.kind = "enumeration" <=> DOMAIN Sent(m) # {}

Request(n) == [kind |-> op[n], name |-> n,
               model |-> IF op[n] = "delete" THEN None ELSE Wanted(n)]

\* The portal refuses a name in use, edits of what is not there, and edits of
\* a definition that HubSpot or an app has locked.
Accepts(r) ==
  IF r.kind = "create" THEN remote[r.name] = None
  ELSE remote[r.name] # None /\ ~remote[r.name].locked
Effect(r) ==
  [remote EXCEPT ![r.name] =
     IF r.kind = "delete" THEN None
     ELSE [kind |-> r.model.kind, group |-> r.model.group,
           order |-> Place(r.name, r.model),
           options |-> Numbered(Sent(r.model)), locked |-> FALSE]]

Disturb == trouble < MaxTrouble /\ trouble' = trouble + 1 /\ UNCHANGED settled

----------------------------------------------------------------------------
(* The handlers.                                                           *)

Goto(n, l) == pc' = [pc EXCEPT ![n] = l]
Continue(n, l) == Goto(n, l) /\ UNCHANGED <<kept, failed, hand>>
Fail(n) == Goto(n, "done") /\ failed' = TRUE /\ UNCHANGED <<kept, hand>>
Forget(n) == /\ Goto(n, "done")
             /\ state' = [state EXCEPT ![n] = None]
             /\ tainted' = tainted \ {n}
             /\ UNCHANGED <<failed, hand>>

Frame == UNCHANGED <<config, phase, op, quiet>>
Sending(n) ==
  pc[n] = "write" /\ IF op[n] = "delete" THEN TRUE ELSE ValidShape(Wanted(n))

\* The client refuses an impossible shape before it sends anything.
RefuseShape(n) ==
  /\ pc[n] = "write" /\ ~Sending(n)
  /\ Fail(n)
  /\ Frame /\ UNCHANGED <<portal, settled, trouble>>

\* Create, Update and Delete send their request and get an answer.
Answered(n) ==
  /\ Sending(n)
  /\ IF Accepts(Request(n))
       THEN remote' = Effect(Request(n)) /\ Continue(n, "get")
       ELSE /\ UNCHANGED remote
            /\ IF op[n] = "delete" /\ remote[n] = None THEN Forget(n) ELSE Fail(n)
  /\ Frame /\ UNCHANGED <<late, settled, trouble>>

\* The write fails with a status, and nothing was done or all of it: none of
\* the handlers looks any further.
Faulted(n) ==
  /\ Sending(n)
  /\ \/ UNCHANGED remote
     \/ Accepts(Request(n)) /\ remote' = Effect(Request(n))
  /\ Fail(n)
  /\ Disturb /\ Frame /\ UNCHANGED late

\* No answer.  Create and Update read back; Delete gives up.
Unanswered(n) ==
  /\ Sending(n)
  /\ \/ UNCHANGED portal
     \/ Accepts(Request(n)) /\ remote' = Effect(Request(n)) /\ UNCHANGED late
     \/ late' = late \cup {Request(n)} /\ UNCHANGED remote
  /\ IF op[n] = "delete" THEN Fail(n) ELSE Continue(n, "get")
  /\ Disturb /\ Frame

\* propertyMatchesPlan
MatchesShape(d, m) ==
  d # None /\ d.kind = m.kind /\ d.group = m.group /\ m.order \in {-1, d.order}
Matches(d, m) ==
  /\ MatchesShape(d, m)
  /\ m.options # None =>
       /\ DOMAIN m.options = DOMAIN d.options
       /\ \A v \in DOMAIN d.options : m.options[v] \in {-1, d.options[v]}

\* The model that tells a handler which orders were configured as -1.
HintOfWrites(n) ==
  IF op[n] = "read" THEN [state[n] EXCEPT !.options = None] ELSE Wanted(n)
Hint(n) == IF op[n] = "read" THEN state[n] ELSE Wanted(n)

\* The handler ends with a model in state.  Terraform accepts it only if it
\* is what was planned, and taints a created resource otherwise.
AsPlanned(n, m) ==
  m = Wanted(n) \/ (Wanted(n).options = None /\ [m EXCEPT !.options = None] = Wanted(n))
Record(n, d, order) ==
  LET m == [kind |-> d.kind, group |-> d.group, order |-> order,
            options |-> Preserved(d.options, Hint(n).options)]
  IN /\ Goto(n, "done")
     /\ state' = [state EXCEPT ![n] = m]
     /\ UNCHANGED hand
     /\ IF op[n] = "read" \/ AsPlanned(n, m)
          THEN UNCHANGED <<tainted, failed>>
          ELSE /\ failed' = TRUE
               /\ tainted' = IF op[n] = "create" THEN tainted \cup {n} ELSE tainted

\* modelFromPropertyDefinitionWithOrders
Observe(n) ==
  IF Hint(n).order # -1 THEN Record(n, remote[n], remote[n].order)
  ELSE /\ Goto(n, "list")
       /\ hand' = [hand EXCEPT ![n] = remote[n]]
       /\ UNCHANGED <<kept, failed>>

\* Read lets go of what is not there, and refuses what has been locked.
Read(n) ==
  /\ op[n] = "read" /\ pc[n] = "get"
  /\ CASE remote[n] = None -> Forget(n)
       [] remote[n] # None /\ remote[n].locked -> Fail(n)
       [] OTHER -> Observe(n)
  /\ Frame /\ UNCHANGED <<portal, settled, trouble>>

\* Create and Update verify by read-back.
Verify(n) ==
  /\ op[n] \in {"create", "update"} /\ pc[n] = "get"
  /\ IF Matches(remote[n], Wanted(n)) THEN Observe(n) ELSE Fail(n)
  /\ Frame /\ UNCHANGED <<portal, settled, trouble>>

\* Delete reads the archived view, which shows a definition of this name as
\* archived or nothing yet: either will do.
VerifyDelete(n) ==
  /\ op[n] = "delete" /\ pc[n] = "get"
  /\ Forget(n)
  /\ Frame /\ UNCHANGED <<portal, settled, trouble>>

\* propertyIsLastInGroup, for the definition read before the List.
List(n) ==
  /\ pc[n] = "list"
  /\ Record(n, hand[n], IF hand[n].order >= LastOrder(hand[n].group, Names)
                          THEN -1 ELSE hand[n].order)
  /\ Frame /\ UNCHANGED <<portal, settled, trouble>>

\* A Get or a List fails.
ReadFails(n) ==
  /\ pc[n] \in {"get", "list"}
  /\ Fail(n)
  /\ Disturb /\ Frame /\ UNCHANGED portal

Handle(n) ==
  \/ RefuseShape(n) \/ Answered(n) \/ Faulted(n) \/ Unanswered(n)
  \/ Read(n) \/ Verify(n) \/ VerifyDelete(n) \/ List(n) \/ ReadFails(n)

----------------------------------------------------------------------------
(* Terraform.                                                              *)

\* A run starts, perhaps with an edited configuration, and refreshes.
StartRun ==
  /\ phase = "idle" /\ phase' = "refresh"
  /\ config' \in Configs
  /\ op' = [n \in Names |-> IF state[n] = None THEN "none" ELSE "read"]
  /\ pc' = [n \in Names |-> IF state[n] = None THEN "done" ELSE "get"]
  /\ failed' = FALSE /\ quiet' = TRUE
  /\ settled' = (settled /\ config' = config)
  /\ UNCHANGED <<portal, kept, hand, trouble>>

Planned(n) ==
  CASE config[n] = None -> IF state[n] = None THEN "none" ELSE "delete"
    [] config[n] # None /\ state[n] = None -> "create"
    [] n \in tainted -> "delete"
    [] OTHER -> IF state[n] = Wanted(n) THEN "none" ELSE "update"

AllDone == \A n \in Names : pc[n] = "done"

Plan ==
  /\ phase = "refresh" /\ AllDone /\ ~failed
  /\ phase' = "apply"
  /\ op' = [n \in Names |-> Planned(n)]
  /\ pc' = [n \in Names |-> IF Planned(n) = "none" THEN "done" ELSE "write"]
  /\ UNCHANGED <<portal, config, kept, hand, failed, history>>

\* A replaced property is created again once it is gone from state.
Replacing(n) ==
  phase = "apply" /\ op[n] = "delete" /\ state[n] = None /\ config[n] # None

Replace(n) ==
  /\ Replacing(n) /\ pc[n] = "done"
  /\ op' = [op EXCEPT ![n] = "create"] /\ pc' = [pc EXCEPT ![n] = "write"]
  /\ UNCHANGED <<portal, config, kept, phase, hand, failed, history>>

EndRun ==
  /\ AllDone
  /\ \/ phase = "refresh" /\ failed
     \/ phase = "apply" /\ \A n \in Names : ~Replacing(n)
  /\ phase' = "idle"
  /\ settled' = (~failed /\ quiet)
  /\ UNCHANGED <<portal, config, kept, handlers, failed, quiet, trouble>>

\* The process is killed; a request just sent may still arrive.
Crash ==
  /\ phase # "idle"
  /\ trouble < MaxTrouble /\ trouble' = trouble + 1
  /\ phase' = "idle" /\ pc' = [n \in Names |-> "done"]
  /\ \E sent \in SUBSET {n \in Names : Sending(n)} :
       late' = late \cup {Request(n) : n \in sent}
  /\ settled' = FALSE
  /\ UNCHANGED <<remote, config, kept, op, hand, failed, quiet>>

\* terraform import takes what the portal shows, and the Read after it finds
\* no order configured as -1.
Import(n) ==
  /\ phase = "idle" /\ state[n] = None
  /\ remote[n] # None /\ ~remote[n].locked
  /\ state' = [state EXCEPT ![n] = [kind |-> remote[n].kind, group |-> remote[n].group,
                 order |-> remote[n].order, options |-> remote[n].options]]
  /\ settled' = FALSE
  /\ UNCHANGED <<portal, config, tainted, phase, handlers, failed, quiet, trouble>>

----------------------------------------------------------------------------
(* Everybody else.                                                         *)

\* Somebody creates, edits, locks or archives a definition in HubSpot.
Foreign(n) ==
  /\ trouble < MaxTrouble /\ trouble' = trouble + 1
  /\ \E d \in Foreigners \cup {None} :
       d # remote[n] /\ remote' = [remote EXCEPT ![n] = d]
  /\ quiet' = FALSE /\ settled' = FALSE
  /\ UNCHANGED <<late, config, kept, phase, handlers, failed>>

\* A request arrives after its caller gave up, or never does.
ArriveLate ==
  \E r \in late :
    /\ late' = late \ {r}
    /\ \/ /\ Accepts(r) /\ remote' = Effect(r)
          /\ quiet' = FALSE /\ settled' = FALSE
       \/ UNCHANGED <<remote, quiet, settled>>
    /\ UNCHANGED <<config, kept, phase, handlers, failed, trouble>>

Next ==
  \/ \E n \in Names : Handle(n) \/ Replace(n) \/ Import(n) \/ Foreign(n)
  \/ StartRun \/ Plan \/ EndRun \/ Crash \/ ArriveLate

Spec == Init /\ [][Next]_vars

----------------------------------------------------------------------------
(* Properties.                                                             *)

Requests == [kind : {"create", "update", "delete"}, name : Names,
             model : Plans \cup {None}]

\* The shape of every variable; the numbers of a property's options stay
\* within the orders ever configured plus one for each option.
TypeOK ==
  /\ remote \in [Names -> Definitions \cup {None}] /\ late \subseteq Requests
  /\ config \in Configs
  /\ state \in [Names -> Models \cup {None}]
  /\ tainted \subseteq {n \in Names : state[n] # None}
  /\ phase \in {"idle", "refresh", "apply"}
  /\ op \in [Names -> {"none", "read", "create", "update", "delete"}]
  /\ pc \in [Names -> {"done", "write", "get", "list"}]
  /\ hand \in [Names -> Definitions \cup {None}]
  /\ failed \in BOOLEAN /\ quiet \in BOOLEAN /\ settled \in BOOLEAN
  /\ trouble \in 0..MaxTrouble

\* The definition is as configured: -1 asks for the last place in the group,
\* and the options with -1 are behind all others, as their values sort.  An
\* option map that is not configured may be anything.
InPlace(n) ==
  /\ MatchesShape(remote[n], config[n])
  /\ config[n].order = -1 => remote[n].order = LastOrder(config[n].group, Names)
  /\ LET o == remote[n].options
         c == config[n].options
     IN c # None =>
          /\ DOMAIN c = DOMAIN o
          /\ \A v \in DOMAIN o : c[v] \in {-1, o[v]}
          /\ \A v, w \in DOMAIN o :
               c[w] = -1 /\ (c[v] # -1 \/ v < w) => Before(o, v, w)

\* An empty plan hides no drift behind a sentinel: unless somebody interfered
\* during the refresh, every configured property and each of its options is
\* in place, none that is managed is left over, and no scalar has options.
EmptyPlanHidesNoDrift ==
  phase = "apply" /\ quiet /\ (\A n \in Names : op[n] = "none") =>
    \A n \in Names : IF config[n] = None THEN state[n] = None ELSE InPlace(n)

\* Two properties of one group that ask for its last place never settle
\* (PropertyGroups.SecondPlanEmpty shows why).
Alone == \A n, m \in Names :
  n # m /\ config[n] # None /\ config[m] # None /\ config[n].order = -1
    => config[n].group # config[m].group

\* Once a run has succeeded, and as long as nobody interferes, the next plan
\* for the same configuration is empty: the numbers that the portal gave to
\* appended options read back as what was configured, options that are not
\* configured stay as they are, and a change of the type leaves nothing over.
SettledPlanEmpty ==
  settled /\ phase = "apply" /\ Alone => \A n \in Names : op[n] = "none"
============================================================================
