------------------------------- MODULE Product -----------------------------
(***************************************************************************)
(* The hubspot_product resource: one resource address, its state file and  *)
(* its CRUD handlers.  Unlike a property group a product has an identity   *)
(* the portal generates, which is known only if a create response arrives; *)
(* its optional values may be unmanaged, its decimals are respelled by the *)
(* portal, and its archival shows up late.                                 *)
(***************************************************************************)
EXTENDS Integers, FiniteSets, FiniteSetsExt

CONSTANTS
  Ids,          \* product IDs, in the order the portal generates them
  Texts,        \* name, SKU and description, which are plain strings
  Amounts,      \* what decimal strings denote
  Configs,      \* the definitions the author may apply
  Edits,        \* the definitions other people may write
  Attempts,     \* attempts of waitForProductTerminal, 5 in the code
  MaxTrouble,   \* bound on failures, crashes and foreign changes
  None          \* no product

\* A property value: a decimal in one of two spellings, "null" (unmanaged,
\* in a model only), the empty string, or an odd one the provider rejects.
Value(a) == [amount |-> a, form |-> "plain"]
Decimals == [amount : Amounts, form : {"plain", "padded"}]
Null == Value("null")
Empty == Value("empty")
Odd == Value("odd")

Models == [text : Texts, price : Decimals \cup {Odd},
           cost : Decimals \cup {Null, Empty, Odd}]
Lives == {"active", "archiving", "hidden", "archived", "purged"}
Products == [life : Lives, def : Models, made : {"here", "elsewhere"}]
States == [id : Ids, def : Models]

ASSUME ProductAssumption ==
  /\ Ids \subseteq Nat /\ IsFiniteSet(Ids)
  /\ {"null", "empty", "odd"} \cap Amounts = {}
  /\ Attempts \in Nat \ {0} /\ MaxTrouble \in Nat
  /\ Configs \subseteq Models \cup {None}
  /\ Edits \subseteq Models
  /\ None \notin Models \cup Products \cup States

VARIABLES
  portal,    \* every product the portal has ever had
  late,      \* requests whose caller has given up, still on their way
  config,    \* the configuration being applied
  state,     \* what the state file says
  tainted,   \* whether the creation of that product ended in an error
  draft,     \* the state in the response of the handler that runs
  phase,     \* what Terraform is doing
  op,        \* the handler that runs, or ran, in this phase
  pc,        \* where it stands
  tries,     \* attempts of waitForProductTerminal made
  failed,    \* whether this run has reported an error
  quiet,     \* whether nobody else changed the portal during this run
  settled,   \* whether the last run succeeded and nobody changed anything since
  clean,     \* whether no run has ever failed or been killed
  trouble    \* how much has gone wrong so far

files == <<config, state, tainted>>
run == <<phase, op, pc, tries, draft, failed>>
history == <<quiet, settled, clean, trouble>>
vars == <<portal, late, config, state, tainted, draft, phase, op, pc, tries,
          failed, quiet, settled, clean, trouble>>

Init ==
  /\ portal = [p \in Ids |-> None]
  /\ late = {}
  /\ config \in Configs
  /\ state = None /\ tainted = FALSE /\ draft = None
  /\ phase = "idle" /\ op = "none" /\ pc = "done" /\ tries = 0
  /\ failed = FALSE /\ quiet = TRUE /\ settled = FALSE /\ clean = TRUE
  /\ trouble = 0

----------------------------------------------------------------------------
(* Values.                                                                 *)

\* productDecimalsEqual
DecimalsEqual(u, v) == u.amount = v.amount /\ u.amount # "odd"

\* The portal drops trailing zeros.
Normalized(v) == [v EXCEPT !.form = "plain"]

Manages(v) == v # Null

\* productMatchesPlan
MatchesPlan(def, plan) ==
  /\ def.text = plan.text
  /\ DecimalsEqual(def.price, plan.price)
  /\ Manages(plan.cost) => DecimalsEqual(def.cost, plan.cost)

\* productPatchFromModels: the managed properties that change.
Patch(from, plan) ==
  {f \in {"text", "price", "cost"} :
     CASE f = "text" -> from.text # plan.text
       [] f = "price" -> ~DecimalsEqual(from.price, plan.price)
       [] f = "cost" -> Manages(plan.cost) /\ ~DecimalsEqual(from.cost, plan.cost)}

\* productModelFromRemote: a value keeps the spelling of the prior state as
\* long as it denotes the same number, and an unmanaged one stays unmanaged.
Supported(def, prior) == /\ def.price # Odd
                         /\ def.cost = Odd => prior # None /\ prior.cost = Null
Respelled(v, prior) == IF DecimalsEqual(prior, v) THEN prior ELSE v
AsTheRemoteSpells(def, prior) ==
  IF prior # None /\ prior.cost = Null THEN [def EXCEPT !.cost = Null] ELSE def
ModelFromRemote(def, prior) ==
  IF prior = None
    THEN [def EXCEPT !.cost = IF @ = Empty THEN Null ELSE @]
    ELSE [def EXCEPT
            !.price = Respelled(@, prior.price),
            !.cost = IF Manages(prior.cost) THEN Respelled(@, prior.cost)
                                            ELSE Null]

----------------------------------------------------------------------------
(* The portal.                                                             *)

Exists(p) == portal[p] # None
Live(p) == Exists(p) /\ portal[p].life = "active"
NextId == Min({p \in Ids : ~Exists(p)})
Room == \E p \in Ids : ~Exists(p)

\* An active product's SKU cannot be used again.
Free(text, p) == \A q \in Ids \ {p} : Live(q) => portal[q].def.text # text

Stored(plan) ==
  [plan EXCEPT !.price = Normalized(@),
               !.cost = IF Manages(@) THEN Normalized(@) ELSE Empty]
Create(plan, who) ==
  [portal EXCEPT ![NextId] = [life |-> "active", def |-> Stored(plan), made |-> who]]

\* What a request does to the portal; the patch names the changed properties.
Requests == [kind : {"create", "update", "delete"}, id : Ids \cup {None},
             plan : Models \cup {None}, patch : SUBSET {"text", "price", "cost"}]
Accepts(r) ==
  CASE r.kind = "create" -> Room /\ Free(r.plan.text, NextId)
    [] r.kind = "update" -> /\ Live(r.id)
                            /\ "text" \in r.patch => Free(r.plan.text, r.id)
    [] r.kind = "delete" -> Live(r.id)
Effect(r) ==
  CASE r.kind = "create" -> Create(r.plan, "here")
    [] r.kind = "update" ->
         [portal EXCEPT ![r.id].def =
            [f \in DOMAIN @ |-> IF f \in r.patch THEN Stored(r.plan)[f] ELSE @[f]]]
    [] r.kind = "delete" -> [portal EXCEPT ![r.id].life = "archiving"]

\* The request a handler sends at "write".
Request ==
  [kind |-> op, id |-> IF op = "create" THEN None ELSE state.id,
   plan |-> config,
   patch |-> IF op = "update" THEN Patch(state.def, config) ELSE {}]

\* productPresence: Get, and GetArchived after a 404.  For a while after it
\* is archived a product is still shown as active, or not shown at all.
Presence(p) == CASE portal[p].life \in {"active", "archiving"} -> "active"
                 [] portal[p].life \in {"hidden", "purged"} -> "absent"
                 [] OTHER -> "archived"

Disturb == trouble < MaxTrouble /\ trouble' = trouble + 1

----------------------------------------------------------------------------
(* The handlers.  A handler's state reaches the file when it returns.      *)

Goto(l) == pc' = l

Succeed(d) == /\ state' = d /\ draft' = d
              /\ tainted' = FALSE
              /\ Goto("done")
              /\ UNCHANGED failed

\* An error leaves what the response already holds: the prior state, or the
\* recovery state of Create.
Fail == /\ failed' = TRUE
        /\ state' = draft
        /\ tainted' = (tainted \/ (op = "create" /\ draft # None))
        /\ Goto("done")
        /\ UNCHANGED draft

\* Read
ReadForgettingUnsupported ==
  /\ op = "read" /\ pc = "get"
  /\ Succeed(IF Presence(state.id) = "active"
                /\ Supported(portal[state.id].def, state.def)
               THEN [state EXCEPT !.def = ModelFromRemote(portal[state.id].def, @)]
               ELSE None)
  /\ UNCHANGED <<portal, late, config, phase, op, tries, history>>
Read ==
  /\ op = "read" /\ pc = "get"
  /\ \/ /\ Presence(state.id) = "active"
        /\ IF Supported(portal[state.id].def, state.def)
             THEN /\ state' = [state EXCEPT
                                 !.def = ModelFromRemote(portal[state.id].def, @)]
                  /\ draft' = state'
                  /\ UNCHANGED <<tainted, failed>>
             ELSE failed' = TRUE /\ UNCHANGED <<state, tainted, draft>>
     \/ /\ Presence(state.id) # "active"
        /\ state' = None /\ draft' = None /\ tainted' = FALSE
        /\ UNCHANGED failed
  /\ Goto("done")
  /\ UNCHANGED <<portal, late, config, phase, op, tries, history>>

\* Create: the portal answers with the new ID, also when the rest of the
\* response does not decode; the recovery state is set at once.
CreateAnswered ==
  /\ op = "create" /\ pc = "write"
  /\ IF Accepts(Request)
       THEN /\ portal' = Effect(Request)
            /\ draft' = [id |-> NextId, def |-> config]
            /\ Goto("get")
            /\ UNCHANGED <<state, tainted, failed>>
       ELSE Fail /\ UNCHANGED portal
  /\ UNCHANGED <<late, config, phase, op, tries, history>>

\* No ID comes back, whatever became of the request.
CreateUnknown ==
  /\ op = "create" /\ pc = "write"
  /\ \/ Accepts(Request) /\ portal' = Effect(Request) /\ UNCHANGED late
     \/ UNCHANGED <<portal, late>>
     \/ late' = late \cup {Request} /\ UNCHANGED portal
  /\ Fail
  /\ Disturb
  /\ UNCHANGED <<config, phase, op, tries, quiet, settled, clean>>

VerifyCreate ==
  /\ op = "create" /\ pc = "get"
  /\ IF Presence(draft.id) = "active" /\ MatchesPlan(portal[draft.id].def, config)
       THEN Succeed(draft) ELSE Fail
  /\ UNCHANGED <<portal, late, config, phase, op, tries, history>>

\* Update sends nothing when no managed property changes.
UpdateNothing ==
  /\ op = "update" /\ pc = "write"
  /\ Patch(state.def, config) = {}
  /\ Succeed([state EXCEPT !.def = config])
  /\ UNCHANGED <<portal, late, config, phase, op, tries, history>>

\* The write of Update or Delete ends, with a response or without one; the
\* handler goes on to look either way.
Write ==
  /\ op \in {"update", "delete"} /\ pc = "write"
  /\ op = "update" => Patch(state.def, config) # {}
  /\ \/ /\ IF Accepts(Request) THEN portal' = Effect(Request) ELSE UNCHANGED portal
        /\ UNCHANGED <<late, trouble>>
     \/ /\ UNCHANGED portal
        /\ late' \in {late, late \cup {Request}}
        /\ Disturb
  /\ Goto("get")
  /\ UNCHANGED <<files, draft, phase, op, tries, failed, quiet, settled, clean>>

VerifyUpdateTrusting ==
  /\ op = "update" /\ pc = "get"
  /\ Succeed([state EXCEPT !.def = config])
  /\ UNCHANGED <<portal, late, config, phase, op, tries, history>>
VerifyUpdate ==
  /\ op = "update" /\ pc = "get"
  /\ IF Presence(state.id) = "active" /\ MatchesPlan(portal[state.id].def, config)
       THEN Succeed([state EXCEPT !.def = config]) ELSE Fail
  /\ UNCHANGED <<portal, late, config, phase, op, tries, history>>

\* Delete looks first: an identity already archived or absent is done with.
Preflight ==
  /\ op = "delete" /\ pc = "look"
  /\ IF Presence(state.id) = "active"
       THEN Goto("write") /\ UNCHANGED <<state, tainted, draft, failed>>
       ELSE Succeed(None)
  /\ UNCHANGED <<portal, late, config, phase, op, tries, history>>

\* waitForProductTerminal: after the archive request only the archived view
\* is accepted, within a bounded number of attempts.
AwaitNothing ==
  /\ op = "delete" /\ pc = "get"
  /\ Succeed(None)
  /\ UNCHANGED <<portal, late, config, phase, op, tries, history>>
AwaitOneMore ==
  /\ op = "delete" /\ pc = "get"
  /\ \/ Presence(state.id) = "archived" /\ Succeed(None) /\ UNCHANGED tries
     \/ /\ Presence(state.id) = "absent" \/ tries = Attempts
        /\ Fail /\ UNCHANGED tries
     \/ /\ Presence(state.id) = "active" /\ tries < Attempts
        /\ tries' = tries + 1
        /\ UNCHANGED <<state, tainted, draft, pc, failed>>
  /\ UNCHANGED <<portal, late, config, phase, op, history>>
AwaitTerminal ==
  /\ op = "delete" /\ pc = "get"
  /\ \/ /\ Presence(state.id) = "archived"
        /\ Succeed(None)
        /\ UNCHANGED tries
     \/ /\ \/ Presence(state.id) = "absent"
           \/ Presence(state.id) = "active" /\ tries + 1 = Attempts
        /\ Fail
        /\ UNCHANGED tries
     \/ /\ Presence(state.id) = "active" /\ tries + 1 < Attempts
        /\ tries' = tries + 1
        /\ UNCHANGED <<state, tainted, draft, pc, failed>>
  /\ UNCHANGED <<portal, late, config, phase, op, history>>

\* A read of any handler fails, or is refused.
ReadFails ==
  /\ pc \in {"get", "look"}
  /\ Fail
  /\ Disturb
  /\ UNCHANGED <<portal, late, config, phase, op, tries, quiet, settled, clean>>

Handler ==
  \/ Read \/ CreateAnswered \/ CreateUnknown \/ VerifyCreate
  \/ UpdateNothing \/ Write \/ VerifyUpdate
  \/ Preflight \/ AwaitTerminal \/ ReadFails

----------------------------------------------------------------------------
(* Terraform.                                                              *)

Begin(o, l) == op' = o /\ pc' = l /\ draft' = state /\ tries' = 0

StartRun ==
  /\ phase = "idle"
  /\ phase' = "refresh"
  /\ config' \in Configs
  /\ IF state = None THEN Begin("none", "done") ELSE Begin("read", "get")
  /\ quiet' = TRUE
  /\ settled' = (settled /\ config' = config)
  /\ UNCHANGED <<portal, late, state, tainted, failed, clean, trouble>>

Plan ==
  /\ phase = "refresh" /\ pc = "done" /\ ~failed
  /\ phase' = "apply"
  /\ \/ /\ state # None /\ (config = None \/ tainted)
        /\ Begin("delete", "look")
     \/ /\ state = None /\ config # None
        /\ Begin("create", "write")
     \/ /\ state # None /\ config # None /\ ~tainted /\ state.def # config
        /\ Begin("update", "write")
     \/ /\ \/ state = None /\ config = None
           \/ state # None /\ ~tainted /\ state.def = config
        /\ Begin("none", "done")
  /\ UNCHANGED <<portal, late, files, failed, history>>

\* A tainted product is created again once the old one is gone from state.
Replacing == phase = "apply" /\ op = "delete" /\ pc = "done"
             /\ state = None /\ config # None

Replace ==
  /\ Replacing
  /\ Begin("create", "write")
  /\ UNCHANGED <<portal, late, files, phase, failed, history>>

EndRun ==
  /\ pc = "done"
  /\ \/ phase = "refresh" /\ failed
     \/ phase = "apply" /\ ~Replacing
  /\ phase' = "idle"
  /\ Begin("none", "done")
  /\ failed' = FALSE /\ quiet' = TRUE
  /\ settled' = (~failed /\ quiet)
  /\ clean' = (clean /\ ~failed)
  /\ UNCHANGED <<portal, late, files, trouble>>

\* The process is killed: the handler's response is lost, and a request it
\* had just sent may still arrive.
Crash ==
  /\ phase # "idle"
  /\ Disturb
  /\ phase' = "idle"
  /\ Begin("none", "done")
  /\ failed' = FALSE /\ quiet' = TRUE
  /\ late' \in {late} \cup (IF pc = "write" THEN {late \cup {Request}} ELSE {})
  /\ settled' = FALSE /\ clean' = FALSE
  /\ UNCHANGED <<portal, files>>

\* terraform import, by exact ID, of an active product.
Import(p) ==
  /\ phase = "idle" /\ state = None
  /\ Exists(p)
  /\ Presence(p) = "active"
  /\ Supported(portal[p].def, None)
  /\ state' = [id |-> p, def |-> ModelFromRemote(portal[p].def, None)]
  /\ draft' = state'
  /\ settled' = FALSE
  /\ UNCHANGED <<portal, late, config, tainted, phase, op, pc, tries, failed,
                 quiet, clean, trouble>>

----------------------------------------------------------------------------
(* Everybody else.                                                         *)

\* Somebody creates, edits, archives or purges a product.
Foreign ==
  /\ Disturb
  /\ \/ Room /\ \E d \in Edits : /\ Free(d.text, NextId)
                                 /\ portal' = Create(d, "elsewhere")
     \/ \E p \in Ids :
          /\ Live(p)
          /\ \/ \E d \in Edits : /\ Free(d.text, p)
                                 /\ portal' = [portal EXCEPT ![p].def = Stored(d)]
             \/ \E l \in {"archived", "purged"} : portal' = [portal EXCEPT ![p].life = l]
  /\ portal' # portal
  /\ quiet' = FALSE /\ settled' = FALSE
  /\ UNCHANGED <<late, files, run, clean>>

\* The portal's views catch up with an archival, or it purges the product;
\* outside Delete that is interference for the address that holds it.
Settle(p) ==
  /\ Exists(p)
  /\ \E l \in Lives :
       /\ <<portal[p].life, l>> \in {<<"archiving", "hidden">>, <<"archiving", "archived">>,
            <<"hidden", "archived">>, <<"archived", "purged">>}
       /\ portal' = [portal EXCEPT ![p].life = l]
  /\ LET own == state # None /\ state.id = p /\ op # "delete"
     IN  quiet' = (quiet /\ ~own) /\ settled' = (settled /\ ~own)
  /\ UNCHANGED <<late, files, run, clean, trouble>>

\* A request arrives after its caller gave up, or never does.
ArriveLate ==
  \E r \in late :
    /\ late' = late \ {r}
    /\ \/ /\ Accepts(r)
          /\ portal' = Effect(r)
          /\ quiet' = FALSE /\ settled' = FALSE
       \/ UNCHANGED <<portal, quiet, settled>>
    /\ UNCHANGED <<files, run, clean, trouble>>

Next ==
  \/ Handler
  \/ StartRun \/ Plan \/ Replace \/ EndRun \/ Crash
  \/ Foreign \/ ArriveLate
  \/ \E p \in Ids : Import(p) \/ Settle(p)

Spec == Init /\ [][Next]_vars

----------------------------------------------------------------------------
(* Properties.                                                             *)

\* Every variable stays in its domain.
TypeOK ==
  /\ portal \in [Ids -> Products \cup {None}]
  /\ late \subseteq Requests
  /\ config \in Configs
  /\ state \in States \cup {None} /\ draft \in States \cup {None}
  /\ tainted \in BOOLEAN /\ (tainted => state # None)
  /\ phase \in {"idle", "refresh", "apply"}
  /\ op \in {"none", "read", "create", "update", "delete"}
  /\ pc \in {"done", "look", "write", "get"}
  /\ tries \in 0..(Attempts - 1)
  /\ {failed, quiet, settled, clean} \subseteq BOOLEAN
  /\ trouble \in 0..MaxTrouble

\* A generated ID, once in state, is let go only when that very product can
\* no longer be changed: not while an archive request is unconfirmed, and not
\* because a verification failed.
IdentityKept ==
  [][\A p \in Ids :
       /\ state # None /\ state.id = p
       /\ state' = None \/ state'.id # p
       => portal[p].life \in {"hidden", "archived", "purged"}]_vars

\* A product created here is never lost without an error: as long as no run
\* has failed or been killed, every active one is the one in state.
NothingLostSilently ==
  clean /\ phase = "idle" =>
    \A p \in Ids : Live(p) /\ portal[p].made = "here" =>
      state # None /\ state.id = p

\* A run that ends without an error has established every managed value and
\* the archival it was asked for, also when Update sent nothing.
SuccessIsVerified ==
  phase = "apply" /\ pc = "done" /\ quiet /\ ~failed /\ ~Replacing =>
    IF config = None THEN state = None
    ELSE /\ state # None
         /\ Presence(state.id) = "active"
         /\ MatchesPlan(portal[state.id].def, config)

\* Once a run has succeeded, and as long as nobody interferes, the next plan
\* for the same configuration is empty: the portal's spelling of a decimal is
\* no change, and an unmanaged value is none either.
SecondPlanEmpty == settled /\ phase = "apply" => op = "none"
============================================================================
