---------------------------- MODULE ProductProofs ----------------------------
(***************************************************************************)
(* Proofs about Product.tla, for any set of IDs, texts, amounts and        *)
(* definitions, any number of attempts and of troubles.                    *)
(*                                                                         *)
(* The invariant says what a handler's response holds (Places), what an    *)
(* undisturbed run has seen and reached (Observed, Achieved), what stays   *)
(* so as long as nobody interferes (Stays), and where the products that    *)
(* were created here are accounted for (Accounted).                        *)
(***************************************************************************)
EXTENDS Product, WellFoundedInduction, TLAPS

\* A request on its way names what it changes and carries what it writes.
RequestsCarry ==
  \A r \in late : /\ r.kind # "create" => r.id \in Ids
                  /\ r.kind # "delete" => r.plan \in Models

\* What is in state, or about to be, exists in the portal, dead or alive.
IdentitiesExist == /\ state # None => Exists(state.id)
                   /\ draft # None => Exists(draft.id)

\* Which handler stands where, and what its response holds.
Places ==
  /\ phase = "idle" => op = "none" /\ ~failed
  /\ op = "none" => pc = "done"
  /\ phase = "refresh" => op \in {"none", "read"}
  /\ phase = "apply" => op # "read"
  /\ pc = "look" => op = "delete"
  /\ pc = "write" => op \in {"create", "update", "delete"}
  /\ op \in {"create", "update"} => config # None
  /\ pc # "done" => (op = "create" <=> state = None)
  /\ IF op = "create" /\ pc = "get" THEN draft # None /\ draft.def = config
                                    ELSE draft = state

\* The product in state is there and as the model m asks for.
Agrees(m) == /\ state # None /\ Presence(state.id) = "active"
             /\ MatchesPlan(portal[state.id].def, m)

\* What an undisturbed refresh has seen, also when Update is about to compare.
Observed ==
  quiet /\ ~failed /\ state # None
    /\ ((phase = "refresh" /\ pc = "done") \/ (op = "update" /\ pc = "write"))
    => Agrees(state.def)

Established == IF config = None THEN state = None
               ELSE Agrees(config) /\ ~tainted /\ state.def = config

\* What an undisturbed apply has reached.
Achieved ==
  phase = "apply" /\ pc = "done" /\ quiet /\ ~failed =>
    IF op = "delete" THEN state = None ELSE Established

\* What holds from one run to the next.
Stays == settled => Established /\ (phase = "apply" => op = "none")

\* Where the products made here are, as long as no run failed.
Accounted ==
  clean /\ ~failed =>
    /\ \A r \in late : r.kind # "create"
    /\ \A p \in Ids : Live(p) /\ portal[p].made = "here" => draft # None /\ draft.id = p

IInv == /\ TypeOK /\ RequestsCarry /\ IdentitiesExist /\ Places
        /\ Observed /\ Achieved /\ Stays /\ Accounted

----------------------------------------------------------------------------
(* Values.                                                                 *)

\* An odd value, and null, are told by their amounts alone.
LEMMA AmountsTell ==
  ASSUME NEW v \in Decimals \cup {Null, Empty, Odd}
  PROVE  /\ v.amount = "odd" <=> v = Odd
         /\ v.amount = "null" <=> v = Null
         /\ Normalized(v) \in Decimals \cup {Null, Empty, Odd}
         /\ Normalized(v).amount = v.amount
BY ProductAssumption DEF Decimals, Null, Empty, Odd, Value, Normalized

LEMMA StoredIsModel == ASSUME NEW m \in Models PROVE Stored(m) \in Models
<1>1. m.price \in Decimals \cup {Odd} /\ Normalized(m.price) \in Decimals \cup {Odd}
  BY DEF Models, Decimals, Odd, Value, Normalized
<1>2. Normalized(m.cost) \in Decimals \cup {Null, Empty, Odd}
  BY AmountsTell DEF Models
<1> QED BY <1>1, <1>2 DEF Stored, Models

\* What Read makes of a supported definition agrees with it.
LEMMA ReadAgrees ==
  ASSUME NEW d \in Models, NEW m \in Models, Supported(d, m)
  PROVE  ModelFromRemote(d, m) \in Models /\ MatchesPlan(d, ModelFromRemote(d, m))
<1> DEFINE k == ModelFromRemote(d, m)
<1>1. /\ k \in Models /\ k.text = d.text
      /\ k.price = Respelled(d.price, m.price)
      /\ k.cost = IF Manages(m.cost) THEN Respelled(d.cost, m.cost) ELSE Null
  BY ProductAssumption DEF ModelFromRemote, Models, Respelled
<1>2. d.price.amount # "odd" /\ (Manages(m.cost) => d.cost.amount # "odd")
  BY AmountsTell DEF Models, Supported, Manages
<1>3. DecimalsEqual(d.price, k.price)
  BY <1>1, <1>2 DEF Respelled, DecimalsEqual
<1>4. Manages(k.cost) => DecimalsEqual(d.cost, k.cost)
  BY <1>1, <1>2 DEF Respelled, DecimalsEqual, Manages
<1> QED BY <1>1, <1>3, <1>4 DEF MatchesPlan

\* A definition that matches a model is supported, and read back as it.
LEMMA MatchingIsStable ==
  ASSUME NEW d \in Models, NEW m \in Models, MatchesPlan(d, m)
  PROVE  Supported(d, m) /\ ModelFromRemote(d, m) = m
<1>1. d.price.amount # "odd" /\ d.text = m.text /\ Respelled(d.price, m.price) = m.price
  BY DEF MatchesPlan, DecimalsEqual, Respelled
<1>2. d.price # Odd
  BY <1>1 DEF Odd, Value
<1>3. Manages(m.cost) => d.cost # Odd /\ Respelled(d.cost, m.cost) = m.cost
  BY DEF MatchesPlan, DecimalsEqual, Respelled, Odd, Value
<1>4. ~Manages(m.cost) => m.cost = Null
  BY DEF Manages
<1>5. m # None
  BY ProductAssumption
<1>6. Supported(d, m)
  BY <1>2, <1>3, <1>4, <1>5 DEF Supported
<1>7. ModelFromRemote(d, m) = m
  BY <1>1, <1>3, <1>4, <1>5 DEF ModelFromRemote, Models
<1> QED BY <1>6, <1>7

\* When nothing differs that is managed, what matched the state matches the
\* plan.
LEMMA NothingToPatch ==
  ASSUME NEW d \in Models, NEW m \in Models, NEW plan \in Models,
         MatchesPlan(d, m), Patch(m, plan) = {}
  PROVE  MatchesPlan(d, plan)
<1>1. m.text = plan.text
  <2>1. "text" \notin Patch(m, plan)
    OBVIOUS
  <2> QED BY <2>1 DEF Patch
<1>2. DecimalsEqual(m.price, plan.price)
  <2>1. "price" \notin Patch(m, plan)
    OBVIOUS
  <2> QED BY <2>1 DEF Patch
<1>3. Manages(plan.cost) => DecimalsEqual(m.cost, plan.cost)
  <2>1. "cost" \notin Patch(m, plan)
    OBVIOUS
  <2> QED BY <2>1 DEF Patch
<1>4. Manages(plan.cost) => Manages(m.cost)
  BY <1>3, AmountsTell DEF Manages, DecimalsEqual, Models
<1> QED BY <1>1, <1>2, <1>3, <1>4 DEF MatchesPlan, DecimalsEqual

----------------------------------------------------------------------------
(* The portal.                                                             *)

LEMMA NextIsNew ==
  ASSUME Room
  PROVE  NextId \in Ids /\ ~Exists(NextId)
<1> DEFINE S == {p \in Ids : ~Exists(p)}
<1>1. S \subseteq Nat /\ S # {}
  BY ProductAssumption DEF Room
<1>2. PICK x \in S : \A y \in S : ~(<<y, x>> \in OpToRel(<, Nat))
  BY <1>1, WFMin, NatLessThanWellFounded
<1>3. \A y \in S : x <= y
  <2>1. \A y \in S : ~(y < x)
    BY <1>1, <1>2 DEF OpToRel
  <2> QED BY <1>1, <2>1
<1>4. Min(S) \in S
  BY <1>3 DEF Min
<1> QED BY <1>4 DEF NextId

LEMMA PresenceTells ==
  ASSUME TypeOK, NEW p \in Ids, Exists(p)
  PROVE  /\ portal[p] \in Products
         /\ Presence(p) = "active" <=> portal[p].life \in {"active", "archiving"}
         /\ Presence(p) = "archived" <=> portal[p].life = "archived"
         /\ Presence(p) # "active" => portal[p].life \in {"hidden", "archived", "purged"}
         /\ Presence(p) # "active" => ~Live(p)
BY DEF TypeOK, Exists, Presence, Products, Lives, Live

\* A product that exists goes on existing; one that is not alive does not come
\* back; where it was made does not change.
Grows(before, after) ==
  \A p \in Ids : before[p] # None =>
    /\ after[p] # None /\ after[p].made = before[p].made
    /\ after[p].life = "active" => before[p].life = "active"

LEMMA CreateAdds ==
  ASSUME TypeOK, Room, NEW plan \in Models, NEW who \in {"here", "elsewhere"}
  PROVE  /\ NextId \in Ids /\ ~Exists(NextId)
         /\ Create(plan, who) \in [Ids -> Products \cup {None}]
         /\ \A p \in Ids \ {NextId} : Create(plan, who)[p] = portal[p]
         /\ Create(plan, who)[NextId] # None
         /\ Create(plan, who)[NextId].made = who
         /\ Grows(portal, Create(plan, who))
<1>1. NextId \in Ids /\ ~Exists(NextId)
  BY NextIsNew
<1> DEFINE new == [life |-> "active", def |-> Stored(plan), made |-> who]
<1>2. new \in Products /\ new # None
  BY StoredIsModel, ProductAssumption DEF Products, Lives
<1>3. Create(plan, who) = [portal EXCEPT ![NextId] = new]
  BY DEF Create
<1> QED BY <1>1, <1>2, <1>3 DEF TypeOK, Grows, Exists

LEMMA EffectGrows ==
  ASSUME TypeOK, NEW r, r.kind \in {"create", "update", "delete"},
         r.kind # "create" => r.id \in Ids, r.kind # "delete" => r.plan \in Models,
         Accepts(r)
  PROVE  /\ Effect(r) \in [Ids -> Products \cup {None}]
         /\ Grows(portal, Effect(r))
         /\ r.kind = "create" => Room /\ Effect(r) = Create(r.plan, "here")
         /\ r.kind # "create" => \A p \in Ids : ~Exists(p) => Effect(r)[p] = None
<1>1. CASE r.kind = "create"
  BY <1>1, CreateAdds DEF Accepts, Effect, Exists
<1>2. CASE r.kind = "delete"
  <2>1. r.id \in Ids /\ Live(r.id) /\ portal[r.id] \in Products
    BY <1>2 DEF Accepts, Live, Exists, TypeOK
  <2>2. Effect(r) = [portal EXCEPT ![r.id] = [portal[r.id] EXCEPT !.life = "archiving"]]
    BY <1>2 DEF Effect
  <2>3. [portal[r.id] EXCEPT !.life = "archiving"] \in Products
    BY <2>1 DEF Products, Lives
  <2>4. [portal[r.id] EXCEPT !.life = "archiving"] # None
    BY <2>3, ProductAssumption
  <2> QED BY <1>2, <2>1, <2>2, <2>3, <2>4 DEF TypeOK, Grows, Live, Exists, Products
<1>3. CASE r.kind = "update"
  <2>1. r.id \in Ids /\ Live(r.id) /\ portal[r.id] \in Products
    BY <1>3 DEF Accepts, Live, Exists, TypeOK
  <2> DEFINE d == [f \in DOMAIN portal[r.id].def |->
                     IF f \in r.patch THEN Stored(r.plan)[f] ELSE portal[r.id].def[f]]
             new == [portal[r.id] EXCEPT !.def = d]
  <2>2. Effect(r) = [portal EXCEPT ![r.id] = new]
    BY <1>3 DEF Effect
  <2>3. d \in Models
    <3>1. portal[r.id].def \in Models /\ Stored(r.plan) \in Models
      BY <1>3, <2>1, StoredIsModel DEF Products
    <3> QED BY <3>1 DEF Models
  <2>4. new \in Products
    BY <2>1, <2>3 DEF Products
  <2>5. new # None
    BY <2>4, ProductAssumption
  <2>6. new.life = portal[r.id].life /\ new.made = portal[r.id].made
    BY <2>1 DEF Products
  <2> HIDE DEF new
  <2> QED BY <1>3, <2>1, <2>2, <2>4, <2>5, <2>6 DEF TypeOK, Grows, Live, Exists
<1> QED BY <1>1, <1>2, <1>3

\* The request of a handler that is about to write.
LEMMA RequestIsValid ==
  ASSUME TypeOK, Places, pc = "write"
  PROVE  /\ Request \in Requests /\ Request.kind = op
         /\ op \in {"create", "update", "delete"}
         /\ op # "create" => Request.id \in Ids /\ Request.id = state.id
         /\ op # "delete" => Request.plan \in Models /\ Request.plan = config
<1>1. op \in {"create", "update", "delete"} /\ (op # "create" => state \in States)
  BY DEF Places, TypeOK
<1>2. config \in Models \cup {None} /\ (op # "delete" => config \in Models)
  BY <1>1, ProductAssumption DEF Places, TypeOK
<1>3. (IF op = "update" THEN Patch(state.def, config) ELSE {}) \in SUBSET {"text", "price", "cost"}
  BY DEF Patch
<1>4. Request.kind = op /\ Request.plan = config /\ (op # "create" => Request.id = state.id)
  BY DEF Request
<1>5. op # "create" => state.id \in Ids
  BY <1>1 DEF States
<1>6. Request \in Requests
  BY <1>1, <1>2, <1>3, <1>5 DEF Request, Requests
<1> QED BY <1>1, <1>2, <1>4, <1>5, <1>6

----------------------------------------------------------------------------
(* How a handler ends.                                                     *)

\* What agrees with a model goes on doing so while neither it nor the model
\* changes.
LEMMA AgreesWhileUnchanged ==
  ASSUME UNCHANGED config
  PROVE  /\ Agrees(config)' <=>
              /\ state' # None
              /\ portal'[state'.id].life \in {"active", "archiving"}
              /\ MatchesPlan(portal'[state'.id].def, config)
         /\ Agrees(state.def)' <=>
              /\ state' # None
              /\ portal'[state'.id].life \in {"active", "archiving"}
              /\ MatchesPlan(portal'[state'.id].def, state'.def)
         /\ \A m : Agrees(m) <=>
              /\ state # None
              /\ portal[state.id].life \in {"active", "archiving"}
              /\ MatchesPlan(portal[state.id].def, m)
<1>1. \A m : Agrees(m) <=>
        /\ state # None
        /\ portal[state.id].life \in {"active", "archiving"}
        /\ MatchesPlan(portal[state.id].def, m)
  BY DEF Agrees, Presence
<1>2. (Presence(state.id) = "active")' <=> portal'[state'.id].life \in {"active", "archiving"}
  BY DEF Presence
<1>3. MatchesPlan(portal[state.id].def, config)' <=> MatchesPlan(portal'[state'.id].def, config)
  BY DEF MatchesPlan, DecimalsEqual, Manages, Null, Value
<1>4. MatchesPlan(portal[state.id].def, state.def)'
        <=> MatchesPlan(portal'[state'.id].def, state'.def)
  BY DEF MatchesPlan, DecimalsEqual, Manages, Null, Value
<1> QED BY <1>1, <1>2, <1>3, <1>4 DEF Agrees

\* An error, also of a create whose request was carried out.
LEMMA FailStep ==
  ASSUME IInv, Fail, pc # "done", UNCHANGED <<config, phase, op, quiet, settled, clean>>,
         portal' \in [Ids -> Products \cup {None}], late' \subseteq Requests, RequestsCarry',
         Grows(portal, portal'), portal' = portal \/ op = "create",
         tries' \in 0..(Attempts - 1), trouble' \in 0..MaxTrouble
  PROVE  IInv'
<1>1. /\ failed' = TRUE /\ state' = draft /\ draft' = draft /\ pc' = "done"
      /\ tainted' = (tainted \/ (op = "create" /\ draft # None))
  BY DEF Fail, Goto
<1>2. /\ op = "create" <=> state = None
      /\ op # "create" => draft = state
  BY DEF IInv, Places
<1>3. tainted' \in BOOLEAN /\ (tainted' => state' # None)
  BY <1>1, <1>2 DEF IInv, TypeOK
<1>4. TypeOK'
  BY <1>1, <1>3 DEF IInv, TypeOK
<1>5. Places' /\ Observed' /\ Achieved' /\ Accounted'
  BY <1>1 DEF IInv, Places, Observed, Achieved, Accounted
<1>6. IdentitiesExist'
  BY <1>1 DEF IInv, IdentitiesExist, TypeOK, Grows, Exists, States
<1>7. Stays'
  <2> SUFFICES ASSUME settled' PROVE Established' /\ phase' # "apply"
    BY DEF Stays
  <2>1. phase # "apply" /\ op # "create"
    BY DEF IInv, Stays, Places, TypeOK
  <2>2. portal' = portal /\ state' = state /\ tainted' = tainted
    BY <1>1, <1>2, <2>1 DEF IInv, TypeOK
  <2> QED BY <2>1, <2>2, AgreesWhileUnchanged DEF IInv, Stays, Established
<1> QED BY <1>4, <1>5, <1>6, <1>7 DEF IInv

\* A success: what it records is there and as wanted, and what it lets go of
\* is not alive.
LEMMA SucceedStep ==
  ASSUME IInv, pc # "done", NEW d \in States \cup {None}, Succeed(d),
         UNCHANGED <<portal, late, config, phase, op, quiet, settled, clean, trouble, tries>>,
         d # None => Exists(d.id) /\ draft # None /\ d.id = draft.id,
         d = None => draft # None /\ ~Live(draft.id),
         phase = "refresh" /\ d # None =>
           /\ portal[d.id].life \in {"active", "archiving"}
           /\ MatchesPlan(portal[d.id].def, d.def),
         phase = "apply" /\ op = "delete" => d = None,
         phase = "apply" /\ op # "delete" /\ quiet /\ ~failed =>
           /\ d # None /\ d.def = config
           /\ portal[d.id].life \in {"active", "archiving"}
           /\ MatchesPlan(portal[d.id].def, config),
         settled => d = state
  PROVE  IInv'
<1>1. state' = d /\ draft' = d /\ tainted' = FALSE /\ pc' = "done" /\ failed' = failed
  BY DEF Succeed, Goto
<1>2. TypeOK' /\ RequestsCarry' /\ Places'
  BY <1>1 DEF IInv, TypeOK, RequestsCarry, Places
<1>3. IdentitiesExist'
  BY <1>1 DEF IdentitiesExist, Exists
<1>4. op \in {"create", "update"} => config # None
  BY DEF IInv, Places
<1>5. Observed'
  BY <1>1, AgreesWhileUnchanged DEF Observed, IInv, Places
<1>6. Achieved'
  <2>1. phase = "apply" => op \in {"create", "update", "delete"}
    BY DEF IInv, Places, TypeOK
  <2> QED BY <1>1, <1>4, <2>1, AgreesWhileUnchanged DEF Achieved, Established
<1>7. Stays'
  <2> SUFFICES ASSUME settled' PROVE Established' /\ phase' # "apply"
    BY DEF Stays
  <2>1. phase # "apply" /\ state' = state
    BY <1>1 DEF IInv, Stays, Places
  <2> QED BY <1>1, <2>1, AgreesWhileUnchanged DEF IInv, Stays, Established
<1>8. Accounted'
  BY <1>1 DEF IInv, Accounted, Live, Exists
<1> QED BY <1>2, <1>3, <1>5, <1>6, <1>7, <1>8 DEF IInv

----------------------------------------------------------------------------
(* The handlers.                                                           *)

\* What is known while a handler runs.
LEMMA Running ==
  ASSUME IInv, pc # "done"
  PROVE  /\ op # "none" /\ phase \in {"refresh", "apply"}
         /\ op = "read" <=> phase = "refresh"
         /\ phase = "apply" => ~settled
         /\ op # "create" =>
              /\ state \in States /\ draft = state /\ state.id \in Ids /\ state.def \in Models
              /\ Exists(state.id) /\ portal[state.id] \in Products
              /\ portal[state.id].def \in Models
         /\ op \in {"create", "update"} => config # None /\ config \in Models
<1>1. op # "none" /\ phase \in {"refresh", "apply"}
  BY DEF IInv, Places, TypeOK
<1>2. op = "read" <=> phase = "refresh"
  BY <1>1 DEF IInv, Places
<1>3. phase = "apply" => ~settled
  BY <1>1 DEF IInv, Stays
<1>4. op # "create" => state \in States /\ draft = state /\ Exists(state.id)
  BY DEF IInv, Places, TypeOK, IdentitiesExist
<1>5. op # "create" => state.id \in Ids /\ state.def \in Models
  BY <1>4 DEF States
<1>6. op # "create" => portal[state.id] \in Products
  BY <1>4, <1>5 DEF IInv, TypeOK, Exists
<1>7. op # "create" => portal[state.id].def \in Models
  BY <1>6 DEF Products
<1>8. op \in {"create", "update"} => config # None /\ config \in Models
  BY ProductAssumption DEF IInv, Places, TypeOK
<1> QED BY <1>1, <1>2, <1>3, <1>4, <1>5, <1>6, <1>7, <1>8

LEMMA GrowsReflexive == UNCHANGED portal => Grows(portal, portal')
BY DEF Grows

LEMMA ReadStep == ASSUME IInv, Read PROVE IInv'
<1>1. /\ op = "read" /\ pc = "get" /\ pc' = "done"
      /\ UNCHANGED <<portal, late, config, phase, op, tries, quiet, settled, clean, trouble>>
  BY DEF Read, Goto, history
<1>2. /\ phase = "refresh" /\ state \in States /\ draft = state /\ state.id \in Ids
      /\ state.def \in Models /\ Exists(state.id) /\ portal[state.id].def \in Models
      /\ state # None
  BY <1>1, Running, ProductAssumption
<1> DEFINE def == portal[state.id].def
           new == [state EXCEPT !.def = ModelFromRemote(def, @)]
<1>3. CASE /\ Presence(state.id) = "active" /\ Supported(def, state.def)
           /\ state' = new /\ draft' = state' /\ UNCHANGED <<tainted, failed>>
  <2>1. ModelFromRemote(def, state.def) \in Models
        /\ MatchesPlan(def, ModelFromRemote(def, state.def))
    BY <1>2, <1>3, ReadAgrees
  <2>2. /\ state' \in States /\ state' # None /\ state'.id = state.id
        /\ state'.def = ModelFromRemote(def, state.def)
    BY <1>2, <1>3, <2>1, ProductAssumption DEF States
  <2>3. TypeOK' /\ RequestsCarry' /\ IdentitiesExist' /\ Places' /\ Accounted'
    BY <1>1, <1>2, <1>3, <2>2 DEF IInv, TypeOK, RequestsCarry, IdentitiesExist, Places, Accounted,
       Exists, Live
  <2>4. portal'[state'.id].life \in {"active", "archiving"}
    BY <1>1, <1>2, <1>3, <2>2, PresenceTells DEF IInv
  <2>5. Observed'
    BY <1>1, <2>1, <2>2, <2>4, AgreesWhileUnchanged DEF Observed
  <2>6. Achieved'
    BY <1>1, <1>2 DEF Achieved
  <2>7. ASSUME settled' PROVE Established' /\ phase' # "apply"
    <3>1. settled /\ config # None /\ MatchesPlan(def, state.def) /\ state.def = config /\ ~tainted
      BY <1>1, <1>2, <2>7 DEF IInv, Stays, Established, Agrees, TypeOK, IdentitiesExist
    <3>2. ModelFromRemote(def, state.def) = state.def
      BY <1>2, <3>1, MatchingIsStable
    <3> QED BY <1>1, <1>2, <1>3, <2>1, <2>2, <2>4, <3>1, <3>2, AgreesWhileUnchanged DEF Established
  <2> QED BY <2>3, <2>5, <2>6, <2>7 DEF IInv, Stays
<1>4. CASE /\ Presence(state.id) = "active" /\ ~Supported(def, state.def)
           /\ failed' = TRUE /\ UNCHANGED <<state, tainted, draft>>
  BY <1>1, <1>2, <1>4, FailStep, GrowsReflexive DEF Fail, Goto, IInv, TypeOK, RequestsCarry
<1>5. CASE /\ Presence(state.id) # "active"
           /\ state' = None /\ draft' = None /\ tainted' = FALSE /\ UNCHANGED failed
  <2>1. ~Live(state.id)
    BY <1>2, <1>5, PresenceTells DEF IInv
  <2>2. ~settled
    <3> SUFFICES ASSUME settled PROVE FALSE
      OBVIOUS
    <3> QED BY <1>2, <1>5 DEF IInv, Stays, Established, Agrees
  <2>3. Succeed(None)
    BY <1>1, <1>5 DEF Succeed, Goto
  <2> QED BY <1>1, <1>2, <2>1, <2>2, <2>3, SucceedStep
<1> QED BY <1>3, <1>4, <1>5 DEF Read

LEMMA CreateAnsweredStep == ASSUME IInv, CreateAnswered PROVE IInv'
<1>1. /\ op = "create" /\ pc = "write"
      /\ UNCHANGED <<late, config, phase, op, tries, quiet, settled, clean, trouble>>
  BY DEF CreateAnswered, history
<1>2. /\ phase = "apply" /\ ~settled /\ state = None /\ draft = None /\ config # None
      /\ config \in Models
  BY <1>1, Running DEF IInv, Places
<1>3. CASE Accepts(Request) /\ portal' = Effect(Request) /\ Goto("get")
           /\ draft' = [id |-> NextId, def |-> config] /\ UNCHANGED <<state, tainted, failed>>
  <2>1. Room /\ portal' = Create(config, "here")
    BY <1>1, <1>3 DEF Accepts, Effect, Request
  <2>2. /\ NextId \in Ids /\ portal' \in [Ids -> Products \cup {None}]
        /\ \A p \in Ids \ {NextId} : portal'[p] = portal[p]
        /\ portal'[NextId] # None
    BY <1>2, <2>1, CreateAdds DEF IInv
  <2>3. draft' \in States /\ draft' # None /\ draft'.id = NextId /\ draft'.def = config
    BY <1>2, <1>3, <2>2, ProductAssumption DEF States
  <2>4. pc' = "get"
    BY <1>3 DEF Goto
  <2>5. TypeOK' /\ RequestsCarry' /\ Places'
    BY <1>1, <1>2, <1>3, <2>2, <2>3, <2>4 DEF IInv, TypeOK, RequestsCarry, Places
  <2>6. IdentitiesExist' /\ Observed' /\ Achieved' /\ Stays'
    BY <1>1, <1>2, <1>3, <2>2, <2>3, <2>4 DEF IdentitiesExist, Exists, Observed, Achieved, Stays
  <2>7. Accounted'
    BY <1>1, <1>2, <1>3, <2>2, <2>3 DEF IInv, Accounted, Live, Exists
  <2> QED BY <2>5, <2>6, <2>7 DEF IInv
<1>4. CASE Fail /\ UNCHANGED portal
  BY <1>1, <1>4, FailStep, GrowsReflexive DEF IInv, TypeOK, RequestsCarry
<1> QED BY <1>3, <1>4 DEF CreateAnswered

LEMMA TroubleIsBounded == ASSUME IInv, Disturb PROVE trouble' \in 0..MaxTrouble
BY ProductAssumption DEF IInv, TypeOK, Disturb

LEMMA CreateUnknownStep == ASSUME IInv, CreateUnknown PROVE IInv'
<1>1. /\ op = "create" /\ pc = "write" /\ Fail
      /\ UNCHANGED <<config, phase, op, tries, quiet, settled, clean>>
  BY DEF CreateUnknown
<1>2. trouble' \in 0..MaxTrouble
  BY TroubleIsBounded DEF CreateUnknown
<1>3. /\ Request \in Requests /\ Request.kind = "create"
      /\ Request.plan \in Models
  BY <1>1, RequestIsValid DEF IInv
<1>4. portal' \in [Ids -> Products \cup {None}] /\ Grows(portal, portal')
  <2>1. CASE Accepts(Request) /\ portal' = Effect(Request)
    BY <1>3, <2>1, EffectGrows DEF IInv
  <2>2. CASE UNCHANGED portal
    BY <2>2, GrowsReflexive DEF IInv, TypeOK
  <2> QED BY <2>1, <2>2 DEF CreateUnknown
<1>5. late' \subseteq late \cup {Request}
  BY DEF CreateUnknown
<1>6. late' \subseteq Requests /\ RequestsCarry'
  BY <1>3, <1>5 DEF IInv, TypeOK, RequestsCarry
<1> QED BY <1>1, <1>2, <1>4, <1>6, FailStep DEF IInv, TypeOK

LEMMA VerifyCreateStep == ASSUME IInv, VerifyCreate PROVE IInv'
<1>1. /\ op = "create" /\ pc = "get"
      /\ UNCHANGED <<portal, late, config, phase, op, tries, quiet, settled, clean, trouble>>
  BY DEF VerifyCreate, history
<1>2. /\ phase = "apply" /\ ~settled /\ draft \in States /\ draft # None /\ draft.def = config
      /\ Exists(draft.id) /\ draft.id \in Ids /\ config \in Models
  BY <1>1, Running DEF IInv, Places, TypeOK, IdentitiesExist, States
<1>3. CASE Presence(draft.id) = "active" /\ MatchesPlan(portal[draft.id].def, config)
           /\ Succeed(draft)
  <2>1. portal[draft.id].life \in {"active", "archiving"}
    BY <1>2, <1>3, PresenceTells DEF IInv
  <2> QED BY <1>1, <1>2, <1>3, <2>1, SucceedStep
<1>4. CASE Fail
  BY <1>1, <1>4, FailStep, GrowsReflexive DEF IInv, TypeOK, RequestsCarry
<1> QED BY <1>3, <1>4 DEF VerifyCreate

\* An update that ends well, whether it wrote or had nothing to write.
LEMMA UpdateEndsStep ==
  ASSUME IInv, op = "update", pc # "done", Succeed([state EXCEPT !.def = config]),
         UNCHANGED <<portal, late, config, phase, op, quiet, settled, clean, trouble, tries>>,
         quiet /\ ~failed => /\ portal[state.id].life \in {"active", "archiving"}
                             /\ MatchesPlan(portal[state.id].def, config)
  PROVE  IInv'
<1>1. /\ phase = "apply" /\ ~settled /\ state \in States /\ draft = state /\ Exists(state.id)
      /\ config \in Models
  BY Running
<1> DEFINE new == [state EXCEPT !.def = config]
<1>2. new \in States /\ new # None /\ new.id = state.id /\ new.def = config /\ draft # None
  BY <1>1, ProductAssumption DEF States
<1>3. Succeed(new)
  OBVIOUS
<1> HIDE DEF new
<1> QED BY <1>1, <1>2, <1>3, SucceedStep

LEMMA UpdateNothingStep == ASSUME IInv, UpdateNothing PROVE IInv'
<1>1. /\ op = "update" /\ pc = "write" /\ Patch(state.def, config) = {}
      /\ Succeed([state EXCEPT !.def = config])
      /\ UNCHANGED <<portal, late, config, phase, op, tries, quiet, settled, clean, trouble>>
  BY DEF UpdateNothing, history
<1>2. /\ state \in States /\ state.def \in Models /\ Exists(state.id) /\ config \in Models
      /\ portal[state.id].def \in Models /\ state # None
  BY <1>1, Running, ProductAssumption
<1>3. ASSUME quiet, ~failed
      PROVE  /\ portal[state.id].life \in {"active", "archiving"}
             /\ MatchesPlan(portal[state.id].def, config)
  <2>1. Agrees(state.def)
    BY <1>1, <1>2, <1>3 DEF IInv, Observed
  <2>2. MatchesPlan(portal[state.id].def, config)
    BY <1>1, <1>2, <2>1, NothingToPatch DEF Agrees
  <2> QED BY <2>1, <2>2 DEF Agrees, Presence
<1> QED BY <1>1, <1>3, UpdateEndsStep

LEMMA WriteStep == ASSUME IInv, Write PROVE IInv'
<1>1. /\ op \in {"update", "delete"} /\ pc = "write" /\ pc' = "get"
      /\ UNCHANGED <<config, state, tainted, draft, phase, op, tries, failed, quiet, settled, clean>>
  BY DEF Write, Goto, files
<1>2. /\ Request \in Requests /\ Request.kind = op /\ Request.id \in Ids
      /\ (op # "delete" => Request.plan \in Models)
  BY <1>1, RequestIsValid DEF IInv
<1>3. phase = "apply" /\ ~settled
  BY <1>1, Running
<1>4. /\ portal' \in [Ids -> Products \cup {None}] /\ Grows(portal, portal')
      /\ \A p \in Ids : ~Exists(p) => portal'[p] = None
  <2>1. CASE Accepts(Request) /\ portal' = Effect(Request)
    BY <1>1, <1>2, <2>1, EffectGrows DEF IInv
  <2>2. CASE UNCHANGED portal
    BY <2>2, GrowsReflexive DEF IInv, TypeOK, Exists
  <2> QED BY <2>1, <2>2 DEF Write
<1>5. late' \subseteq late \cup {Request} /\ trouble' \in 0..MaxTrouble
  BY TroubleIsBounded DEF Write, IInv, TypeOK
<1>6. TypeOK' /\ RequestsCarry' /\ Places'
  BY <1>1, <1>2, <1>4, <1>5 DEF IInv, TypeOK, RequestsCarry, Places
<1>7. IdentitiesExist'
  BY <1>1, <1>4 DEF IInv, IdentitiesExist, TypeOK, Grows, Exists, States
<1>8. Observed' /\ Achieved' /\ Stays'
  BY <1>1, <1>3 DEF Observed, Achieved, Stays
<1>9. Accounted'
  BY <1>1, <1>2, <1>4, <1>5 DEF IInv, TypeOK, Accounted, Grows, Live, Exists
<1> QED BY <1>6, <1>7, <1>8, <1>9 DEF IInv

LEMMA VerifyUpdateStep == ASSUME IInv, VerifyUpdate PROVE IInv'
<1>1. /\ op = "update" /\ pc = "get"
      /\ UNCHANGED <<portal, late, config, phase, op, tries, quiet, settled, clean, trouble>>
  BY DEF VerifyUpdate, history
<1>2. CASE Presence(state.id) = "active" /\ MatchesPlan(portal[state.id].def, config)
           /\ Succeed([state EXCEPT !.def = config])
  BY <1>1, <1>2, UpdateEndsStep DEF Presence
<1>3. CASE Fail
  BY <1>1, <1>3, FailStep, GrowsReflexive DEF IInv, TypeOK, RequestsCarry
<1> QED BY <1>2, <1>3 DEF VerifyUpdate

\* Delete, when the product is gone.
LEMMA DeleteEndsStep ==
  ASSUME IInv, op = "delete", pc # "done", Succeed(None), Presence(state.id) # "active",
         UNCHANGED <<portal, late, config, phase, op, tries, quiet, settled, clean, trouble>>
  PROVE  IInv'
<1>1. /\ phase = "apply" /\ ~settled /\ state \in States /\ draft = state /\ state # None
      /\ Exists(state.id) /\ state.id \in Ids
  BY Running, ProductAssumption
<1>2. ~Live(draft.id)
  BY <1>1, PresenceTells DEF IInv
<1> QED BY <1>1, <1>2, SucceedStep

LEMMA PreflightStep == ASSUME IInv, Preflight PROVE IInv'
<1>1. /\ op = "delete" /\ pc = "look"
      /\ UNCHANGED <<portal, late, config, phase, op, tries, quiet, settled, clean, trouble>>
  BY DEF Preflight, history
<1>2. CASE Goto("write") /\ UNCHANGED <<state, tainted, draft, failed>>
  <2>1. pc' = "write" /\ phase = "apply" /\ ~settled
    BY <1>1, <1>2, Running DEF Goto
  <2>2. TypeOK' /\ RequestsCarry' /\ IdentitiesExist' /\ Places'
    BY <1>1, <1>2, <2>1 DEF IInv, TypeOK, RequestsCarry, IdentitiesExist, Places, Exists
  <2>3. Observed' /\ Achieved' /\ Stays' /\ Accounted'
    BY <1>1, <1>2, <2>1 DEF IInv, Observed, Achieved, Stays, Accounted, Live, Exists
  <2> QED BY <2>2, <2>3 DEF IInv
<1>3. CASE Presence(state.id) # "active" /\ Succeed(None)
  BY <1>1, <1>3, DeleteEndsStep
<1> QED BY <1>2, <1>3 DEF Preflight

LEMMA AwaitTerminalStep == ASSUME IInv, AwaitTerminal PROVE IInv'
<1>1. /\ op = "delete" /\ pc = "get"
      /\ UNCHANGED <<portal, late, config, phase, op, quiet, settled, clean, trouble>>
  BY DEF AwaitTerminal, history
<1>2. CASE Presence(state.id) = "archived" /\ Succeed(None) /\ UNCHANGED tries
  BY <1>1, <1>2, DeleteEndsStep
<1>3. CASE Fail /\ UNCHANGED tries
  BY <1>1, <1>3, FailStep, GrowsReflexive DEF IInv, TypeOK, RequestsCarry
<1>4. CASE tries + 1 < Attempts /\ tries' = tries + 1
           /\ UNCHANGED <<state, tainted, draft, pc, failed>>
  <2>1. tries' \in 0..(Attempts - 1)
    BY <1>4, ProductAssumption DEF IInv, TypeOK
  <2>2. TypeOK' /\ RequestsCarry' /\ IdentitiesExist' /\ Places'
    BY <1>1, <1>4, <2>1 DEF IInv, TypeOK, RequestsCarry, IdentitiesExist, Places, Exists
  <2>3. phase = "apply" /\ ~settled
    BY <1>1, Running
  <2>4. Observed' /\ Achieved' /\ Stays' /\ Accounted'
    BY <1>1, <1>4, <2>3 DEF IInv, Observed, Achieved, Stays, Accounted, Live, Exists
  <2> QED BY <2>2, <2>4 DEF IInv
<1> QED BY <1>2, <1>3, <1>4 DEF AwaitTerminal

LEMMA ReadFailsStep == ASSUME IInv, ReadFails PROVE IInv'
<1>1. /\ pc # "done" /\ Fail
      /\ UNCHANGED <<portal, late, config, phase, op, tries, quiet, settled, clean>>
  BY DEF ReadFails
<1>2. trouble' \in 0..MaxTrouble
  BY TroubleIsBounded DEF ReadFails
<1> QED BY <1>1, <1>2, FailStep, GrowsReflexive DEF IInv, TypeOK, RequestsCarry

LEMMA HandlerStep == ASSUME IInv, Handler PROVE IInv'
BY ReadStep, CreateAnsweredStep, CreateUnknownStep, VerifyCreateStep, UpdateNothingStep, WriteStep,
   VerifyUpdateStep, PreflightStep, AwaitTerminalStep, ReadFailsStep DEF Handler

----------------------------------------------------------------------------
(* Terraform.                                                              *)

LEMMA StartRunStep == ASSUME IInv, StartRun PROVE IInv'
<1>1. /\ phase = "idle" /\ phase' = "refresh" /\ config' \in Configs
      /\ op' = (IF state = None THEN "none" ELSE "read")
      /\ pc' = (IF state = None THEN "done" ELSE "get")
      /\ draft' = state /\ tries' = 0
      /\ quiet' = TRUE /\ settled' = (settled /\ config' = config)
      /\ UNCHANGED <<portal, late, state, tainted, failed, clean, trouble>>
  BY DEF StartRun, Begin
<1>2. draft = state
  BY <1>1 DEF IInv, Places
<1>3. settled' \in BOOLEAN /\ tries' \in 0..(Attempts - 1)
  BY <1>1, ProductAssumption
<1>4. TypeOK' /\ RequestsCarry' /\ IdentitiesExist'
  BY <1>1, <1>3 DEF IInv, TypeOK, RequestsCarry, IdentitiesExist, Exists
<1>5. Places'
  BY <1>1, <1>2 DEF IInv, Places
<1>6. Observed' /\ Achieved' /\ Accounted'
  BY <1>1, <1>2 DEF IInv, Observed, Achieved, Accounted, Live, Exists
<1>7. Stays'
  BY <1>1, AgreesWhileUnchanged DEF IInv, Stays, Established
<1> QED BY <1>4, <1>5, <1>6, <1>7 DEF IInv

LEMMA PlanStep == ASSUME IInv, Plan PROVE IInv'
<1>1. /\ phase = "refresh" /\ pc = "done" /\ ~failed /\ phase' = "apply"
      /\ draft' = state /\ tries' = 0
      /\ UNCHANGED <<portal, late, config, state, tainted, failed, quiet, settled, clean, trouble>>
  BY DEF Plan, Begin, files, history
<1>2. draft = state
  BY <1>1 DEF IInv, Places
<1>3. \/ state # None /\ op' = "delete" /\ pc' = "look" /\ (config = None \/ tainted)
      \/ state = None /\ config # None /\ op' = "create" /\ pc' = "write"
      \/ /\ state # None /\ config # None /\ ~tainted /\ state.def # config
         /\ op' = "update" /\ pc' = "write"
      \/ /\ op' = "none" /\ pc' = "done"
         /\ \/ state = None /\ config = None
            \/ state # None /\ ~tainted /\ state.def = config
  BY DEF Plan, Begin
<1>4. tries' \in 0..(Attempts - 1)
  BY <1>1, ProductAssumption
<1>5. TypeOK' /\ RequestsCarry' /\ IdentitiesExist'
  BY <1>1, <1>3, <1>4 DEF IInv, TypeOK, RequestsCarry, IdentitiesExist, Exists
<1>6. Places'
  BY <1>1, <1>3 DEF Places
<1>7. Accounted'
  BY <1>1, <1>2 DEF IInv, Accounted, Live, Exists
<1>8. state # None => state.def # None
  BY ProductAssumption DEF IInv, TypeOK, States
<1>9. quiet /\ state # None => Agrees(state.def)
  BY <1>1 DEF IInv, Observed
<1>10. Observed'
  BY <1>1, <1>9, AgreesWhileUnchanged DEF Observed
<1>11. Achieved'
  BY <1>1, <1>3, <1>8, <1>9, AgreesWhileUnchanged DEF Achieved, Established
<1>12. Stays'
  BY <1>1, <1>3, AgreesWhileUnchanged DEF IInv, Stays, Established, Agrees
<1> QED BY <1>5, <1>6, <1>7, <1>10, <1>11, <1>12 DEF IInv

LEMMA ReplaceStep == ASSUME IInv, Replace PROVE IInv'
<1>1. /\ phase = "apply" /\ op = "delete" /\ pc = "done" /\ state = None /\ config # None
      /\ op' = "create" /\ pc' = "write" /\ draft' = state /\ tries' = 0
      /\ UNCHANGED <<portal, late, config, state, tainted, phase, failed, quiet, settled, clean,
                     trouble>>
  BY DEF Replace, Replacing, Begin, files, history
<1>2. draft = state
  BY <1>1 DEF IInv, Places
<1>3. tries' \in 0..(Attempts - 1)
  BY <1>1, ProductAssumption
<1>4. TypeOK' /\ RequestsCarry' /\ IdentitiesExist'
  BY <1>1, <1>3 DEF IInv, TypeOK, RequestsCarry, IdentitiesExist, Exists
<1>5. Places' /\ Observed' /\ Achieved'
  BY <1>1 DEF IInv, Places, Observed, Achieved
<1>6. Stays'
  BY <1>1 DEF IInv, Stays
<1>7. Accounted'
  BY <1>1, <1>2 DEF IInv, Accounted, Live, Exists
<1> QED BY <1>4, <1>5, <1>6, <1>7 DEF IInv

LEMMA EndRunStep == ASSUME IInv, EndRun PROVE IInv'
<1>1. /\ pc = "done" /\ ((phase = "refresh" /\ failed) \/ (phase = "apply" /\ ~Replacing))
      /\ phase' = "idle" /\ op' = "none" /\ pc' = "done" /\ draft' = state /\ tries' = 0
      /\ failed' = FALSE /\ quiet' = TRUE
      /\ settled' = (~failed /\ quiet) /\ clean' = (clean /\ ~failed)
      /\ UNCHANGED <<portal, late, config, state, tainted, trouble>>
  BY DEF EndRun, Begin, files
<1>2. draft = state
  BY <1>1 DEF IInv, Places
<1>3. tries' \in 0..(Attempts - 1) /\ settled' \in BOOLEAN /\ clean' \in BOOLEAN
  BY <1>1, ProductAssumption
<1>4. TypeOK' /\ RequestsCarry' /\ IdentitiesExist'
  BY <1>1, <1>3 DEF IInv, TypeOK, RequestsCarry, IdentitiesExist, Exists
<1>5. Places' /\ Observed' /\ Achieved'
  BY <1>1 DEF IInv, Places, Observed, Achieved
<1>6. Stays'
  <2>1. settled' => Established
    BY <1>1 DEF IInv, Achieved, Replacing, Established
  <2> QED BY <1>1, <2>1, AgreesWhileUnchanged DEF Stays, Established
<1>7. Accounted'
  BY <1>1, <1>2 DEF IInv, Accounted, Live, Exists
<1> QED BY <1>4, <1>5, <1>6, <1>7 DEF IInv

LEMMA CrashStep == ASSUME IInv, Crash PROVE IInv'
<1>1. /\ phase' = "idle" /\ op' = "none" /\ pc' = "done" /\ draft' = state /\ tries' = 0
      /\ failed' = FALSE /\ quiet' = TRUE /\ settled' = FALSE /\ clean' = FALSE
      /\ UNCHANGED <<portal, config, state, tainted>>
  BY DEF Crash, Begin, files
<1>2. trouble' \in 0..MaxTrouble /\ tries' \in 0..(Attempts - 1)
  BY <1>1, TroubleIsBounded, ProductAssumption DEF Crash
<1>3. late' = late \/ (pc = "write" /\ late' = late \cup {Request})
  BY DEF Crash
<1>4. late' \subseteq Requests /\ RequestsCarry'
  <2>1. pc = "write" => /\ Request \in Requests
                        /\ Request.kind # "create" => Request.id \in Ids
                        /\ Request.kind # "delete" => Request.plan \in Models
    BY RequestIsValid DEF IInv
  <2> QED BY <1>3, <2>1 DEF IInv, TypeOK, RequestsCarry
<1>5. TypeOK' /\ IdentitiesExist'
  BY <1>1, <1>2, <1>4 DEF IInv, TypeOK, IdentitiesExist, Exists
<1>6. Places' /\ Observed' /\ Achieved' /\ Stays' /\ Accounted'
  BY <1>1 DEF IInv, Places, Observed, Achieved, Stays, Accounted
<1> QED BY <1>4, <1>5, <1>6 DEF IInv

LEMMA ImportStep == ASSUME IInv, NEW p \in Ids, Import(p) PROVE IInv'
<1>1. /\ phase = "idle" /\ state = None /\ Exists(p) /\ Supported(portal[p].def, None)
      /\ state' = [id |-> p, def |-> ModelFromRemote(portal[p].def, None)]
      /\ draft' = state' /\ settled' = FALSE
      /\ UNCHANGED <<portal, late, config, tainted, phase, op, pc, tries, failed, quiet, clean,
                     trouble>>
  BY DEF Import
<1>2. op = "none" /\ pc = "done" /\ draft = None
  BY <1>1 DEF IInv, Places
<1>3. ModelFromRemote(portal[p].def, None) \in Models
  <2>1. portal[p].def \in Models
    BY <1>1 DEF IInv, TypeOK, Exists, Products
  <2> QED BY <2>1 DEF ModelFromRemote, Models
<1>4. state' \in States /\ state' # None /\ state'.id = p
  BY <1>1, <1>3, ProductAssumption DEF States
<1>5. TypeOK' /\ RequestsCarry' /\ IdentitiesExist' /\ Places'
  BY <1>1, <1>2, <1>4 DEF IInv, TypeOK, RequestsCarry, IdentitiesExist, Places, Exists
<1>6. Observed' /\ Achieved' /\ Stays' /\ Accounted'
  BY <1>1, <1>2 DEF IInv, Observed, Achieved, Stays, Accounted, Live, Exists
<1> QED BY <1>5, <1>6 DEF IInv

----------------------------------------------------------------------------
(* Everybody else.                                                         *)

LEMMA ForeignStep == ASSUME IInv, Foreign PROVE IInv'
<1>1. /\ quiet' = FALSE /\ settled' = FALSE
      /\ UNCHANGED <<late, config, state, tainted, phase, op, pc, tries, draft, failed, clean>>
  BY DEF Foreign, files, run
<1>2. trouble' \in 0..MaxTrouble
  BY TroubleIsBounded DEF Foreign
<1> DEFINE Fine == /\ portal' \in [Ids -> Products \cup {None}] /\ Grows(portal, portal')
                   /\ \A p \in Ids : ~Exists(p) /\ portal'[p] # None
                                       => portal'[p].made = "elsewhere"
<1>3. Fine
  <2>1. ASSUME Room, NEW d \in Edits, portal' = Create(d, "elsewhere")
        PROVE  Fine
    BY <2>1, CreateAdds, ProductAssumption DEF IInv, Exists
  <2>2. ASSUME NEW p \in Ids, Live(p), NEW new \in Products, portal' = [portal EXCEPT ![p] = new],
               new.made = portal[p].made
        PROVE  Fine
    BY <2>2, ProductAssumption DEF IInv, TypeOK, Grows, Live, Exists
  <2>3. ASSUME NEW p \in Ids, Live(p)
        PROVE  /\ \A d \in Edits : /\ [portal[p] EXCEPT !.def = Stored(d)] \in Products
                                   /\ [portal[p] EXCEPT !.def = Stored(d)].made = portal[p].made
               /\ \A l \in {"archived", "purged"} :
                    /\ [portal[p] EXCEPT !.life = l] \in Products
                    /\ [portal[p] EXCEPT !.life = l].made = portal[p].made
    <3>1. portal[p] \in Products
      BY <2>3 DEF IInv, TypeOK, Live, Exists
    <3> QED BY <3>1, StoredIsModel, ProductAssumption DEF Products, Lives
  <2>4. CASE \E p \in Ids : Live(p) /\ \E d \in Edits : portal' = [portal EXCEPT ![p].def = Stored(d)]
    BY <2>2, <2>3, <2>4
  <2>5. CASE \E p \in Ids : Live(p) /\ \E l \in {"archived", "purged"} :
                                          portal' = [portal EXCEPT ![p].life = l]
    BY <2>2, <2>3, <2>5
  <2> QED BY <2>1, <2>4, <2>5 DEF Foreign
<1>4. TypeOK' /\ RequestsCarry' /\ Places'
  BY <1>1, <1>2, <1>3 DEF IInv, TypeOK, RequestsCarry, Places
<1>5. IdentitiesExist'
  BY <1>1, <1>3 DEF IInv, IdentitiesExist, TypeOK, Grows, Exists, States
<1>6. Observed' /\ Achieved' /\ Stays'
  BY <1>1 DEF Observed, Achieved, Stays
<1>7. Accounted'
  BY <1>1, <1>3 DEF IInv, Accounted, Grows, Live, Exists
<1> QED BY <1>4, <1>5, <1>6, <1>7 DEF IInv

LEMMA SettleStep == ASSUME IInv, NEW p \in Ids, Settle(p) PROVE IInv'
<1> DEFINE own == state # None /\ state.id = p /\ op # "delete"
<1>1. /\ Exists(p) /\ quiet' = (quiet /\ ~own) /\ settled' = (settled /\ ~own)
      /\ UNCHANGED <<late, config, state, tainted, phase, op, pc, tries, draft, failed, clean, trouble>>
  BY DEF Settle, files, run
<1>2. PICK l \in Lives :
        /\ <<portal[p].life, l>> \in {<<"archiving", "hidden">>, <<"archiving", "archived">>,
             <<"hidden", "archived">>, <<"archived", "purged">>}
        /\ portal' = [portal EXCEPT ![p].life = l]
  BY DEF Settle
<1> DEFINE new == [portal[p] EXCEPT !.life = l]
<1>3. portal[p] \in Products /\ new \in Products /\ new # None
      /\ new.made = portal[p].made /\ new.life # "active"
  <2>1. portal[p] \in Products
    BY <1>1 DEF IInv, TypeOK, Exists
  <2>2. new \in Products
    BY <2>1 DEF Products
  <2>3. new.life = l /\ new.made = portal[p].made
    BY <2>1 DEF Products
  <2> QED BY <1>2, <2>1, <2>2, <2>3, ProductAssumption
<1>4. /\ portal' \in [Ids -> Products \cup {None}] /\ Grows(portal, portal')
      /\ \A q \in Ids \ {p} : portal'[q] = portal[q]
  <2>1. portal' = [portal EXCEPT ![p] = new]
    BY <1>2
  <2> HIDE DEF new
  <2> QED BY <1>1, <1>3, <2>1 DEF IInv, TypeOK, Grows, Exists
<1> HIDE DEF new
<1>5. TypeOK' /\ RequestsCarry' /\ Places'
  <2>1. quiet' \in BOOLEAN /\ settled' \in BOOLEAN
    BY <1>1
  <2> QED BY <1>1, <1>4, <2>1 DEF IInv, TypeOK, RequestsCarry, Places
<1>6. IdentitiesExist'
  BY <1>1, <1>4 DEF IInv, IdentitiesExist, TypeOK, Grows, Exists, States
<1>7. ~own /\ state # None /\ op # "delete" => portal'[state.id] = portal[state.id]
  BY <1>4 DEF IInv, TypeOK, States
<1>8. Observed'
  BY <1>1, <1>7, AgreesWhileUnchanged DEF IInv, Observed, Places
<1>9. Achieved'
  BY <1>1, <1>7, AgreesWhileUnchanged DEF IInv, Achieved, Established
<1>10. Stays'
  <2>1. settled => op # "delete"
    BY DEF IInv, Stays, Places, TypeOK
  <2> QED BY <1>1, <1>7, <2>1, AgreesWhileUnchanged DEF IInv, Stays, Established
<1>11. Accounted'
  BY <1>1, <1>4 DEF IInv, Accounted, Grows, Live, Exists
<1> QED BY <1>5, <1>6, <1>8, <1>9, <1>10, <1>11 DEF IInv

LEMMA ArriveLateStep == ASSUME IInv, ArriveLate PROVE IInv'
<1>1. UNCHANGED <<config, state, tainted, phase, op, pc, tries, draft, failed, clean, trouble>>
  BY DEF ArriveLate, files, run
<1>2. PICK r \in late :
        /\ late' = late \ {r}
        /\ \/ /\ Accepts(r) /\ portal' = Effect(r)
              /\ quiet' = FALSE /\ settled' = FALSE
           \/ UNCHANGED <<portal, quiet, settled>>
  BY DEF ArriveLate
<1>3. CASE Accepts(r) /\ portal' = Effect(r) /\ quiet' = FALSE /\ settled' = FALSE
  <2>1. /\ r.kind \in {"create", "update", "delete"}
        /\ r.kind # "create" => r.id \in Ids
        /\ r.kind # "delete" => r.plan \in Models
    BY DEF IInv, TypeOK, RequestsCarry, Requests
  <2>2. /\ portal' \in [Ids -> Products \cup {None}] /\ Grows(portal, portal')
        /\ r.kind # "create" => \A p \in Ids : ~Exists(p) => portal'[p] = None
    BY <1>3, <2>1, EffectGrows DEF IInv
  <2>3. TypeOK' /\ RequestsCarry' /\ Places'
    BY <1>1, <1>2, <1>3, <2>2 DEF IInv, TypeOK, RequestsCarry, Places
  <2>4. IdentitiesExist'
    BY <1>1, <2>2 DEF IInv, IdentitiesExist, TypeOK, Grows, Exists, States
  <2>5. Observed' /\ Achieved' /\ Stays'
    BY <1>3 DEF Observed, Achieved, Stays
  <2>6. Accounted'
    BY <1>1, <1>2, <2>2 DEF IInv, Accounted, Grows, Live, Exists
  <2> QED BY <2>3, <2>4, <2>5, <2>6 DEF IInv
<1>4. CASE UNCHANGED <<portal, quiet, settled>>
  <2>1. TypeOK' /\ RequestsCarry' /\ IdentitiesExist' /\ Places'
    BY <1>1, <1>2, <1>4 DEF IInv, TypeOK, RequestsCarry, IdentitiesExist, Places, Exists
  <2>2. Observed' /\ Achieved' /\ Stays'
    BY <1>1, <1>4, AgreesWhileUnchanged DEF IInv, Observed, Achieved, Stays, Established
  <2>3. Accounted'
    BY <1>1, <1>2, <1>4 DEF IInv, Accounted, Live, Exists
  <2> QED BY <2>1, <2>2, <2>3 DEF IInv
<1> QED BY <1>2, <1>3, <1>4

----------------------------------------------------------------------------
(* The theorems.                                                           *)

LEMMA Initially == Init => IInv
<1> SUFFICES ASSUME Init PROVE IInv
  OBVIOUS
<1>1. failed \in BOOLEAN /\ quiet \in BOOLEAN /\ settled \in BOOLEAN /\ clean \in BOOLEAN
  BY DEF Init
<1>2. TypeOK
  <2>1. 0 \in 0..(Attempts - 1) /\ 0 \in 0..MaxTrouble
    BY ProductAssumption
  <2>2. portal \in [Ids -> Products \cup {None}]
    BY DEF Init
  <2> QED BY <1>1, <2>1, <2>2 DEF Init, TypeOK
<1> QED BY <1>2 DEF Init, IInv, RequestsCarry, IdentitiesExist, Places, Observed, Achieved, Stays,
       Accounted, Live, Exists

LEMMA Stutters == ASSUME IInv, UNCHANGED vars PROVE IInv'
<1>1. UNCHANGED <<portal, late, config, state, tainted, draft, phase, op, pc, tries, failed, quiet,
                  settled, clean, trouble>>
  BY DEF vars
<1>2. TypeOK' /\ RequestsCarry' /\ IdentitiesExist' /\ Places'
  BY <1>1 DEF IInv, TypeOK, RequestsCarry, IdentitiesExist, Places, Exists
<1>3. Observed' /\ Achieved' /\ Stays'
  BY <1>1, AgreesWhileUnchanged DEF IInv, Observed, Achieved, Stays, Established
<1>4. Accounted'
  BY <1>1 DEF IInv, Accounted, Live, Exists
<1> QED BY <1>2, <1>3, <1>4 DEF IInv

LEMMA Inductive == IInv /\ [Next]_vars => IInv'
BY HandlerStep, StartRunStep, PlanStep, ReplaceStep, EndRunStep, CrashStep, ForeignStep,
   ArriveLateStep, ImportStep, SettleStep, Stutters DEF Next

\* The inductive invariant of the product.
THEOREM Invariance == Spec => []IInv
BY Initially, Inductive, PTL DEF Spec

\* Every variable stays in its domain; only what is in state can be tainted,
\* and waitForProductTerminal stays within its attempts.
THEOREM TypeCorrect == Spec => []TypeOK
<1>1. IInv => TypeOK
  BY DEF IInv
<1> QED BY <1>1, Invariance, PTL

\* An active product that was created here is in state unless a run has failed
\* or been killed (the recovery state of Create, productPresence).
THEOREM NothingLost == Spec => []NothingLostSilently
<1>1. IInv => NothingLostSilently
  BY DEF IInv, NothingLostSilently, Accounted, Places
<1> QED BY <1>1, Invariance, PTL

\* A run without an error has established the managed values, or the archival
\* (Create, Update and Delete of the product).
THEOREM SuccessVerified == Spec => []SuccessIsVerified
<1>1. IInv => SuccessIsVerified
  BY DEF IInv, SuccessIsVerified, Achieved, Established, Replacing, Agrees
<1> QED BY <1>1, Invariance, PTL

\* After a success that nobody disturbed the next plan is empty
\* (productModelFromRemote keeps spellings, productDecimalsEqual).
THEOREM PlanSettles == Spec => []SecondPlanEmpty
<1>1. IInv => SecondPlanEmpty
  BY DEF IInv, SecondPlanEmpty, Stays
<1> QED BY <1>1, Invariance, PTL

\* An identity leaves state only when that product is archived, purged or no
\* longer shown (Read, Delete's preflight and waitForProductTerminal).
THEOREM IdentityIsKept == Spec => IdentityKept
<1> DEFINE Keeps == \A p \in Ids : state # None /\ state.id = p /\ (state' = None \/ state'.id # p)
                      => portal[p].life \in {"hidden", "archived", "purged"}
<1>1. IInv /\ [Next]_vars =>
        [\A p \in Ids :
           /\ state # None /\ state.id = p
           /\ state' = None \/ state'.id # p
           => portal[p].life \in {"hidden", "archived", "purged"}]_vars
  <2> SUFFICES ASSUME IInv, Next PROVE Keeps
    OBVIOUS
  <2>1. CASE UNCHANGED state
    BY <2>1
  <2>2. CASE state = None
    BY <2>2
  <2>3. ASSUME state' # None, state'.id = state.id PROVE Keeps
    BY <2>3
  <2>4. ASSUME Exists(state.id), state \in States, Presence(state.id) # "active" PROVE Keeps
    <3>1. state.id \in Ids
      BY <2>4 DEF States
    <3> QED BY <2>4, <3>1, PresenceTells DEF IInv
  <2>5. ASSUME Fail, pc # "done" PROVE Keeps
    BY <2>1, <2>2, <2>5 DEF Fail, IInv, Places
  <2>6. ASSUME Handler PROVE Keeps
    <3>1. pc # "done"
      BY <2>6 DEF Handler, Read, CreateAnswered, CreateUnknown, VerifyCreate, UpdateNothing, Write,
         VerifyUpdate, Preflight, AwaitTerminal, ReadFails
    <3>2. CASE op = "create"
      BY <2>2, <3>1, <3>2 DEF IInv, Places
    <3>3. CASE op # "create"
      <4>1. state \in States /\ Exists(state.id)
        BY <3>1, <3>3, Running
      <4>2. \A m : [state EXCEPT !.def = m].id = state.id
        BY <4>1 DEF States
      <4>3. config \in Models => [state EXCEPT !.def = config] # None
        BY <4>1, ProductAssumption DEF States
      <4>4. CASE Read
        <5>1. CASE /\ Presence(state.id) = "active"
                   /\ state' = [state EXCEPT !.def = ModelFromRemote(portal[state.id].def, @)]
                   /\ Supported(portal[state.id].def, state.def)
          <6>1. ModelFromRemote(portal[state.id].def, state.def) \in Models
            BY <3>1, <3>3, <5>1, Running, ReadAgrees
          <6> QED BY <2>3, <4>1, <5>1, <6>1, ProductAssumption DEF States
        <5> QED BY <2>1, <2>4, <4>1, <4>4, <5>1 DEF Read
      <4>5. CASE UpdateNothing \/ VerifyUpdate
        BY <2>3, <2>5, <3>1, <4>2, <4>3, <4>5, Running DEF UpdateNothing, VerifyUpdate, Succeed
      <4>6. CASE Preflight \/ AwaitTerminal
        BY <2>1, <2>4, <2>5, <3>1, <4>1, <4>6 DEF Preflight, AwaitTerminal
      <4>7. CASE Write \/ ReadFails
        BY <2>1, <2>5, <3>1, <4>7 DEF Write, ReadFails, files
      <4> QED BY <2>6, <3>3, <4>4, <4>5, <4>6, <4>7
              DEF Handler, CreateAnswered, CreateUnknown, VerifyCreate
    <3> QED BY <3>2, <3>3
  <2>7. CASE StartRun \/ Plan \/ Replace \/ EndRun \/ Crash \/ Foreign \/ ArriveLate
             \/ \E p \in Ids : Settle(p)
    BY <2>1, <2>7 DEF StartRun, Plan, Replace, EndRun, Crash, Foreign, ArriveLate, Settle, files
  <2>8. CASE \E p \in Ids : Import(p)
    BY <2>2, <2>8 DEF Import
  <2> QED BY <2>6, <2>7, <2>8 DEF Next
<1> QED BY <1>1, Invariance, PTL DEF Spec, IdentityKept
=============================================================================
