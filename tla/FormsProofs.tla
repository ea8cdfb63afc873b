----------------------------- MODULE FormsProofs -----------------------------
(***************************************************************************)
(* Proofs about Forms.tla, for any set of IDs and definitions, any number  *)
(* of polls and of troubles.                                               *)
(*                                                                         *)
(* The invariant says where a handler stands and what it may rely on there *)
(* (Standing), what a run that nobody disturbed has achieved so far        *)
(* (InSync), and what is known as long as nothing has gone wrong (Calm).   *)
(***************************************************************************)
EXTENDS Forms, TLAPS

\* A request names a known kind and carries what that kind needs.
ValidRequest(r) ==
  \/ r.kind = "create" /\ r.values \in Managed
  \/ r.kind = "archive" /\ r.id \in Ids
  \/ /\ r.kind = "patch" /\ r.id \in Ids
     /\ \E S \in SUBSET Subtrees : r.values \in [S -> Texts \cup {NoDomains}]

RequestsValid == \A r \in late : ValidRequest(r)

\* Which handler stands where, and with what in state.
Standing ==
  /\ phase = "idle" \/ op = "none" => pc = "done"
  /\ phase = "refresh" => op \in {"none", "read"}
  /\ phase = "apply" => op # "read"
  /\ op \in {"create", "update"} => config # None
  /\ pc = "create" => op = "create" /\ state = None
  /\ pc = "patch" => op = "update"
  /\ pc \in {"archive", "terminal"} => op = "delete"
  /\ pc = "verify" => op \in {"create", "update"}
  /\ pc \in {"get", "archived"} => op \in {"read", "delete"}
  /\ pc \notin {"create", "done"} => state # None
  /\ pc = "archived" => ~Active(state.id)

\* The portal has the form as it is in state; as the author asked for.
Refreshed == Active(state.id) /\ forms[state.id].values = state.values
Fulfilled ==
  IF config = None THEN state = None
  ELSE /\ state # None /\ ~tainted
       /\ Active(state.id) /\ forms[state.id].values = config

\* A request of this run that may still arrive does no harm: it repeats what
\* the run has done, or archives what is gone or about to be.
Harmless(r) ==
  \/ /\ r.kind = "patch" /\ op = "update" /\ state # None /\ r.id = state.id
     /\ \A s \in DOMAIN r.values : r.values[s] = config[s]
  \/ /\ r.kind = "archive"
     /\ \/ ~Active(r.id)
        \/ op = "delete" /\ state # None /\ r.id = state.id

\* What a run has reached in which nobody else has changed anything.
InSync ==
  phase # "idle" /\ quiet /\ ~failed =>
    /\ \A r \in late : Harmless(r)
    /\ phase = "refresh" /\ pc = "done" /\ state # None => Refreshed
    /\ phase = "apply" /\ pc = "done" =>
         IF op = "delete" THEN state = None ELSE Fulfilled

\* As long as nothing has gone wrong, the one active form is that in state,
\* and reads back as it should.
Calm ==
  trouble = 0 =>
    /\ ~failed /\ late = {}
    /\ \A i \in Ids : Active(i) => /\ state # None /\ state.id = i
                                   /\ forms[i].values \in Managed
    /\ state # None =>
         CASE pc \in {"terminal", "archived"} -> ~Active(state.id)
           [] pc = "verify" -> Active(state.id) /\ forms[state.id].values = config
           [] OTHER -> Refreshed

IInv == TypeOK /\ RequestsValid /\ Standing /\ InSync /\ Calm

----------------------------------------------------------------------------
(* The operators.                                                          *)

\* A normalized read of an active form is the form: the sentinel is undone,
\* and nothing else is mistaken for it (normalizeFormDefinition).
LEMMA ViewIsForm ==
  ASSUME TypeOK, NEW i \in Ids, forms[i] # None
  PROVE  Views(i) = {forms[i].values} /\ forms[i] \in Versions
<1>1. forms[i] \in Versions /\ forms[i].values \in Structures
  BY DEF TypeOK, Versions
<1>2. ASSUME NEW v \in Structures PROVE Normalized(v) = v
  <2>1. v["fieldGroups"] # Sentinel
    BY FormAssumption DEF Structures, Subtrees, Sentinel, NoDomains, Alien
  <2> QED BY <2>1 DEF Normalized, Structures
<1>3. ASSUME NEW v \in Structures, v["fieldGroups"] = NoDomains
      PROVE  Normalized([v EXCEPT !["fieldGroups"] = Sentinel]) = v
  BY <1>3 DEF Normalized, Structures, Subtrees
<1> QED BY <1>1, <1>2, <1>3 DEF Views, OnWire

LEMMA Stops == DOMAIN After = {"patch", "archive"}
               /\ After["patch"] = "verify" /\ After["archive"] = "terminal"
BY DEF After

\* What a request changes: one form, in the way its kind says.
Took(r, i, v) ==
  /\ forms' = [forms EXCEPT ![i] = v]
  /\ r.kind = "create" =>
       i = Fresh /\ i \in Free /\ v = [values |-> r.values, archived |-> FALSE]
  /\ r.kind # "create" => i = r.id /\ Active(i)
  /\ r.kind = "archive" => v.archived
  /\ r.kind = "patch" =>
       /\ ~v.archived
       /\ \A s \in Subtrees : v.values[s] = IF s \in DOMAIN r.values THEN r.values[s]
                                            ELSE forms[i].values[s]

LEMMA Effect ==
  ASSUME TypeOK, NEW r, ValidRequest(r), TakeEffect(r)
  PROVE  \E i \in Ids, v \in Versions : Took(r, i, v)
<1>1. CASE r.kind = "create"
  <2>1. Free # {} /\ Fresh \in Free /\ Free \subseteq Ids
    BY <1>1 DEF TakeEffect, Accepts, Free, Fresh
  <2>2. r.values \in Managed
    BY <1>1 DEF ValidRequest
  <2>3. [values |-> r.values, archived |-> FALSE] \in Versions
    BY <2>2 DEF Managed, Versions, Structures
  <2>4. forms' = [forms EXCEPT ![Fresh] = [values |-> r.values, archived |-> FALSE]]
    BY <1>1 DEF TakeEffect, Result
  <2> QED BY <1>1, <2>1, <2>3, <2>4 DEF Took
<1>2. CASE r.kind = "archive"
  <2>1. r.id \in Ids /\ Active(r.id) /\ forms[r.id] \in Versions
    BY <1>2 DEF ValidRequest, TakeEffect, Accepts, Active, TypeOK
  <2>2. [forms[r.id] EXCEPT !.archived = TRUE] \in Versions
    BY <2>1 DEF Versions
  <2>3. forms' = [forms EXCEPT ![r.id] = [forms[r.id] EXCEPT !.archived = TRUE]]
    BY <1>2 DEF TakeEffect, Result
  <2>4. [forms[r.id] EXCEPT !.archived = TRUE].archived
    BY <2>1 DEF Versions
  <2> QED BY <1>2, <2>1, <2>2, <2>3, <2>4 DEF Took
<1>3. CASE r.kind = "patch"
  <2>1. r.id \in Ids /\ Active(r.id) /\ forms[r.id] \in Versions
    BY <1>3 DEF ValidRequest, TakeEffect, Accepts, Active, TypeOK
  <2>2. PICK S \in SUBSET Subtrees : r.values \in [S -> Texts \cup {NoDomains}]
    BY <1>3 DEF ValidRequest
  <2> DEFINE w == Merged(r.values, forms[r.id].values)
             v == [forms[r.id] EXCEPT !.values = w]
  <2>3. w \in Structures
    BY <2>1, <2>2 DEF Versions, Structures, Merged
  <2>4. v \in Versions /\ v.values = w /\ ~v.archived
    BY <2>1, <2>3 DEF Versions, Active
  <2>5. forms' = [forms EXCEPT ![r.id] = v]
    BY <1>3 DEF TakeEffect, Result
  <2>6. \A s \in Subtrees : v.values[s] = IF s \in DOMAIN r.values THEN r.values[s]
                                          ELSE forms[r.id].values[s]
    BY <2>4 DEF Merged
  <2>7. Took(r, r.id, v)
    BY <1>3, <2>1, <2>4, <2>5, <2>6 DEF Took
  <2> QED BY <2>1, <2>4, <2>7
<1> QED BY <1>1, <1>2, <1>3 DEF ValidRequest

\* A form that somebody can still refer to does not come back to life.
LEMMA DeadStaysDead ==
  ASSUME TypeOK, NEW r, ValidRequest(r), TakeEffect(r),
         NEW j \in Ids, ~Active(j), Known(j)
  PROVE  forms'[j] = forms[j]
<1>1. PICK i \in Ids, v \in Versions : Took(r, i, v)
  BY Effect
<1>2. i # j
  BY <1>1 DEF Took, Free
<1> QED BY <1>1, <1>2 DEF Took, TypeOK

\* The request of a handler that is about to write.
LEMMA Requests ==
  ASSUME TypeOK, Standing
  PROVE  /\ pc \in {"create", "patch", "archive"} => ValidRequest(Request)
         /\ pc = "create" => /\ Request.kind = "create"
                             /\ Request.values = config /\ config \in Managed
         /\ pc = "archive" => Request.kind = "archive" /\ Request.id = state.id
         /\ pc = "patch" =>
              /\ Request.kind = "patch" /\ Request.id = state.id
              /\ DOMAIN Request.values = Changed
              /\ \A s \in Changed : Request.values[s] = config[s]
<1>1. CASE pc = "create"
  <2>1. Request = [kind |-> "create", values |-> config] /\ config \in Managed
    BY <1>1, FormAssumption DEF Standing, Request, TypeOK
  <2> QED BY <1>1, <2>1 DEF ValidRequest
<1>2. CASE pc = "archive"
  <2>1. Request = [kind |-> "archive", id |-> state.id] /\ state \in Models
    BY <1>2 DEF Standing, Request, TypeOK
  <2> QED BY <1>2, <2>1 DEF ValidRequest, Models
<1>3. CASE pc = "patch"
  <2>1. /\ Request = [kind |-> "patch", id |-> state.id, values |-> [s \in Changed |-> config[s]]]
        /\ state \in Models /\ config \in Managed
    BY <1>3, FormAssumption DEF Standing, Request, TypeOK
  <2>2. Changed \in SUBSET Subtrees
    BY DEF Changed
  <2>3. [s \in Changed |-> config[s]] \in [Changed -> Texts \cup {NoDomains}]
    BY <2>1, <2>2 DEF Managed
  <2> QED BY <1>3, <2>1, <2>2, <2>3 DEF ValidRequest, Models
<1> QED BY <1>1, <1>2, <1>3

----------------------------------------------------------------------------
(* The handlers' reads.                                                    *)

\* What all reads leave alone.
Unread == UNCHANGED <<portal, config, phase, quiet, trouble>>

\* The ways a handler ends or goes on keep types.
LEMMA EndingsAreTyped ==
  ASSUME TypeOK, Unread, op' = op, late' = late
  PROVE  /\ Fail \/ Forget => TypeOK'
         /\ \A v \in Structures : state # None /\ Record(v) => TypeOK'
         /\ \A l \in {"archived", "verify", "archive", "terminal"} : Continue(l) => TypeOK'
<1>1. Polls \in Nat \ {0}
  BY FormAssumption
<1>2. Fail \/ Forget => TypeOK'
  <2>1. Fail => TypeOK'
    BY <1>1 DEF TypeOK, Unread, portal, kept, Fail, Goto
  <2>2. ASSUME Forget PROVE TypeOK'
    <3>1. tainted' \in BOOLEAN /\ (tainted' => state' # None)
      BY <2>2, Zenon DEF Forget
    <3>2. /\ state' = None /\ pc' = "done" /\ count' = 0 /\ op' = op /\ failed' = failed
      BY <2>2 DEF Forget, Goto
    <3> QED BY <1>1, <3>1, <3>2 DEF TypeOK, Unread, portal
  <2> QED BY <2>1, <2>2
<1>3. ASSUME NEW v \in Structures, state # None, Record(v) PROVE TypeOK'
  <2>1. CASE ~Supported(v)
    BY <2>1, <1>2, <1>3 DEF Record
  <2>2. CASE Supported(v)
    <3>1. v \in Managed
      BY <2>2 DEF Supported, Structures, Managed
    <3>2. state' = Model(state.id, v) /\ state' \in Models
      BY <1>3, <2>2, <3>1 DEF Record, Model, Models, TypeOK
    <3>3. state' # None
      BY <3>2, FormAssumption
    <3> QED BY <1>1, <1>3, <2>2, <3>2, <3>3, Stops
            DEF TypeOK, Unread, portal, kept, Record, Goto
  <2> QED BY <2>1, <2>2
<1>4. ASSUME NEW l \in {"archived", "verify", "archive", "terminal"}, Continue(l)
      PROVE  TypeOK'
  BY <1>1, <1>4, Stops DEF TypeOK, Unread, portal, kept, Continue, Goto
<1> QED BY <1>2, <1>3, <1>4

LEMMA ReadStep == IInv /\ Read /\ Unread => IInv'
<1> SUFFICES ASSUME IInv, Read, Unread PROVE IInv'
  OBVIOUS
<1>1. state # None /\ state \in Models /\ state.id \in Ids
  BY DEF IInv, Standing, Read, TypeOK, Models
<1>2. CASE ~Active(state.id)
  <2>1. Continue("archived")
    BY <1>2 DEF Read
  <2>2. TypeOK'
    BY <2>1, EndingsAreTyped DEF IInv, Unread, portal, Continue, Goto
  <2>3. RequestsValid' /\ Standing'
    BY <1>1, <1>2, <2>1 DEF IInv, RequestsValid, ValidRequest, Standing, Unread, portal,
       Continue, Goto, kept, Read, Active
  <2>4. InSync' /\ Calm'
    BY <1>1, <1>2, <2>1 DEF IInv, Standing, InSync, Harmless, Refreshed, Calm, Unread, portal,
       Continue, Goto, kept, Read, Active
  <2> QED BY <2>2, <2>3, <2>4 DEF IInv
<1>3. CASE Active(state.id)
  <2>1. forms[state.id].values \in Structures /\ Record(forms[state.id].values)
    BY <1>1, <1>3, ViewIsForm DEF IInv, Active, Read, Versions
  <2>2. TypeOK'
    BY <1>1, <2>1, EndingsAreTyped DEF IInv, Unread, portal, Record, Goto, Fail
  <2>3. RequestsValid' /\ Standing'
    BY <1>1, <2>1, FormAssumption DEF IInv, RequestsValid, ValidRequest, Standing, Unread, portal,
       Record, Fail, Goto, kept, Read, Active
  <2>4. CASE Supported(forms[state.id].values)
    <3>1. /\ state' = [id |-> state.id, values |-> forms[state.id].values]
          /\ failed' = failed /\ pc' = "done" /\ op' = op
      BY <2>1, <2>4 DEF Record, Goto, Model
    <3>2. state'.id = state.id /\ Refreshed'
      BY <1>3, <3>1 DEF Refreshed, Unread, portal, Active
    <3>3. phase = "refresh" \/ op = "read" => phase = "refresh" /\ op = "read"
      BY DEF IInv, Standing, TypeOK, Read
    <3>4. InSync'
      BY <3>1, <3>2, <3>3 DEF IInv, Standing, InSync, Harmless, Unread, portal, Active, Read
    <3>5. Calm'
      <4>1. trouble = 0 => state' # None
        BY <3>1, <1>1, <1>3, FormAssumption DEF IInv, Calm, Models
      <4> QED BY <3>1, <3>2, <1>1, <1>3, <4>1 DEF IInv, Calm, Unread, portal, Active, Read
    <3> QED BY <2>2, <2>3, <3>4, <3>5 DEF IInv
  <2>5. CASE ~Supported(forms[state.id].values)
    <3>1. Fail
      BY <2>1, <2>5 DEF Record
    <3>2. trouble # 0
      <4>1. trouble = 0 => forms[state.id].values \in Managed
        BY <1>1, <1>3 DEF IInv, Calm
      <4> QED BY <4>1, <2>5, FormAssumption DEF Supported, Managed, NoDomains, Alien
    <3>3. InSync' /\ Calm'
      BY <3>1, <3>2 DEF Fail, InSync, Calm, Unread
    <3> QED BY <2>2, <2>3, <3>3 DEF IInv
  <2> QED BY <2>4, <2>5
<1> QED BY <1>2, <1>3

LEMMA VerifyStep == IInv /\ Verify /\ Unread => IInv'
<1> SUFFICES ASSUME IInv, Verify, Unread PROVE IInv'
  OBVIOUS
<1>1. /\ state # None /\ state \in Models /\ state.id \in Ids
      /\ op \in {"create", "update"} /\ phase = "apply"
      /\ config # None /\ config \in Managed
  BY FormAssumption DEF IInv, Standing, Verify, TypeOK, Models
<1>2. CASE Fail
  <2>1. TypeOK'
    BY <1>2, EndingsAreTyped DEF IInv, Unread, portal, Fail, Goto
  <2>2. RequestsValid' /\ Standing' /\ InSync'
    BY <1>1, <1>2 DEF IInv, RequestsValid, ValidRequest, Standing, InSync, Unread, portal,
       Fail, Goto, kept
  <2>3. trouble # 0
    <3>1. trouble = 0 => Active(state.id) /\ forms[state.id].values = config
      BY <1>1 DEF IInv, Calm, Verify
    <3>2. trouble = 0 => Record(config)
      BY <1>1, <1>2, <3>1, ViewIsForm DEF IInv, Verify, MatchesPlan, Active
    <3>3. Supported(config)
      BY <1>1, FormAssumption DEF Supported, Managed, NoDomains, Alien
    <3>4. trouble = 0 => failed' = failed /\ ~failed
      BY <3>2, <3>3 DEF Record, IInv, Calm
    <3> QED BY <1>2, <3>4 DEF Fail
  <2> QED BY <2>1, <2>2, <2>3 DEF IInv, Calm, Unread
<1>3. CASE ~Fail
  <2>1. Active(state.id) /\ forms[state.id].values = config /\ Record(config)
    BY <1>1, <1>3, ViewIsForm DEF IInv, Verify, MatchesPlan, Active
  <2>2. TypeOK'
    BY <1>1, <2>1, EndingsAreTyped DEF IInv, Unread, portal, Record, Goto, Fail, Managed, Structures
  <2>3. /\ state' = [id |-> state.id, values |-> config] /\ ~tainted'
        /\ failed' = failed /\ pc' = "done" /\ op' = op /\ Supported(config)
    BY <1>1, <1>3, <2>1 DEF Record, Goto, Model
  <2>4. state' # None /\ Refreshed' /\ Fulfilled'
    BY <1>1, <2>1, <2>3, FormAssumption DEF Refreshed, Fulfilled, Models, Unread, portal, Active
  <2>5. RequestsValid' /\ Standing'
    BY <1>1, <2>3, <2>4 DEF IInv, RequestsValid, ValidRequest, Standing, Unread, portal
  <2>6. InSync'
    BY <1>1, <2>3, <2>4 DEF IInv, InSync, Harmless, Unread, portal, Active, Verify
  <2>7. Calm'
    BY <1>1, <2>1, <2>3, <2>4 DEF IInv, Calm, Unread, portal, Active
  <2> QED BY <2>2, <2>5, <2>6, <2>7 DEF IInv
<1> QED BY <1>2, <1>3

LEMMA PreflightStep == IInv /\ Preflight /\ Unread => IInv'
<1> SUFFICES ASSUME IInv, Preflight, Unread PROVE IInv'
  OBVIOUS
<1>1. /\ state # None /\ op = "delete" /\ pc = "get" /\ phase = "apply"
      /\ Continue(IF Active(state.id) THEN "archive" ELSE "archived")
  BY DEF IInv, Standing, Preflight, TypeOK
<1>2. TypeOK'
  BY <1>1, EndingsAreTyped DEF IInv, Unread, portal, Continue, Goto
<1>3. RequestsValid' /\ Standing'
  BY <1>1 DEF IInv, RequestsValid, ValidRequest, Standing, Unread, portal, Continue, Goto,
     kept, Active
<1>4. InSync' /\ Calm'
  BY <1>1 DEF IInv, InSync, Harmless, Calm, Refreshed, Unread, portal, Continue, Goto,
     kept, Active
<1> QED BY <1>2, <1>3, <1>4 DEF IInv

LEMMA ArchivedStep == IInv /\ Archived /\ Unread => IInv'
<1> SUFFICES ASSUME IInv, Archived, Unread PROVE IInv'
  OBVIOUS
<1>1. /\ state # None /\ ~Active(state.id) /\ op \in {"read", "delete"}
      /\ pc = "archived" /\ Forget /\ (phase = "apply" <=> op = "delete")
  BY DEF IInv, Standing, Archived, TypeOK
<1>2. TypeOK'
  BY <1>1, EndingsAreTyped DEF IInv, Unread, portal, Forget, Goto
<1>3. RequestsValid' /\ Standing'
  BY <1>1 DEF IInv, RequestsValid, ValidRequest, Standing, Unread, portal, Forget, Goto, Active
<1>4. InSync'
  BY <1>1 DEF IInv, InSync, Harmless, Refreshed, Unread, portal, Forget, Goto, Active
<1>5. Calm'
  BY <1>1 DEF IInv, Calm, Unread, portal, Forget, Goto, Active
<1> QED BY <1>2, <1>3, <1>4, <1>5 DEF IInv

LEMMA AwaitTerminalStep == IInv /\ AwaitTerminal /\ Unread => IInv'
<1> SUFFICES ASSUME IInv, AwaitTerminal, Unread PROVE IInv'
  OBVIOUS
<1>1. /\ state # None /\ op = "delete" /\ pc = "terminal" /\ phase = "apply"
  BY DEF IInv, Standing, AwaitTerminal, TypeOK
<1>2. CASE ~Active(state.id)
  <2>1. Continue("archived")
    BY <1>2 DEF AwaitTerminal
  <2>2. TypeOK'
    BY <2>1, EndingsAreTyped DEF IInv, Unread, portal, Continue, Goto
  <2>3. RequestsValid' /\ Standing' /\ InSync' /\ Calm'
    BY <1>1, <1>2, <2>1 DEF IInv, RequestsValid, ValidRequest, Standing, InSync, Harmless, Calm,
       Unread, portal, Continue, Goto, kept, Active
  <2> QED BY <2>2, <2>3 DEF IInv
<1>3. CASE Active(state.id)
  <2>1. trouble # 0
    BY <1>1, <1>3 DEF IInv, Calm
  <2>2. CASE count + 1 = Polls
    <3>1. Fail
      BY <1>3, <2>2 DEF AwaitTerminal
    <3>2. TypeOK'
      BY <3>1, EndingsAreTyped DEF IInv, Unread, portal, Fail, Goto
    <3>3. RequestsValid' /\ Standing' /\ InSync' /\ Calm'
      BY <1>1, <2>1, <3>1 DEF IInv, RequestsValid, ValidRequest, Standing, InSync, Calm,
         Unread, portal, Fail, Goto, kept
    <3> QED BY <3>2, <3>3 DEF IInv
  <2>3. CASE count + 1 # Polls
    <3>1. count' = count + 1 /\ UNCHANGED <<op, pc, kept, failed>>
      BY <1>3, <2>3 DEF AwaitTerminal
    <3>2. TypeOK'
      BY <2>3, <3>1, FormAssumption DEF IInv, TypeOK, Unread, portal, kept
    <3>3. RequestsValid' /\ Standing' /\ InSync' /\ Calm'
      BY <1>1, <2>1, <3>1 DEF IInv, RequestsValid, ValidRequest, Standing, InSync, Harmless, Calm,
         Unread, portal, kept, Active
    <3> QED BY <3>2, <3>3 DEF IInv
  <2> QED BY <2>2, <2>3
<1> QED BY <1>2, <1>3

LEMMA ReadFailsStep == IInv /\ ReadFails => IInv'
<1> SUFFICES ASSUME IInv, ReadFails PROVE IInv'
  OBVIOUS
<1>1. /\ Fail /\ trouble' = trouble + 1 /\ trouble < MaxTrouble
      /\ UNCHANGED <<portal, config, phase, quiet>>
  BY DEF ReadFails, Disturb
<1>2. TypeOK'
  BY <1>1, FormAssumption DEF IInv, TypeOK, portal, kept, Fail, Goto
<1>3. trouble' # 0
  BY <1>1, FormAssumption DEF IInv, TypeOK
<1>4. RequestsValid' /\ Standing' /\ InSync' /\ Calm'
  BY <1>1, <1>3 DEF IInv, RequestsValid, ValidRequest, Standing, InSync, Calm, portal, Fail, Goto, kept, ReadFails
<1> QED BY <1>2, <1>4 DEF IInv

----------------------------------------------------------------------------
(* The handlers' writes.                                                   *)

\* A request that has taken effect keeps the forms typed and what is known
\* to be gone gone.
LEMMA TakenEffect ==
  ASSUME TypeOK, RequestsValid, NEW r, ValidRequest(r), TakeEffect(r)
  PROVE  /\ forms' \in [Ids -> Versions \cup {None}]
         /\ \A j \in Ids : Known(j) /\ ~Active(j) => forms'[j] = forms[j]
<1>1. PICK i \in Ids, v \in Versions : Took(r, i, v)
  BY Effect
<1>2. forms' \in [Ids -> Versions \cup {None}]
  BY <1>1 DEF Took, TypeOK
<1> QED BY <1>2, DeadStaysDead

LEMMA CreateStep == IInv /\ Create => IInv'
<1> SUFFICES ASSUME IInv, Create PROVE IInv'
  OBVIOUS
<1>1. /\ pc = "create" /\ op = "create" /\ phase = "apply" /\ state = None
      /\ config # None /\ config \in Managed /\ ~tainted
      /\ ValidRequest(Request) /\ Request.kind = "create" /\ Request.values = config
      /\ UNCHANGED <<config, phase, quiet>>
  BY Requests, FormAssumption DEF IInv, Standing, Create, TypeOK
<1>2. CASE /\ TakeEffect(Request) /\ state' = Model(Fresh, config) /\ tainted' = TRUE
           /\ Goto("verify") /\ UNCHANGED <<late, failed, trouble>>
  <2>1. PICK i \in Ids, v \in Versions : Took(Request, i, v)
    BY <1>1, <1>2, Effect DEF IInv
  <2>2. /\ i = Fresh /\ i \in Free /\ v = [values |-> config, archived |-> FALSE]
        /\ forms' = [forms EXCEPT ![i] = v] /\ forms'[i] = v
    BY <1>1, <2>1 DEF Took, IInv, TypeOK
  <2>3. /\ state' = [id |-> i, values |-> config] /\ state' \in Models /\ state' # None
        /\ v # None
    <3>1. v # None
      BY <2>1, FormAssumption
    <3>2. state' = [id |-> i, values |-> config]
      BY <1>2, <2>2 DEF Model
    <3>3. state' \in Models
      BY <1>1, <3>2 DEF Models
    <3> QED BY <3>1, <3>2, <3>3, FormAssumption
  <2>4. TypeOK'
    <3>1. tainted' \in BOOLEAN /\ (tainted' => state' # None)
      BY <1>2, <2>3
    <3>2. forms' \in [Ids -> Versions \cup {None}]
      BY <2>1, <2>2 DEF IInv, TypeOK
    <3> QED BY <1>1, <1>2, <2>3, <3>1, <3>2, FormAssumption DEF IInv, TypeOK, Goto
  <2>5. RequestsValid' /\ Standing'
    BY <1>1, <1>2, <2>3 DEF IInv, RequestsValid, ValidRequest, Standing, Goto
  <2>6. InSync'
    <3>1. ASSUME NEW r \in late, r.kind = "archive", ~Active(r.id) PROVE ~Active(r.id)'
      <4>1. r.id \in Ids /\ Known(r.id)
        BY <3>1 DEF IInv, RequestsValid, ValidRequest, Known
      <4>2. forms'[r.id] = forms[r.id]
        BY <1>1, <1>2, <3>1, <4>1, TakenEffect DEF IInv
      <4> QED BY <3>1, <4>2 DEF Active
    <3> QED BY <1>1, <1>2, <3>1 DEF IInv, InSync, Harmless, Goto
  <2>7. Calm'
    <3>1. Active(i)' /\ forms'[i].values = config
      BY <2>2, <2>3 DEF Active
    <3>2. \A j \in Ids : j # i => (Active(j)' <=> Active(j))
      BY <2>2 DEF IInv, TypeOK, Active
    <3>3. trouble = 0 => \A j \in Ids : ~Active(j)
      BY <1>1 DEF IInv, Calm
    <3> QED BY <1>1, <1>2, <2>3, <3>1, <3>2, <3>3 DEF IInv, Calm, Goto
  <2> QED BY <2>4, <2>5, <2>6, <2>7 DEF IInv
<1>3. CASE ~Accepts(Request) /\ Fail /\ UNCHANGED <<portal, trouble>>
  <2>1. TypeOK'
    BY <1>1, <1>3, EndingsAreTyped DEF IInv, Unread, portal, Fail, Goto
  <2>2. RequestsValid' /\ Standing' /\ InSync'
    BY <1>1, <1>3 DEF IInv, RequestsValid, ValidRequest, Standing, InSync, portal, Fail, Goto, kept
  <2>3. trouble # 0
    <3>1. trouble = 0 => Free = Ids
      BY <1>1 DEF IInv, Calm, Free, Known
    <3> QED BY <1>1, <1>3, <3>1, FormAssumption DEF Accepts
  <2> QED BY <1>3, <2>1, <2>2, <2>3 DEF IInv, Calm
<1>4. CASE /\ \/ TakeEffect(Request) /\ UNCHANGED late
              \/ late' = late \cup {Request} /\ UNCHANGED forms
              \/ UNCHANGED portal
           /\ Fail /\ Disturb
  <2>1. forms' \in [Ids -> Versions \cup {None}]
    BY <1>1, <1>4, TakenEffect DEF IInv, TypeOK, portal
  <2>2. trouble' \in 0..MaxTrouble /\ trouble' # 0
    BY <1>4, FormAssumption DEF IInv, TypeOK, Disturb
  <2>3. TypeOK'
    BY <1>1, <1>4, <2>1, <2>2, FormAssumption DEF IInv, TypeOK, kept, Fail, Goto
  <2>4. RequestsValid'
    BY <1>1, <1>4 DEF IInv, RequestsValid, ValidRequest, portal
  <2>5. Standing' /\ InSync' /\ Calm'
    BY <1>1, <1>4, <2>2 DEF IInv, Standing, InSync, Calm, Fail, Goto, kept
  <2> QED BY <2>3, <2>4, <2>5 DEF IInv
<1> QED BY <1>2, <1>3, <1>4 DEF Create

\* A patch or an archive request that has been sent, whatever its answer and
\* whether it is carried out, refused, lost or late.
Sent ==
  /\ pc \in DOMAIN After /\ Continue(After[pc])
  /\ UNCHANGED <<config, phase, quiet>>
  /\ \/ TakeEffect(Request) /\ UNCHANGED late
     \/ late' = late \cup {Request} /\ UNCHANGED forms
     \/ UNCHANGED portal

LEMMA SentStep ==
  ASSUME IInv, Sent, trouble' \in 0..MaxTrouble
  PROVE  TypeOK' /\ RequestsValid' /\ Standing' /\ InSync'
<1>1. /\ pc \in {"patch", "archive"} /\ state # None /\ state \in Models /\ state.id \in Ids
      /\ op = IF pc = "patch" THEN "update" ELSE "delete"
      /\ pc' = IF pc = "patch" THEN "verify" ELSE "terminal"
      /\ ValidRequest(Request) /\ phase = "apply"
      /\ UNCHANGED <<op, state, tainted, failed>>
  BY Stops, Requests DEF IInv, Standing, Sent, TypeOK, Models, Continue, Goto, kept
<1>2. TypeOK'
  <2>1. forms' \in [Ids -> Versions \cup {None}]
    BY <1>1, TakenEffect DEF IInv, TypeOK, portal, Sent
  <2> QED BY <1>1, <2>1, FormAssumption DEF IInv, TypeOK, Sent, Continue, Goto
<1>3. RequestsValid'
  BY <1>1 DEF IInv, RequestsValid, ValidRequest, portal, Sent
<1>4. Standing'
  BY <1>1 DEF IInv, Standing, Sent
<1>5. InSync'
  <2>1. pc = "patch" => /\ Request.kind = "patch" /\ Request.id = state.id
                        /\ \A s \in DOMAIN Request.values : Request.values[s] = config[s]
    BY Requests DEF IInv
  <2>2. pc = "archive" => Request.kind = "archive" /\ Request.id = state.id
    BY Requests DEF IInv
  <2>3. ASSUME NEW r, r = Request PROVE Harmless(r)'
    BY <1>1, <2>1, <2>2, <2>3 DEF Harmless, Sent
  <2>4. ASSUME NEW r \in late, Harmless(r) PROVE Harmless(r)'
    <3>1. CASE r.kind = "archive" /\ ~Active(r.id)
      <4>1. r.id \in Ids /\ Known(r.id)
        BY <3>1 DEF IInv, RequestsValid, ValidRequest, Known
      <4>2. forms'[r.id] = forms[r.id]
        BY <1>1, <3>1, <4>1, TakenEffect DEF IInv, Sent, portal
      <4> QED BY <3>1, <4>2 DEF Active, Harmless
    <3>2. CASE ~(r.kind = "archive" /\ ~Active(r.id))
      BY <1>1, <2>4, <3>2 DEF Harmless, Sent
    <3> QED BY <3>1, <3>2
  <2>5. \A r \in late' : r \in late \/ r = Request
    BY DEF Sent, portal
  <2>6. ASSUME \A r \in late : Harmless(r), NEW r \in late' PROVE Harmless(r)'
    BY <2>3, <2>4, <2>5, <2>6
  <2> QED BY <1>1, <2>6 DEF IInv, InSync, Sent
<1> QED BY <1>2, <1>3, <1>4, <1>5

LEMMA WriteStep == IInv /\ Write => IInv'
<1> SUFFICES ASSUME IInv, Write PROVE IInv'
  OBVIOUS
<1>1. Sent /\ UNCHANGED <<late, trouble>>
  BY DEF Write, Sent, portal
<1>2. TypeOK' /\ RequestsValid' /\ Standing' /\ InSync'
  BY <1>1, SentStep DEF IInv, TypeOK
<1>3. Calm'
  <2>1. SUFFICES ASSUME trouble = 0 PROVE Calm'
    BY <1>1 DEF Calm
  <2>2. /\ pc \in {"patch", "archive"} /\ state # None /\ state.id \in Ids
        /\ Active(state.id) /\ forms[state.id].values = state.values /\ state.values \in Managed
        /\ late = {} /\ ~failed /\ late' = late /\ UNCHANGED <<state, failed, config>>
        /\ pc' = IF pc = "patch" THEN "verify" ELSE "terminal"
    BY <1>1, <2>1, Stops DEF IInv, Standing, TypeOK, Models, Calm, Refreshed, Sent, Continue, Goto, kept
  <2>3. CASE pc = "patch"
    <3>1. config \in Managed
      BY <2>3, FormAssumption DEF IInv, Standing, TypeOK
    <3>2. /\ Request.kind = "patch" /\ Request.id = state.id /\ DOMAIN Request.values = Changed
          /\ \A s \in Changed : Request.values[s] = config[s]
      BY <2>3, Requests DEF IInv
    <3>3. Result(Request) = [forms[state.id] EXCEPT !.values = Merged(Request.values, @)]
      BY <3>2 DEF Result
    <3>4. Merged(Request.values, state.values) = config
      BY <2>2, <3>1, <3>2 DEF Merged, Managed, Changed
    <3>5. forms[state.id] \in Versions
      BY <2>2 DEF IInv, TypeOK, Active
    <3>6. Result(Request).values = config
      BY <2>2, <3>3, <3>4, <3>5 DEF Versions
    <3>7. Supported(config)
      BY <3>1, FormAssumption DEF Supported, Managed, NoDomains, Alien
    <3>8. TakeEffect(Request)
      BY <2>2, <3>2, <3>6, <3>7, <1>1 DEF Write, Accepts
    <3>9. PICK i \in Ids, v \in Versions : Took(Request, i, v)
      BY <3>8, <1>2, <2>3, Effect, Requests DEF IInv
    <3>10. i = state.id /\ forms' = [forms EXCEPT ![i] = v] /\ ~v.archived /\ forms'[i] = v
      BY <2>2, <3>2, <3>9 DEF Took, IInv, TypeOK
    <3>11. v.values = config
      BY <2>2, <3>1, <3>2, <3>9, <3>10 DEF Took, Changed, Managed, Versions, Structures
    <3>12. v # None
      BY FormAssumption
    <3>13. \A j \in Ids : Active(j)' => j = i
      BY <2>1, <2>2, <3>10 DEF IInv, Calm, Active, TypeOK
    <3> QED BY <2>2, <2>3, <3>1, <3>10, <3>11, <3>12, <3>13 DEF Calm, Active
  <2>4. CASE pc = "archive"
    <3>1. Request.kind = "archive" /\ Request.id = state.id /\ ValidRequest(Request)
      BY <2>4, Requests DEF IInv
    <3>2. TakeEffect(Request)
      BY <2>2, <3>1, <1>1 DEF Write, Accepts
    <3>3. PICK i \in Ids, v \in Versions : Took(Request, i, v)
      BY <3>1, <3>2, Effect DEF IInv
    <3>4. i = state.id /\ forms' = [forms EXCEPT ![i] = v] /\ v.archived /\ forms'[i] = v
      BY <3>1, <3>3 DEF Took, IInv, TypeOK
    <3>5. \A j \in Ids : ~Active(j)'
      BY <2>1, <2>2, <3>4 DEF IInv, Calm, Active, TypeOK
    <3> QED BY <2>2, <2>4, <3>5 DEF Calm
  <2> QED BY <2>2, <2>3, <2>4
<1> QED BY <1>2, <1>3 DEF IInv

LEMMA WriteFailsStep == IInv /\ WriteFails => IInv'
<1> SUFFICES ASSUME IInv, WriteFails PROVE IInv'
  OBVIOUS
<1>1. Sent
  BY DEF WriteFails, Sent, portal
<1>2. trouble' \in 0..MaxTrouble /\ trouble' # 0
  BY FormAssumption DEF WriteFails, Disturb, IInv, TypeOK
<1> QED BY <1>1, <1>2, SentStep DEF IInv, Calm

----------------------------------------------------------------------------
(* Terraform.                                                              *)

LEMMA StartRunStep == IInv /\ StartRun => IInv'
<1> SUFFICES ASSUME IInv, StartRun PROVE IInv'
  OBVIOUS
<1>1. /\ pc = "done" /\ phase' = "refresh" /\ config' \in Configs /\ count' = 0
      /\ IF state = None THEN op' = "none" /\ pc' = "done" ELSE op' = "read" /\ pc' = "get"
      /\ quiet' = (late = {})
      /\ UNCHANGED <<forms, late, state, tainted, failed, trouble>>
  BY DEF IInv, Standing, StartRun, Begin, portal, kept
<1>2. TypeOK'
  <2>1. quiet' \in BOOLEAN
    BY <1>1
  <2> QED BY <1>1, <2>1, FormAssumption DEF IInv, TypeOK
<1>3. RequestsValid' /\ Standing' /\ InSync' /\ Calm'
  BY <1>1 DEF IInv, RequestsValid, ValidRequest, Standing, InSync, Calm, Refreshed, Active
<1> QED BY <1>2, <1>3 DEF IInv

LEMMA PlanStep == IInv /\ Plan => IInv'
<1> SUFFICES ASSUME IInv, Plan PROVE IInv'
  OBVIOUS
<1>1. /\ phase = "refresh" /\ pc = "done" /\ ~failed /\ phase' = "apply" /\ count' = 0
      /\ UNCHANGED <<forms, late, config, state, tainted, failed, quiet, trouble>>
      /\ \/ state = None /\ config # None /\ op' = "create" /\ pc' = "create"
         \/ state # None /\ op' = "delete" /\ pc' = "get"
         \/ state # None /\ config # None /\ op' = "update" /\ pc' = "patch"
         \/ /\ op' = "none" /\ pc' = "done"
            /\ \/ state = None /\ config = None
               \/ state # None /\ config # None /\ ~tainted /\ Changed = {}
  BY DEF Plan, Begin, portal, kept
<1>2. TypeOK'
  BY <1>1, Stops, FormAssumption DEF IInv, TypeOK
<1>3. RequestsValid' /\ Standing' /\ Calm'
  BY <1>1 DEF IInv, RequestsValid, ValidRequest, Standing, Calm, Refreshed, Active
<1>4. InSync'
  <2>1. SUFFICES ASSUME quiet PROVE InSync'
    BY <1>1 DEF InSync
  <2>2. /\ \A r \in late : r.kind = "archive" /\ ~Active(r.id)
        /\ state # None => Refreshed
    BY <1>1, <2>1 DEF IInv, InSync, Harmless, Standing
  <2>3. state # None /\ config # None /\ Changed = {} => state.values = config
    <3>1. state # None => state.values \in Managed
      BY DEF IInv, TypeOK, Models
    <3>2. config # None => config \in Managed
      BY FormAssumption DEF IInv, TypeOK
    <3> QED BY <3>1, <3>2 DEF Changed, Managed
  <2> QED BY <1>1, <2>2, <2>3 DEF InSync, Harmless, Fulfilled, Refreshed, Active
<1> QED BY <1>2, <1>3, <1>4 DEF IInv

LEMMA ReplaceStep == IInv /\ Replace => IInv'
<1> SUFFICES ASSUME IInv, Replace PROVE IInv'
  OBVIOUS
<1>1. /\ phase = "apply" /\ pc = "done" /\ state = None /\ config # None /\ op = "delete"
      /\ op' = "create" /\ pc' = "create" /\ count' = 0
      /\ UNCHANGED <<forms, late, config, state, tainted, phase, failed, quiet, trouble>>
  BY DEF Replace, Replacing, Begin, portal, kept
<1>2. TypeOK'
  BY <1>1, FormAssumption DEF IInv, TypeOK
<1>3. RequestsValid' /\ Standing' /\ Calm' /\ InSync'
  BY <1>1 DEF IInv, RequestsValid, ValidRequest, Standing, Calm, InSync, Harmless, Active
<1> QED BY <1>2, <1>3 DEF IInv

\* A run that is over has nothing left to keep.
LEMMA StopStep ==
  ASSUME IInv, Stop, trouble' \in 0..MaxTrouble, RequestsValid'
  PROVE  TypeOK' /\ Standing' /\ InSync'
<1>1. /\ phase' = "idle" /\ op' = "none" /\ pc' = "done" /\ count' = 0
      /\ failed' = FALSE /\ quiet' = TRUE /\ UNCHANGED <<forms, config, state, tainted>>
  BY DEF Stop, Begin, kept
<1>2. TypeOK'
  <2>1. {failed', quiet'} \subseteq BOOLEAN
    BY <1>1
  <2> QED BY <1>1, <2>1, FormAssumption DEF IInv, TypeOK
<1>3. Standing' /\ InSync'
  BY <1>1 DEF Standing, InSync
<1> QED BY <1>2, <1>3

LEMMA EndRunStep == IInv /\ EndRun => IInv'
<1> SUFFICES ASSUME IInv, EndRun PROVE IInv'
  OBVIOUS
<1>1. Stop /\ UNCHANGED <<late, trouble>> /\ pc = "done"
  BY DEF EndRun
<1>2. RequestsValid'
  BY <1>1 DEF IInv, RequestsValid, ValidRequest
<1>3. Calm'
  BY <1>1 DEF IInv, Calm, Stop, Begin, kept, Refreshed, Active
<1> QED BY <1>1, <1>2, <1>3, StopStep DEF IInv, TypeOK

LEMMA CrashStep == IInv /\ Crash => IInv'
<1> SUFFICES ASSUME IInv, Crash PROVE IInv'
  OBVIOUS
<1>1. trouble' \in 0..MaxTrouble /\ trouble' # 0
  BY FormAssumption DEF Crash, Disturb, IInv, TypeOK
<1>2. \A r \in late' : r \in late \/ (r = Request /\ ValidRequest(Request))
  BY Stops, Requests DEF Crash, IInv
<1>3. RequestsValid'
  BY <1>2 DEF IInv, RequestsValid, ValidRequest
<1> QED BY <1>1, <1>3, StopStep DEF IInv, Calm, Crash

LEMMA ImportStep == IInv /\ Import => IInv'
<1> SUFFICES ASSUME IInv, Import PROVE IInv'
  OBVIOUS
<1>1. PICK i \in Ids : Active(i) /\ \E v \in Views(i) : Supported(v) /\ state' = Model(i, v)
  BY DEF Import
<1>2. /\ forms[i].values \in Structures /\ Supported(forms[i].values)
      /\ state' = [id |-> i, values |-> forms[i].values]
  BY <1>1, ViewIsForm DEF Active, Model, IInv, Versions
<1>3. forms[i].values \in Managed
  BY <1>2 DEF Supported, Structures, Managed
<1>4. state' \in Models
  BY <1>2, <1>3 DEF Models
<1>5. state' # None
  BY <1>4, FormAssumption
<1>6. /\ phase = "idle" /\ state = None /\ pc = "done"
      /\ UNCHANGED <<forms, late, config, tainted, phase, op, pc, count, failed, quiet, trouble>>
  BY DEF Import, portal, handler, IInv, Standing
<1>7. TypeOK'
  BY <1>4, <1>5, <1>6 DEF IInv, TypeOK
<1>8. RequestsValid' /\ Standing' /\ InSync'
  BY <1>6 DEF IInv, RequestsValid, ValidRequest, Standing, InSync
<1>9. Calm'
  BY <1>1, <1>2, <1>5, <1>6 DEF IInv, Calm, Refreshed, Active
<1> QED BY <1>7, <1>8, <1>9 DEF IInv

----------------------------------------------------------------------------
(* Everybody else.                                                         *)

\* Steps that change forms while nobody watches: what matters is that they
\* are typed, and that either the step is counted and the run not quiet, or
\* every known form that changes was dead already.
LEMMA ForeignStep == IInv /\ Foreign => IInv'
<1> SUFFICES ASSUME IInv, Foreign PROVE IInv'
  OBVIOUS
<1>1. /\ trouble' \in 0..MaxTrouble /\ trouble' # 0
      /\ quiet' = (phase = "idle")
      /\ UNCHANGED <<late, config, state, tainted, phase, op, pc, count, failed>>
  BY FormAssumption DEF Foreign, Disturb, IInv, TypeOK, kept, handler
<1>2. PICK i \in Ids :
        \/ /\ i \in Free
           /\ \E c \in Configs \ {None} : forms' = [forms EXCEPT ![i] = [values |-> c, archived |-> FALSE]]
        \/ /\ Active(i)
           /\ \/ \E s \in Subtrees, t \in Texts \cup {Alien} : forms' = [forms EXCEPT ![i].values[s] = t]
              \/ forms' = [forms EXCEPT ![i].archived = TRUE]
  BY DEF Foreign
<1>3. \E v \in Versions : forms' = [forms EXCEPT ![i] = v]
  <2>1. ASSUME NEW c \in Configs \ {None} PROVE [values |-> c, archived |-> FALSE] \in Versions
    BY <2>1, FormAssumption DEF Versions, Managed, Structures
  <2>2. CASE Active(i)
    <3>1. forms[i] \in Versions
      BY <2>2 DEF IInv, TypeOK, Active
    <3>2. [forms[i] EXCEPT !.archived = TRUE] \in Versions
      BY <3>1 DEF Versions
    <3>3. ASSUME NEW s \in Subtrees, NEW t \in Texts \cup {Alien}
          PROVE  [forms[i] EXCEPT !.values[s] = t] \in Versions
      <4>1. [forms[i].values EXCEPT ![s] = t] \in Structures
        BY <3>1 DEF Versions, Structures
      <4> QED BY <3>1, <4>1 DEF Versions
    <3>4. ASSUME NEW s \in Subtrees, NEW t \in Texts \cup {Alien},
                 forms' = [forms EXCEPT ![i].values[s] = t]
          PROVE  forms' = [forms EXCEPT ![i] = [forms[i] EXCEPT !.values[s] = t]]
      BY <3>4 DEF IInv, TypeOK
    <3>5. forms' = [forms EXCEPT ![i].archived = TRUE]
            => forms' = [forms EXCEPT ![i] = [forms[i] EXCEPT !.archived = TRUE]]
      BY DEF IInv, TypeOK
    <3> QED BY <1>2, <2>1, <2>2, <3>2, <3>3, <3>4, <3>5 DEF Free
  <2>3. CASE ~Active(i)
    BY <1>2, <2>1, <2>3
  <2> QED BY <2>2, <2>3
<1>4. TypeOK'
  <2>1. quiet' \in BOOLEAN
    BY <1>1
  <2>2. forms' \in [Ids -> Versions \cup {None}]
    BY <1>3 DEF IInv, TypeOK
  <2> QED BY <1>1, <2>1, <2>2 DEF IInv, TypeOK
<1>5. RequestsValid' /\ InSync' /\ Calm'
  BY <1>1 DEF IInv, RequestsValid, ValidRequest, InSync, Calm
<1>6. Standing'
  <2>1. ASSUME pc = "archived" PROVE ~Active(state.id)'
    <3>1. state # None /\ ~Active(state.id)
      BY <2>1 DEF IInv, Standing
    <3>2. state.id # i
      BY <1>2, <3>1 DEF Free, Known
    <3> QED BY <1>1, <1>3, <3>1, <3>2 DEF Active, IInv, TypeOK
  <2> QED BY <1>1, <2>1 DEF IInv, Standing
<1> QED BY <1>4, <1>5, <1>6 DEF IInv

LEMMA PurgeStep == IInv /\ Purge => IInv'
<1> SUFFICES ASSUME IInv, Purge PROVE IInv'
  OBVIOUS
<1>1. UNCHANGED <<late, config, state, tainted, phase, op, pc, count, failed, quiet, trouble>>
  BY DEF Purge, kept, handler
<1>2. PICK i \in Ids : forms[i] # None /\ forms[i].archived /\ forms' = [forms EXCEPT ![i] = None]
  BY DEF Purge
<1>3. TypeOK'
  BY <1>1, <1>2 DEF IInv, TypeOK
<1>4. \A j \in Ids : (Active(j)' <=> Active(j)) /\ (Active(j) => forms'[j] = forms[j])
  BY <1>2 DEF Active, IInv, TypeOK
<1>5. RequestsValid'
  BY <1>1 DEF IInv, RequestsValid, ValidRequest
<1>6. state # None => /\ state.id \in Ids /\ (Refreshed <=> Refreshed')
                      /\ (Active(state.id)' <=> Active(state.id))
                      /\ (Active(state.id) => forms'[state.id] = forms[state.id])
  BY <1>1, <1>4 DEF Refreshed, IInv, TypeOK, Models
<1>7. Standing'
  BY <1>1, <1>6 DEF IInv, Standing
<1>8. InSync'
  <2>1. ASSUME NEW r \in late, Harmless(r) PROVE Harmless(r)'
    BY <1>1, <1>4, <2>1 DEF Harmless, IInv, RequestsValid, ValidRequest
  <2>2. Fulfilled => Fulfilled'
    BY <1>1, <1>6 DEF Fulfilled
  <2> QED BY <1>1, <1>6, <2>1, <2>2 DEF IInv, InSync
<1>9. Calm'
  BY <1>1, <1>4, <1>6 DEF IInv, Calm
<1> QED BY <1>3, <1>5, <1>7, <1>8, <1>9 DEF IInv

LEMMA ArriveLateStep == IInv /\ ArriveLate => IInv'
<1> SUFFICES ASSUME IInv, ArriveLate PROVE IInv'
  OBVIOUS
<1>1. UNCHANGED <<config, state, tainted, phase, op, pc, count, failed, quiet, trouble>>
  BY DEF ArriveLate, kept, handler
<1>2. PICK r \in late : late' = late \ {r} /\ (TakeEffect(r) \/ UNCHANGED forms)
  BY DEF ArriveLate
<1>3. ValidRequest(r)
  BY DEF IInv, RequestsValid
<1>4. /\ forms' \in [Ids -> Versions \cup {None}]
      /\ \A j \in Ids : Known(j) /\ ~Active(j) => forms'[j] = forms[j]
  BY <1>2, <1>3, TakenEffect DEF IInv, TypeOK
<1>5. TypeOK' /\ RequestsValid'
  BY <1>1, <1>2, <1>4 DEF IInv, TypeOK, RequestsValid, ValidRequest
<1>6. Standing'
  BY <1>1, <1>4 DEF IInv, Standing, Known, Active, TypeOK, Models
<1>7. trouble # 0
  BY <1>2 DEF IInv, Calm
<1>8. InSync'
  <2>1. SUFFICES ASSUME phase # "idle", quiet, ~failed PROVE InSync'
    BY <1>1 DEF InSync
  <2>2. Harmless(r)
    BY <2>1 DEF IInv, InSync
  <2>3. ASSUME NEW q \in late, Harmless(q) PROVE Harmless(q)'
    <3>1. q.kind = "archive" => q.id \in Ids /\ Known(q.id)
      BY DEF IInv, RequestsValid, ValidRequest, Known
    <3> QED BY <1>1, <1>4, <2>3, <3>1 DEF Harmless, Active
  <2>4. CASE phase = "refresh"
    <3>1. r.kind = "archive" /\ ~Active(r.id)
      BY <2>2, <2>4 DEF Harmless, IInv, Standing
    <3>2. UNCHANGED forms
      BY <1>2, <3>1 DEF TakeEffect, Accepts
    <3> QED BY <1>1, <1>2, <2>1, <2>3, <2>4, <3>2 DEF IInv, InSync, Refreshed, Active
  <2>5. CASE phase = "apply" /\ pc # "done"
    BY <1>1, <1>2, <2>1, <2>3, <2>5 DEF IInv, InSync
  <2>6. CASE phase = "apply" /\ pc = "done"
    <3>1. IF op = "delete" THEN state = None ELSE Fulfilled
      BY <2>1, <2>6 DEF IInv, InSync
    <3>2. op # "delete" /\ config # None =>
            /\ state # None /\ ~tainted /\ Active(state.id) /\ state.id \in Ids
            /\ forms[state.id].values = config
      BY <3>1 DEF Fulfilled, IInv, TypeOK, Models
    <3>3. ASSUME op # "delete", config # None
          PROVE  Active(state.id)' /\ forms'[state.id].values = config
      <4>1. CASE UNCHANGED forms
        BY <1>1, <3>2, <3>3, <4>1 DEF Active
      <4>2. CASE TakeEffect(r)
        <5>1. PICK i \in Ids, v \in Versions : Took(r, i, v)
          BY <1>3, <4>2, Effect DEF IInv
        <5>2. r.kind = "patch" /\ r.id = state.id /\ \A s \in DOMAIN r.values : r.values[s] = config[s]
          BY <2>2, <3>3, <5>1 DEF Harmless, Took
        <5>3. /\ i = state.id /\ ~v.archived /\ forms' = [forms EXCEPT ![i] = v]
              /\ \A s \in Subtrees : v.values[s] = config[s]
          BY <3>2, <3>3, <5>1, <5>2 DEF Took
        <5>4. config \in Managed /\ v.values \in Structures
          BY <3>3, FormAssumption DEF IInv, TypeOK, Versions
        <5>5. v.values = config
          BY <5>3, <5>4 DEF Managed, Structures
        <5>6. v # None
          BY FormAssumption
        <5> QED BY <1>1, <5>3, <5>5, <5>6 DEF Active, IInv, TypeOK
      <4> QED BY <1>2, <4>1, <4>2
    <3>4. op # "delete" => Fulfilled'
      BY <1>1, <3>1, <3>2, <3>3 DEF Fulfilled
    <3> QED BY <1>1, <1>2, <2>1, <2>3, <2>6, <3>1, <3>4 DEF IInv, InSync
  <2> QED BY <2>1, <2>4, <2>5, <2>6 DEF IInv, TypeOK
<1> QED BY <1>1, <1>5, <1>6, <1>7, <1>8 DEF IInv, Calm

----------------------------------------------------------------------------
(* The theorems.                                                           *)

LEMMA Initially == Init => IInv
<1> SUFFICES ASSUME Init PROVE IInv
  OBVIOUS
<1>1. TypeOK
  <2>1. {failed, quiet} \subseteq BOOLEAN /\ tainted \in BOOLEAN /\ ~tainted
    BY DEF Init
  <2> QED BY <2>1, FormAssumption DEF Init, TypeOK
<1> QED BY <1>1 DEF Init, IInv, RequestsValid, Standing, InSync, Calm, Active

LEMMA Stutters == IInv /\ UNCHANGED vars => IInv'
<1> SUFFICES ASSUME IInv, UNCHANGED vars PROVE IInv'
  OBVIOUS
<1>1. UNCHANGED <<forms, late, config, state, tainted, phase, op, pc, count, failed, quiet, trouble>>
  BY DEF vars, portal, kept, handler
<1> QED BY <1>1 DEF IInv, TypeOK, RequestsValid, ValidRequest, Standing, InSync, Harmless,
       Fulfilled, Refreshed, Calm, Active

LEMMA Inductive == IInv /\ [Next]_vars => IInv'
<1>1. IInv /\ Reads => IInv'
  BY ReadStep, VerifyStep, PreflightStep, ArchivedStep, AwaitTerminalStep DEF Reads, Unread
<1>2. IInv /\ Handle => IInv'
  BY <1>1, ReadFailsStep, CreateStep, WriteStep, WriteFailsStep DEF Handle
<1> QED BY <1>2, StartRunStep, PlanStep, ReplaceStep, EndRunStep, CrashStep, ImportStep,
       ForeignStep, PurgeStep, ArriveLateStep, Stutters DEF Next

\* The inductive invariant of the form resource.
THEOREM Invariance == Spec => []IInv
BY Initially, Inductive, PTL DEF Spec

\* Every variable stays in its domain: state never holds a structure outside
\* the contract, nor the sentinel (formModelFromDefinition).
THEOREM TypeCorrect == Spec => []TypeOK
<1>1. IInv => TypeOK
  BY DEF IInv
<1> QED BY <1>1, Invariance, PTL

\* An apply without an error has left the form as asked for, whatever became
\* of its requests (Create, Update and Delete of form_definition_resource.go).
THEOREM SuccessVerified == Spec => []SuccessIsVerified
<1>1. IInv => SuccessIsVerified
  BY DEF IInv, InSync, Fulfilled, SuccessIsVerified, Replacing
<1> QED BY <1>1, Invariance, PTL

\* As long as nothing goes wrong no run fails: neither a read that has to
\* undo the sentinel nor the wait for an archival gives up.
THEOREM UndisturbedSucceeds == Spec => []UndisturbedRunsSucceed
<1>1. IInv => UndisturbedRunsSucceed
  BY DEF IInv, Calm, UndisturbedRunsSucceed
<1> QED BY <1>1, Invariance, PTL

\* A handler changes no form but the one in state, and of that one only what
\* the author changed; state lets go only of what is gone for good.
THEOREM OnlyOwnSubtrees == Spec => OwnSubtreesOnly
<1> DEFINE Step ==
      /\ pc' # pc => \A i \in Ids : forms'[i] # forms[i] /\ forms[i] # None /\ Active(i) =>
           /\ state # None /\ state.id = i
           /\ \A s \in Subtrees : forms'[i].values[s] # forms[i].values[s] =>
                state.values[s] # config[s] /\ forms'[i].values[s] = config[s]
      /\ state # None /\ state' = None => ~Active(state.id)
<1>1. IInv /\ [Next]_vars => [Step]_vars
  <2> SUFFICES ASSUME IInv, Next PROVE Step
    OBVIOUS
  <2> DEFINE Lost == state # None /\ state' = None
  <2>1. CASE UNCHANGED forms /\ ~Lost
    BY <2>1
  <2>2. CASE Reads
    <3>1. ASSUME NEW v \in Structures, state # None, Record(v) PROVE ~Lost
      <4>1. CASE Supported(v)
        <5>1. v \in Managed
          BY <4>1 DEF Supported, Structures, Managed
        <5>2. state' = [id |-> state.id, values |-> v] /\ state.id \in Ids
          BY <3>1, <4>1 DEF Record, Model, IInv, TypeOK, Models
        <5> QED BY <5>1, <5>2, FormAssumption DEF Models
      <4> QED BY <3>1, <4>1 DEF Record, Fail, kept
    <3>2. state # None /\ state.id \in Ids
      BY <2>2 DEF IInv, Standing, TypeOK, Models, Reads, Read, Verify, Preflight, Archived, AwaitTerminal
    <3>3. Active(state.id) =>
            forms[state.id].values \in Structures /\ Views(state.id) = {forms[state.id].values}
      BY <3>2, ViewIsForm DEF IInv, Active, Versions
    <3>4. CASE Read \/ Verify
      BY <3>1, <3>2, <3>3, <3>4, <2>1, <2>2
         DEF Read, Verify, Reads, Continue, Fail, kept, portal
    <3>5. CASE Preflight \/ AwaitTerminal
      BY <3>5, <2>1, <2>2 DEF Preflight, AwaitTerminal, Reads, Continue, Fail, kept, portal
    <3>6. CASE Archived
      BY <2>2, <3>6 DEF Archived, Reads, portal, IInv, Standing
    <3> QED BY <2>2, <3>4, <3>5, <3>6 DEF Reads
  <2>3. CASE ReadFails
    BY <2>1, <2>3 DEF ReadFails, Fail, kept, portal
  <2>4. CASE Create
    <3>1. state = None /\ ValidRequest(Request) /\ Request.kind = "create"
      BY <2>4, Requests DEF IInv, Standing, Create
    <3>2. CASE TakeEffect(Request)
      <4>1. PICK i \in Ids, v \in Versions : Took(Request, i, v)
        BY <3>1, <3>2, Effect DEF IInv
      <4>2. \A j \in Ids : forms'[j] # forms[j] => ~Active(j)
        BY <3>1, <4>1 DEF Took, Free, IInv, TypeOK
      <4> QED BY <3>1, <4>2
    <3>3. CASE UNCHANGED forms
      BY <3>1, <3>3
    <3> QED BY <2>4, <3>2, <3>3 DEF Create, portal
  <2>5. CASE Write \/ WriteFails
    <3>1. /\ pc \in {"patch", "archive"} /\ ~Lost /\ state # None
          /\ TakeEffect(Request) \/ UNCHANGED forms
      BY <2>5, Stops DEF Write, WriteFails, Continue, kept, portal, IInv, Standing
    <3>2. CASE TakeEffect(Request)
      <4>1. ValidRequest(Request)
        BY <3>1, Requests DEF IInv
      <4>2. PICK i \in Ids, v \in Versions : Took(Request, i, v)
        BY <4>1, <3>2, Effect DEF IInv
      <4>3. i = state.id /\ \A j \in Ids : forms'[j] # forms[j] => j = i
        BY <3>1, <4>2, Requests DEF Took, IInv, TypeOK
      <4>4. CASE pc = "patch"
        <5>1. \A s \in Subtrees : v.values[s] = IF s \in Changed THEN config[s] ELSE forms[i].values[s]
          BY <4>2, <4>4, Requests DEF Took, IInv
        <5>2. forms'[i] = v
          BY <4>2 DEF Took, IInv, TypeOK
        <5> QED BY <3>1, <4>3, <5>1, <5>2 DEF Changed
      <4>5. CASE pc = "archive"
        <5>1. Active(i) /\ forms[i] \in Versions
          BY <4>2, <4>5, Requests DEF Took, IInv, TypeOK, Active
        <5>2. Result(Request) = [forms[i] EXCEPT !.archived = TRUE]
          BY <4>3, <4>5, Requests DEF Result, IInv
        <5>3. forms'[i] = Result(Request)
          BY <3>2, <4>3, <4>5, Requests DEF TakeEffect, IInv, TypeOK
        <5>4. forms'[i].values = forms[i].values
          BY <5>1, <5>2, <5>3 DEF Versions
        <5> QED BY <3>1, <4>3, <5>4
      <4> QED BY <3>1, <4>4, <4>5
    <3> QED BY <3>1, <3>2, <2>1
  <2>6. CASE StartRun \/ Plan \/ Replace \/ EndRun \/ Crash
    BY <2>1, <2>6 DEF StartRun, Plan, Replace, EndRun, Crash, Stop, portal, kept
  <2>7. CASE Import
    BY <2>1, <2>7 DEF Import, portal
  <2>8. CASE Foreign \/ Purge \/ ArriveLate
    BY <2>8 DEF Foreign, Purge, ArriveLate, kept, handler
  <2> QED BY <2>2, <2>3, <2>4, <2>5, <2>6, <2>7, <2>8 DEF Next, Handle
<1> QED BY <1>1, Invariance, PTL DEF OwnSubtreesOnly, Spec
=============================================================================
