------------------------- MODULE PropertyGroupsProofs -------------------------
(***************************************************************************)
(* Proofs about PropertyGroups.tla, for any set of groups, configurations, *)
(* orders and troubles, with the handlers of all groups interleaving.      *)
(*                                                                         *)
(* The invariant says what a refresh that nobody disturbed has found so    *)
(* far, what an apply that nobody disturbed has reached so far, and what   *)
(* an empty plan stands for.                                               *)
(***************************************************************************)
EXTENDS PropertyGroups, WellFoundedInduction, TLAPS

\* A create or an update that is on its way has something to write.
RequestsCarry == \A r \in late : r.kind # "delete" => r.model # None

\* Which handler stands where.
Places ==
  \A n \in Names :
    /\ phase = "idle" => pc[n] = "done"
    /\ phase = "refresh" => op[n] \in {"none", "read"}
    /\ phase = "apply" => op[n] # "read"
    /\ pc[n] # "done" => op[n] # "none"
    /\ pc[n] = "write" => op[n] \in {"create", "update", "delete"}
    /\ pc[n] = "recover" => op[n] # "read"
    /\ pc[n] = "list" => hand[n] # None /\ op[n] # "delete"
    /\ pc[n] \in {"get", "list"} /\ op[n] = "read" => state[n] # None
    /\ op[n] \in {"create", "update"} => config[n] # None

\* The group in the portal is what the model m says of it.
Fits(n, m) == /\ MatchesPlan(remote[n], m)
              /\ m.order = -1 => remote[n].order = LastOrder(Names)

\* What an undisturbed refresh has found.
RefreshTells ==
  phase = "refresh" /\ quiet =>
    \A n \in Names :
      /\ pc[n] = "list" => hand[n] = remote[n]
      /\ ~failed /\ pc[n] = "done" /\ state[n] # None => Fits(n, state[n])

\* What an undisturbed apply has reached.
ApplyTells ==
  phase = "apply" /\ quiet /\ ~failed =>
    \A n \in Names :
      /\ pc[n] = "list" => MatchesPlan(remote[n], config[n])
      /\ pc[n] = "done" =>
           CASE op[n] = "delete" -> state[n] = None /\ remote[n] = None
             [] op[n] = "none" /\ config[n] = None -> state[n] = None
             [] OTHER -> MatchesPlan(remote[n], config[n])

IInv == /\ TypeOK /\ RequestsCarry /\ Places
        /\ RefreshTells /\ ApplyTells /\ EmptyPlanHidesNoDrift

----------------------------------------------------------------------------
(* The operators.                                                          *)

\* Orders are bounded, so that a set of them has a greatest element.
LEMMA GreatestExists ==
  ASSUME NEW M \in Nat, NEW S \in SUBSET (-1..M), S # {}
  PROVE  Max(S) \in S /\ \A x \in S : x <= Max(S)
<1> DEFINE T == {M - x : x \in S}
<1>1. T \subseteq Nat /\ T # {}
  <2>1. \A x \in S : M - x \in Nat
    OBVIOUS
  <2>2. PICK x \in S : TRUE
    OBVIOUS
  <2>3. M - x \in T
    OBVIOUS
  <2> QED BY <2>1, <2>3
<1>2. PICK t \in T : \A u \in T : ~(<<u, t>> \in OpToRel(<, Nat))
  BY <1>1, WFMin, NatLessThanWellFounded
<1>3. \A u \in T : ~(u < t)
  BY <1>1, <1>2 DEF OpToRel
<1>4. PICK x \in S : t = M - x
  BY <1>2
<1>5. \A y \in S : x >= y
  <2> TAKE y \in S
  <2>1. ~(M - y < t)
    BY <1>3
  <2> QED BY <2>1, <1>4
<1> QED BY <1>5 DEF Max

LEMMA LeastOfTwo ==
  ASSUME NEW a \in Int, NEW b \in Int
  PROVE  Min({a, b}) = IF a <= b THEN a ELSE b
BY DEF Min

\* The last order of the portal, and the order a new group is appended with.
LEMMA LastIsGreatest ==
  ASSUME TypeOK, NEW ns \in SUBSET Names
  PROVE  /\ LastOrder(ns) \in -1..MaxOrder
         /\ \A n \in ns : remote[n] # None => remote[n].order <= LastOrder(ns)
<1> DEFINE S == {-1} \cup {remote[n].order : n \in ns \cap Active}
<1>1. S \in SUBSET (-1..MaxOrder) /\ S # {}
  BY GroupAssumption DEF TypeOK, Active, Groups, Orders
<1>2. Max(S) \in S /\ \A x \in S : x <= Max(S)
  BY <1>1, GreatestExists, GroupAssumption
<1>3. LastOrder(ns) = Max(S)
  BY DEF LastOrder
<1> HIDE DEF S
<1>4. LastOrder(ns) \in -1..MaxOrder
  BY <1>1, <1>2, <1>3
<1>5. \A n \in ns : remote[n] # None => remote[n].order \in S
  BY DEF S, Active
<1> QED BY <1>2, <1>3, <1>4, <1>5

LEMMA WrittenIsGroup ==
  ASSUME TypeOK, NEW n \in Names, NEW m \in Models
  PROVE  Written(n, m) \in Groups /\ MatchesPlan(Written(n, m), m)
<1>1. LastOrder(Names \ {n}) \in -1..MaxOrder /\ MaxOrder \in Nat
  BY LastIsGreatest, GroupAssumption
<1>2. DisplayOrder(n, m.order) \in Orders
  <2> DEFINE next == LastOrder(Names \ {n}) + 1
  <2>1. next \in Nat
    BY <1>1
  <2> HIDE DEF next
  <2>2. Min({next, MaxOrder}) \in 0..MaxOrder
    BY <1>1, <2>1, LeastOfTwo
  <2>3. m.order \in Orders \cup {-1}
    BY DEF Models
  <2> QED BY <2>2, <2>3 DEF DisplayOrder, Orders, next
<1>3. Written(n, m) \in Groups
  BY <1>2 DEF Written, Groups, Models
<1>4. Written(n, m) # None
  BY <1>3, GroupAssumption DEF Groups, Models
<1>5. m.order \in {-1, DisplayOrder(n, m.order)}
  BY DEF DisplayOrder
<1> QED BY <1>3, <1>4, <1>5 DEF MatchesPlan, Written

\* A request that is carried out changes one group, and types are kept.
LEMMA EffectIsLocal ==
  ASSUME TypeOK, NEW n \in Names, NEW k, NEW m \in Models \cup {None},
         k # "delete" => m # None
  PROVE  /\ Effect(k, n, m) \in [Names -> Groups \cup {None}]
         /\ \A j \in Names \ {n} : Effect(k, n, m)[j] = remote[j]
BY WrittenIsGroup DEF Effect, TypeOK

\* What is read is never mistaken for the absence of a group.
LEMMA ModelIsModel ==
  ASSUME NEW g \in Groups
  PROVE  /\ Model(g) \in Models /\ Model(g) # None
         /\ [Model(g) EXCEPT !.order = -1] \in Models
         /\ [Model(g) EXCEPT !.order = -1] # None
<1>1. Model(g) \in Models /\ [Model(g) EXCEPT !.order = -1] \in Models
  BY DEF Model, Models, Groups
<1> QED BY <1>1, GroupAssumption

----------------------------------------------------------------------------
(* The handlers.                                                           *)

\* A handler that ends keeps types.
LEMMA EndingsAreTyped ==
  ASSUME TypeOK, NEW n \in Names
  PROVE  /\ \A l \in {"done", "write", "get", "recover", "list"} :
              Goto(n, l) => pc' \in [Names -> {"done", "write", "get", "recover", "list"}]
                            /\ pc'[n] = l /\ \A j \in Names \ {n} : pc'[j] = pc[j]
         /\ Forget(n) => /\ state' \in [Names -> Models \cup {None}]
                         /\ tainted' \subseteq {j \in Names : state'[j] # None}
                         /\ state'[n] = None /\ \A j \in Names \ {n} : state'[j] = state[j]
         /\ \A m \in Models : Record(n, m) =>
              /\ state' \in [Names -> Models \cup {None}]
              /\ tainted' \subseteq {j \in Names : state'[j] # None}
              /\ failed' \in BOOLEAN
              /\ state'[n] = m /\ \A j \in Names \ {n} : state'[j] = state[j]
              /\ pc' \in [Names -> {"done", "write", "get", "recover", "list"}]
              /\ pc'[n] = "done" /\ \A j \in Names \ {n} : pc'[j] = pc[j]
              /\ ~failed' => ~failed
<1>1. \A l \in {"done", "write", "get", "recover", "list"} :
        Goto(n, l) => pc' \in [Names -> {"done", "write", "get", "recover", "list"}]
                      /\ pc'[n] = l /\ \A j \in Names \ {n} : pc'[j] = pc[j]
  BY DEF Goto, TypeOK
<1>2. Forget(n) => /\ state' \in [Names -> Models \cup {None}]
                   /\ tainted' \subseteq {j \in Names : state'[j] # None}
                   /\ state'[n] = None /\ \A j \in Names \ {n} : state'[j] = state[j]
  BY DEF Forget, TypeOK
<1>3. ASSUME NEW m \in Models, Record(n, m)
      PROVE  /\ state' \in [Names -> Models \cup {None}]
             /\ tainted' \subseteq {j \in Names : state'[j] # None}
             /\ failed' \in BOOLEAN
             /\ state'[n] = m /\ \A j \in Names \ {n} : state'[j] = state[j]
             /\ ~failed' => ~failed
  <2>1. /\ state' \in [Names -> Models \cup {None}]
        /\ state'[n] = m /\ \A j \in Names \ {n} : state'[j] = state[j]
    BY <1>3 DEF Record, TypeOK
  <2>2. m # None
    BY GroupAssumption
  <2>3. tainted' \subseteq tainted \cup {n} /\ failed' \in BOOLEAN /\ (~failed' => ~failed)
    BY <1>3 DEF Record, TypeOK
  <2> QED BY <2>1, <2>2, <2>3 DEF TypeOK
<1> QED BY <1>1, <1>2, <1>3 DEF Record

LEMMA AnsweredStep == ASSUME IInv, NEW n \in Names, Answered(n) PROVE IInv'
<1>1. /\ pc[n] = "write" /\ op[n] \in {"create", "update", "delete"} /\ phase = "apply"
      /\ config[n] \in Models \cup {None} /\ (op[n] # "delete" => config[n] # None)
      /\ UNCHANGED <<late, config, phase, op, hand, quiet, settled, trouble>>
  BY GroupAssumption DEF IInv, Places, TypeOK, Answered, history
<1>2. CASE /\ Accepts(op[n], n) /\ remote' = Effect(op[n], n, config[n])
           /\ Goto(n, "get") /\ UNCHANGED <<state, tainted, failed>>
  <2>1. /\ remote' \in [Names -> Groups \cup {None}]
        /\ \A j \in Names \ {n} : remote'[j] = remote[j]
    BY <1>1, <1>2, EffectIsLocal DEF IInv
  <2>2. pc' \in [Names -> {"done", "write", "get", "recover", "list"}]
        /\ pc'[n] = "get" /\ \A j \in Names \ {n} : pc'[j] = pc[j]
    BY <1>2, EndingsAreTyped DEF IInv
  <2>3. TypeOK' /\ RequestsCarry' /\ Places'
    BY <1>1, <1>2, <2>1, <2>2 DEF IInv, TypeOK, RequestsCarry, Places
  <2>4. RefreshTells' /\ ApplyTells'
    BY <1>1, <1>2, <2>1, <2>2 DEF IInv, RefreshTells, ApplyTells, MatchesPlan
  <2>5. EmptyPlanHidesNoDrift'
    BY <1>1 DEF EmptyPlanHidesNoDrift
  <2> QED BY <2>3, <2>4, <2>5 DEF IInv
<1>3. CASE ~Accepts(op[n], n) /\ op[n] # "delete" /\ UNCHANGED <<remote, state, tainted>>
           /\ (Fail(n) \/ (Goto(n, "recover") /\ UNCHANGED failed))
  <2>1. /\ pc' \in [Names -> {"done", "write", "get", "recover", "list"}]
        /\ pc'[n] \in {"done", "recover"} /\ \A j \in Names \ {n} : pc'[j] = pc[j]
        /\ failed' \in BOOLEAN /\ (~failed' => ~failed /\ pc'[n] = "recover")
    <3>1. CASE Fail(n)
      BY <3>1, EndingsAreTyped DEF IInv, Fail
    <3>2. CASE Goto(n, "recover") /\ UNCHANGED failed
      BY <3>2, EndingsAreTyped DEF IInv, TypeOK
    <3> QED BY <1>3, <3>1, <3>2
  <2>2. TypeOK' /\ RequestsCarry' /\ Places'
    BY <1>1, <1>3, <2>1 DEF IInv, TypeOK, RequestsCarry, Places
  <2>3. RefreshTells' /\ ApplyTells' /\ EmptyPlanHidesNoDrift'
    BY <1>1, <1>3, <2>1 DEF IInv, RefreshTells, ApplyTells, MatchesPlan, EmptyPlanHidesNoDrift
  <2> QED BY <2>2, <2>3 DEF IInv
<1>4. CASE ~Accepts(op[n], n) /\ op[n] = "delete" /\ UNCHANGED <<remote, failed>>
           /\ Forget(n) /\ Goto(n, "done")
  <2>1. /\ pc' \in [Names -> {"done", "write", "get", "recover", "list"}]
        /\ pc'[n] = "done" /\ \A j \in Names \ {n} : pc'[j] = pc[j]
        /\ state' \in [Names -> Models \cup {None}]
        /\ tainted' \subseteq {j \in Names : state'[j] # None}
        /\ state'[n] = None /\ \A j \in Names \ {n} : state'[j] = state[j]
        /\ remote[n] = None
    BY <1>4, EndingsAreTyped DEF IInv, Accepts
  <2>2. TypeOK' /\ RequestsCarry' /\ Places'
    BY <1>1, <1>4, <2>1 DEF IInv, TypeOK, RequestsCarry, Places
  <2>3. RefreshTells' /\ ApplyTells' /\ EmptyPlanHidesNoDrift'
    BY <1>1, <1>4, <2>1 DEF IInv, RefreshTells, ApplyTells, MatchesPlan, EmptyPlanHidesNoDrift
  <2> QED BY <2>2, <2>3 DEF IInv
<1> QED BY <1>1, <1>2, <1>3, <1>4 DEF Answered

LEMMA FaultedStep ==
  ASSUME IInv, NEW n \in Names, Faulted(n) \/ Unanswered(n) PROVE IInv'
<1>1. /\ pc[n] = "write" /\ op[n] \in {"create", "update", "delete"} /\ phase = "apply"
      /\ config[n] \in Models \cup {None} /\ (op[n] # "delete" => config[n] # None)
      /\ UNCHANGED <<config, phase, op, hand, quiet, settled, state, tainted>>
      /\ trouble' = trouble + 1 /\ trouble < MaxTrouble
  BY GroupAssumption DEF IInv, Places, TypeOK, Faulted, Unanswered, files, Disturb
<1>2. remote' = remote \/ remote' = Effect(op[n], n, config[n])
  BY DEF Faulted, Unanswered, portal
<1>3. /\ remote' \in [Names -> Groups \cup {None}]
      /\ \A j \in Names \ {n} : remote'[j] = remote[j]
  BY <1>1, <1>2, EffectIsLocal DEF IInv, TypeOK
<1>4. /\ pc' \in [Names -> {"done", "write", "get", "recover", "list"}]
      /\ pc'[n] \in {"done", "recover"} /\ \A j \in Names \ {n} : pc'[j] = pc[j]
      /\ failed' \in BOOLEAN /\ (~failed' => ~failed /\ pc'[n] = "recover")
  BY EndingsAreTyped DEF IInv, Faulted, Unanswered, Fail, TypeOK
<1>5. late' = late \/ late' = late \cup {Request(n)}
  BY DEF Faulted, Unanswered, portal
<1>6. Request(n) \in Requests /\ (Request(n).kind # "delete" => Request(n).model # None)
  BY <1>1 DEF Request, Requests
<1>7. trouble' \in 0..MaxTrouble
  BY <1>1, GroupAssumption DEF IInv, TypeOK
<1>8. TypeOK' /\ RequestsCarry'
  BY <1>1, <1>3, <1>4, <1>5, <1>6, <1>7 DEF IInv, TypeOK, RequestsCarry
<1>9. Places' /\ RefreshTells' /\ ApplyTells' /\ EmptyPlanHidesNoDrift'
  BY <1>1, <1>3, <1>4 DEF IInv, Places, RefreshTells, ApplyTells, MatchesPlan, EmptyPlanHidesNoDrift
<1> QED BY <1>8, <1>9 DEF IInv

\* What Observe does, when the group is there and its model is no absence.
LEMMA ObserveStep ==
  ASSUME IInv, NEW n \in Names, remote[n] # None, Observe(n),
         op[n] = "read" => state[n] # None /\ pc[n] = "get",
         op[n] # "read" => op[n] \in {"create", "update"} /\ MatchesPlan(remote[n], config[n]),
         pc[n] # "done", UNCHANGED <<remote, late, config, phase, op, quiet, settled, trouble>>
  PROVE  IInv'
<1>1. remote[n] \in Groups /\ Model(remote[n]) \in Models /\ Model(remote[n]) # None
  BY ModelIsModel DEF IInv, TypeOK
<1>2. \A j \in Names : Fits(j, state[j])' <=> (MatchesPlan(remote[j], state'[j])
                        /\ (state'[j].order = -1 => remote[j].order = LastOrder(Names)))
  BY DEF Fits, MatchesPlan, LastOrder, Active
<1>3. CASE Appended(n)
  <2>1. /\ hand' \in [Names -> Groups \cup {None}]
        /\ hand'[n] = remote[n] /\ \A j \in Names \ {n} : hand'[j] = hand[j]
        /\ pc' \in [Names -> {"done", "write", "get", "recover", "list"}]
        /\ pc'[n] = "list" /\ \A j \in Names \ {n} : pc'[j] = pc[j]
        /\ UNCHANGED <<state, tainted, failed>>
    BY <1>1, <1>3, EndingsAreTyped DEF IInv, TypeOK, Observe
  <2>2. TypeOK' /\ RequestsCarry' /\ Places'
    BY <2>1 DEF IInv, TypeOK, RequestsCarry, Places
  <2>3. RefreshTells'
    BY <1>2, <2>1 DEF IInv, RefreshTells, Fits
  <2>4. ApplyTells'
    BY <2>1 DEF IInv, ApplyTells, MatchesPlan, Places
  <2>5. EmptyPlanHidesNoDrift'
    BY <2>1 DEF IInv, EmptyPlanHidesNoDrift, Places
  <2> QED BY <2>2, <2>3, <2>4, <2>5 DEF IInv
<1>4. CASE ~Appended(n)
  <2>1. Record(n, Model(remote[n])) /\ UNCHANGED hand
    BY <1>4 DEF Observe
  <2>2. /\ state' \in [Names -> Models \cup {None}]
        /\ tainted' \subseteq {j \in Names : state'[j] # None}
        /\ failed' \in BOOLEAN
        /\ state'[n] = Model(remote[n]) /\ \A j \in Names \ {n} : state'[j] = state[j]
        /\ pc' \in [Names -> {"done", "write", "get", "recover", "list"}]
        /\ pc'[n] = "done" /\ \A j \in Names \ {n} : pc'[j] = pc[j]
        /\ ~failed' => ~failed
    BY <1>1, <2>1, EndingsAreTyped DEF IInv
  <2>3. TypeOK' /\ RequestsCarry' /\ Places'
    BY <2>1, <2>2 DEF IInv, TypeOK, RequestsCarry, Places
  <2>4. RefreshTells'
    <3>1. MatchesPlan(remote[n], Model(remote[n])) /\ Model(remote[n]).order # -1
      BY <1>1 DEF MatchesPlan, Model, Groups, Orders
    <3> QED BY <1>2, <2>1, <2>2, <3>1 DEF IInv, RefreshTells, Fits
  <2>5. ApplyTells'
    BY <2>1, <2>2 DEF IInv, ApplyTells, MatchesPlan, Places
  <2>6. EmptyPlanHidesNoDrift'
    BY <2>1, <2>2 DEF IInv, EmptyPlanHidesNoDrift, Places
  <2> QED BY <2>3, <2>4, <2>5, <2>6 DEF IInv
<1> QED BY <1>3, <1>4

LEMMA ReadGetStep == ASSUME IInv, NEW n \in Names, ReadGet(n) PROVE IInv'
<1>1. /\ pc[n] = "get" /\ op[n] = "read" /\ phase # "apply" /\ state[n] # None
      /\ UNCHANGED <<remote, late, config, phase, op, quiet, settled, trouble>>
  BY DEF IInv, Places, ReadGet, portal, history
<1>2. CASE remote[n] # None
  BY <1>1, <1>2, ObserveStep DEF ReadGet
<1>3. CASE remote[n] = None
  <2>1. /\ state' \in [Names -> Models \cup {None}]
        /\ tainted' \subseteq {j \in Names : state'[j] # None}
        /\ state'[n] = None /\ \A j \in Names \ {n} : state'[j] = state[j]
        /\ pc' \in [Names -> {"done", "write", "get", "recover", "list"}]
        /\ pc'[n] = "done" /\ \A j \in Names \ {n} : pc'[j] = pc[j]
        /\ UNCHANGED <<hand, failed>>
    BY <1>3, EndingsAreTyped DEF IInv, ReadGet
  <2>2. TypeOK' /\ RequestsCarry' /\ Places'
    BY <1>1, <2>1 DEF IInv, TypeOK, RequestsCarry, Places
  <2>3. \A j \in Names \ {n} : Fits(j, state[j])' <=> Fits(j, state[j])
    BY <1>1, <2>1 DEF Fits, MatchesPlan, LastOrder, Active
  <2>4. RefreshTells' /\ ApplyTells' /\ EmptyPlanHidesNoDrift'
    BY <1>1, <2>1, <2>3 DEF IInv, RefreshTells, ApplyTells, EmptyPlanHidesNoDrift
  <2> QED BY <2>2, <2>4 DEF IInv
<1> QED BY <1>2, <1>3

\* A handler that fails keeps state and ends the run's claims.
LEMMA FailStep ==
  ASSUME IInv, NEW n \in Names, Fail(n), pc[n] # "done", trouble' \in 0..MaxTrouble,
         UNCHANGED <<remote, late, config, state, tainted, phase, op, hand, quiet, settled>>
  PROVE  IInv'
<1>1. /\ pc' \in [Names -> {"done", "write", "get", "recover", "list"}]
      /\ pc'[n] = "done" /\ \A j \in Names \ {n} : pc'[j] = pc[j]
      /\ failed' /\ failed' \in BOOLEAN
  BY EndingsAreTyped DEF IInv, Fail
<1>2. TypeOK' /\ RequestsCarry' /\ Places'
  BY <1>1 DEF IInv, TypeOK, RequestsCarry, Places
<1>3. RefreshTells' /\ ApplyTells'
  BY <1>1 DEF IInv, RefreshTells, ApplyTells
<1>4. EmptyPlanHidesNoDrift'
  BY DEF IInv, EmptyPlanHidesNoDrift, Places
<1> QED BY <1>2, <1>3, <1>4 DEF IInv

LEMMA VerifyStep == ASSUME IInv, NEW n \in Names, Verify(n) PROVE IInv'
<1>1. /\ pc[n] \in {"get", "recover"} /\ op[n] \in {"create", "update"}
      /\ UNCHANGED <<remote, late, config, phase, op, quiet, settled, trouble>>
  BY DEF Verify, portal, history
<1>2. CASE MatchesPlan(remote[n], config[n])
  BY <1>1, <1>2, ObserveStep DEF Verify, MatchesPlan
<1>3. CASE ~MatchesPlan(remote[n], config[n])
  BY <1>1, <1>3, FailStep DEF Verify, IInv, TypeOK
<1> QED BY <1>2, <1>3

LEMMA VerifyDeleteStep == ASSUME IInv, NEW n \in Names, VerifyDelete(n) PROVE IInv'
<1>1. /\ pc[n] \in {"get", "recover"} /\ op[n] = "delete" /\ phase # "refresh"
      /\ UNCHANGED <<remote, late, config, phase, op, hand, quiet, settled, trouble>>
  BY DEF IInv, Places, VerifyDelete, portal, history
<1>2. CASE Fail(n) /\ UNCHANGED <<state, tainted>>
  BY <1>1, <1>2, FailStep DEF IInv, TypeOK
<1>3. CASE remote[n] = None /\ Forget(n) /\ Goto(n, "done") /\ UNCHANGED failed
  <2>1. /\ state' \in [Names -> Models \cup {None}]
        /\ tainted' \subseteq {j \in Names : state'[j] # None}
        /\ state'[n] = None /\ \A j \in Names \ {n} : state'[j] = state[j]
        /\ pc' \in [Names -> {"done", "write", "get", "recover", "list"}]
        /\ pc'[n] = "done" /\ \A j \in Names \ {n} : pc'[j] = pc[j]
    BY <1>3, EndingsAreTyped DEF IInv
  <2>2. TypeOK' /\ RequestsCarry' /\ Places'
    BY <1>1, <1>3, <2>1 DEF IInv, TypeOK, RequestsCarry, Places
  <2>3. RefreshTells' /\ ApplyTells' /\ EmptyPlanHidesNoDrift'
    BY <1>1, <1>3, <2>1 DEF IInv, RefreshTells, ApplyTells, MatchesPlan, EmptyPlanHidesNoDrift
  <2> QED BY <2>2, <2>3 DEF IInv
<1> QED BY <1>2, <1>3 DEF VerifyDelete

LEMMA ListStep == ASSUME IInv, NEW n \in Names, List(n) PROVE IInv'
<1>1. /\ pc[n] = "list" /\ hand[n] \in Groups /\ op[n] \in {"read", "create", "update"}
      /\ UNCHANGED <<remote, late, config, phase, op, hand, quiet, settled, trouble>>
  BY DEF IInv, Places, TypeOK, List, portal, history
<1> DEFINE m == IF hand[n].order >= LastOrder(Names)
                  THEN [Model(hand[n]) EXCEPT !.order = -1] ELSE Model(hand[n])
<1>2. m \in Models /\ m # None
  BY <1>1, ModelIsModel
<1>3. Record(n, m)
  BY DEF List
<1>4. hand[n] = remote[n] => Fits(n, m)
  <2>1. hand[n] = remote[n] => MatchesPlan(remote[n], m)
    BY <1>1, GroupAssumption DEF MatchesPlan, Model, Groups, Orders, IInv, Places
  <2>2. hand[n] = remote[n] /\ m.order = -1 => remote[n].order >= LastOrder(Names)
    BY <1>1 DEF Model, Groups, Orders
  <2>3. hand[n] = remote[n] => remote[n].order <= LastOrder(Names)
    BY <1>1, LastIsGreatest DEF IInv, Places
  <2>4. LastOrder(Names) \in Int /\ hand[n].order \in Int
    BY <1>1, LastIsGreatest, GroupAssumption DEF IInv, Groups, Orders
  <2> HIDE DEF m
  <2> QED BY <2>1, <2>2, <2>3, <2>4 DEF Fits
<1> HIDE DEF m
<1>5. /\ state' \in [Names -> Models \cup {None}]
      /\ tainted' \subseteq {j \in Names : state'[j] # None}
      /\ failed' \in BOOLEAN
      /\ state'[n] = m /\ \A j \in Names \ {n} : state'[j] = state[j]
      /\ pc' \in [Names -> {"done", "write", "get", "recover", "list"}]
      /\ pc'[n] = "done" /\ \A j \in Names \ {n} : pc'[j] = pc[j]
      /\ ~failed' => ~failed
  BY <1>2, <1>3, EndingsAreTyped DEF IInv
<1>6. TypeOK' /\ RequestsCarry' /\ Places'
  BY <1>1, <1>5 DEF IInv, TypeOK, RequestsCarry, Places
<1>7. \A j \in Names : Fits(j, state[j])' <=> Fits(j, state'[j])
  BY <1>1 DEF Fits, MatchesPlan, LastOrder, Active
<1>8. RefreshTells'
  BY <1>1, <1>4, <1>5, <1>7 DEF IInv, RefreshTells
<1>9. ApplyTells'
  BY <1>1, <1>5 DEF IInv, ApplyTells, MatchesPlan, Places
<1>10. EmptyPlanHidesNoDrift'
  BY <1>1, <1>5 DEF IInv, EmptyPlanHidesNoDrift, Places
<1> QED BY <1>6, <1>8, <1>9, <1>10 DEF IInv

LEMMA ReadFailsStep == ASSUME IInv, NEW n \in Names, ReadFails(n) PROVE IInv'
BY FailStep, GroupAssumption DEF ReadFails, Disturb, portal, files, IInv, TypeOK

----------------------------------------------------------------------------
(* Terraform.                                                              *)

LEMMA StartRunStep == ASSUME IInv, StartRun PROVE IInv'
<1>1. /\ phase' = "refresh" /\ config' \in Configs
      /\ op' = [n \in Names |-> IF state[n] = None THEN "none" ELSE "read"]
      /\ pc' = [n \in Names |-> IF state[n] = None THEN "done" ELSE "get"]
      /\ UNCHANGED <<remote, late, state, tainted, hand, trouble>>
  BY DEF StartRun, portal
<1>2. failed' \in BOOLEAN /\ quiet' \in BOOLEAN /\ settled' \in BOOLEAN
  BY DEF StartRun, IInv, TypeOK
<1>3. TypeOK' /\ RequestsCarry' /\ Places'
  BY <1>1, <1>2 DEF IInv, TypeOK, RequestsCarry, Places
<1>4. RefreshTells' /\ ApplyTells' /\ EmptyPlanHidesNoDrift'
  BY <1>1 DEF RefreshTells, ApplyTells, EmptyPlanHidesNoDrift
<1> QED BY <1>3, <1>4 DEF IInv

LEMMA PlanStep == ASSUME IInv, Plan PROVE IInv'
<1>1. /\ phase = "refresh" /\ AllDone /\ ~failed /\ phase' = "apply"
      /\ op' = [n \in Names |-> Planned(n)]
      /\ pc' = [n \in Names |-> IF Planned(n) = "none" THEN "done" ELSE "write"]
      /\ UNCHANGED <<remote, late, config, state, tainted, hand, failed, quiet, settled, trouble>>
  BY DEF Plan, portal, files, history
<1>2. ASSUME NEW n \in Names
      PROVE  /\ Planned(n) \in {"delete", "create", "update", "none"}
             /\ Planned(n) \in {"create", "update"} => config[n] # None
             /\ Planned(n) = "none" => state[n] = config[n]
  BY DEF Planned
<1>3. TypeOK' /\ RequestsCarry' /\ Places'
  BY <1>1, <1>2 DEF IInv, TypeOK, RequestsCarry, Places
<1>4. ASSUME quiet, NEW n \in Names, Planned(n) = "none", config[n] # None
      PROVE  Fits(n, config[n])
  BY <1>1, <1>2, <1>4 DEF IInv, RefreshTells, AllDone
<1>5. RefreshTells'
  BY <1>1 DEF RefreshTells
<1>6. ApplyTells'
  BY <1>1, <1>2, <1>4 DEF ApplyTells, Fits, MatchesPlan
<1>7. EmptyPlanHidesNoDrift'
  BY <1>1, <1>2, <1>4 DEF EmptyPlanHidesNoDrift, InPlace, Fits, MatchesPlan, LastOrder, Active
<1> QED BY <1>3, <1>5, <1>6, <1>7 DEF IInv

LEMMA ReplaceStep == ASSUME IInv, NEW n \in Names, Replace(n) PROVE IInv'
<1>1. /\ phase = "apply" /\ pc[n] = "done" /\ config[n] # None
      /\ op' = [op EXCEPT ![n] = "create"] /\ pc' = [pc EXCEPT ![n] = "write"]
      /\ UNCHANGED <<remote, late, config, state, tainted, phase, hand, failed, quiet, settled,
                     trouble>>
  BY DEF Replace, Replacing, Goto, portal, files, history
<1>2. TypeOK' /\ RequestsCarry' /\ Places'
  BY <1>1 DEF IInv, TypeOK, RequestsCarry, Places
<1>3. RefreshTells' /\ ApplyTells' /\ EmptyPlanHidesNoDrift'
  BY <1>1 DEF IInv, TypeOK, RefreshTells, ApplyTells, MatchesPlan, EmptyPlanHidesNoDrift
<1> QED BY <1>2, <1>3 DEF IInv

LEMMA EndRunStep == ASSUME IInv, EndRun PROVE IInv'
<1>1. /\ phase' = "idle" /\ AllDone
      /\ UNCHANGED <<remote, late, config, state, tainted, op, pc, hand, failed, quiet, trouble>>
  BY DEF EndRun, portal, files
<1>2. settled' \in BOOLEAN
  BY DEF EndRun
<1>3. TypeOK' /\ RequestsCarry' /\ Places'
  BY <1>1, <1>2 DEF IInv, TypeOK, RequestsCarry, Places, AllDone
<1>4. RefreshTells' /\ ApplyTells' /\ EmptyPlanHidesNoDrift'
  BY <1>1 DEF RefreshTells, ApplyTells, EmptyPlanHidesNoDrift
<1> QED BY <1>3, <1>4 DEF IInv

LEMMA CrashStep == ASSUME IInv, Crash PROVE IInv'
<1>1. /\ phase' = "idle" /\ pc' = [n \in Names |-> "done"]
      /\ trouble' = trouble + 1 /\ trouble < MaxTrouble /\ settled' \in BOOLEAN
      /\ UNCHANGED <<remote, config, state, tainted, op, hand, failed, quiet>>
  BY DEF Crash, files
<1>2. PICK sent \in SUBSET {n \in Names : pc[n] = "write"} :
        late' = late \cup {Request(n) : n \in sent}
  BY DEF Crash
<1>3. ASSUME NEW n \in sent
      PROVE  Request(n) \in Requests /\ (Request(n).kind # "delete" => Request(n).model # None)
  BY GroupAssumption DEF Request, Requests, IInv, Places, TypeOK
<1>4. trouble' \in 0..MaxTrouble
  BY <1>1, GroupAssumption DEF IInv, TypeOK
<1>5. TypeOK' /\ RequestsCarry'
  BY <1>1, <1>2, <1>3, <1>4 DEF IInv, TypeOK, RequestsCarry
<1>6. Places'
  BY <1>1 DEF IInv, Places
<1>7. RefreshTells' /\ ApplyTells' /\ EmptyPlanHidesNoDrift'
  BY <1>1 DEF RefreshTells, ApplyTells, EmptyPlanHidesNoDrift
<1> QED BY <1>5, <1>6, <1>7 DEF IInv

LEMMA ImportStep == ASSUME IInv, NEW n \in Names, Import(n) PROVE IInv'
<1>1. /\ phase = "idle" /\ remote[n] \in Groups
      /\ state' = [state EXCEPT ![n] = Model(remote[n])] /\ settled' \in BOOLEAN
      /\ UNCHANGED <<remote, late, config, tainted, phase, op, pc, hand, failed, quiet, trouble>>
  BY DEF Import, portal, run, IInv, TypeOK
<1>2. Model(remote[n]) \in Models /\ Model(remote[n]) # None
  BY <1>1, ModelIsModel
<1>3. TypeOK' /\ RequestsCarry' /\ Places'
  BY <1>1, <1>2 DEF IInv, TypeOK, RequestsCarry, Places
<1>4. RefreshTells' /\ ApplyTells' /\ EmptyPlanHidesNoDrift'
  BY <1>1 DEF RefreshTells, ApplyTells, EmptyPlanHidesNoDrift
<1> QED BY <1>3, <1>4 DEF IInv

----------------------------------------------------------------------------
(* Everybody else.                                                         *)

LEMMA ForeignStep == ASSUME IInv, NEW n \in Names, Foreign(n) PROVE IInv'
<1>1. /\ trouble' = trouble + 1 /\ trouble < MaxTrouble
      /\ remote' \in [Names -> Groups \cup {None}]
      /\ ~quiet' /\ quiet' \in BOOLEAN /\ settled' \in BOOLEAN
      /\ UNCHANGED <<late, config, state, tainted, phase, op, pc, hand, failed>>
  BY DEF Foreign, files, run, IInv, TypeOK
<1>2. TypeOK' /\ RequestsCarry' /\ Places'
  BY <1>1, GroupAssumption DEF IInv, TypeOK, RequestsCarry, Places
<1>3. RefreshTells' /\ ApplyTells' /\ EmptyPlanHidesNoDrift'
  BY <1>1 DEF RefreshTells, ApplyTells, EmptyPlanHidesNoDrift
<1> QED BY <1>2, <1>3 DEF IInv

LEMMA ArriveLateStep == ASSUME IInv, ArriveLate PROVE IInv'
<1>1. UNCHANGED <<config, state, tainted, phase, op, pc, hand, failed, trouble>>
  BY DEF ArriveLate, files, run
<1>2. PICK r \in late :
        /\ late' = late \ {r}
        /\ \/ /\ remote' = Effect(r.kind, r.name, r.model)
              /\ quiet' = FALSE /\ settled' = FALSE
           \/ UNCHANGED <<remote, quiet, settled>>
  BY DEF ArriveLate
<1>3. r.name \in Names /\ r.model \in Models \cup {None} /\ (r.kind # "delete" => r.model # None)
  BY DEF IInv, TypeOK, RequestsCarry, Requests
<1>4. CASE remote' = Effect(r.kind, r.name, r.model) /\ quiet' = FALSE /\ settled' = FALSE
  <2>1. remote' \in [Names -> Groups \cup {None}]
    BY <1>3, <1>4, EffectIsLocal DEF IInv
  <2>2. TypeOK' /\ RequestsCarry' /\ Places'
    BY <1>1, <1>2, <1>4, <2>1 DEF IInv, TypeOK, RequestsCarry, Places
  <2>3. RefreshTells' /\ ApplyTells' /\ EmptyPlanHidesNoDrift'
    BY <1>4 DEF RefreshTells, ApplyTells, EmptyPlanHidesNoDrift
  <2> QED BY <2>2, <2>3 DEF IInv
<1>5. CASE UNCHANGED <<remote, quiet, settled>>
  <2>1. TypeOK' /\ RequestsCarry' /\ Places'
    BY <1>1, <1>2, <1>5 DEF IInv, TypeOK, RequestsCarry, Places
  <2>2. RefreshTells'
    <3>1. \A n \in Names : Fits(n, state[n])' <=> Fits(n, state[n])
      BY <1>1, <1>5 DEF Fits, MatchesPlan, LastOrder, Active
    <3> QED BY <1>1, <1>5, <3>1 DEF IInv, RefreshTells
  <2>3. ApplyTells'
    BY <1>1, <1>5 DEF IInv, ApplyTells, MatchesPlan
  <2>4. EmptyPlanHidesNoDrift'
    <3>1. \A n \in Names : InPlace(n)' <=> InPlace(n)
      BY <1>1, <1>5 DEF InPlace, MatchesPlan, LastOrder, Active
    <3> QED BY <1>1, <1>5, <3>1 DEF IInv, EmptyPlanHidesNoDrift
  <2> QED BY <2>1, <2>2, <2>3, <2>4 DEF IInv
<1> QED BY <1>2, <1>4, <1>5

----------------------------------------------------------------------------
(* The theorems.                                                           *)

LEMMA Initially == Init => IInv
<1> SUFFICES ASSUME Init PROVE IInv
  OBVIOUS
<1>1. remote \in [Names -> Groups \cup {None}]
  BY GroupAssumption DEF Init, Groups, Orders
<1>2. TypeOK
  <2>1. failed \in BOOLEAN /\ quiet \in BOOLEAN /\ settled \in BOOLEAN
    BY DEF Init
  <2> QED BY <1>1, <2>1, GroupAssumption DEF Init, TypeOK
<1> QED BY <1>2 DEF Init, IInv, RequestsCarry, Places, RefreshTells, ApplyTells, EmptyPlanHidesNoDrift

LEMMA Stutters == ASSUME IInv, UNCHANGED vars PROVE IInv'
BY DEF vars, IInv, TypeOK, RequestsCarry, Places, RefreshTells, ApplyTells, EmptyPlanHidesNoDrift,
   Fits, InPlace, MatchesPlan, LastOrder, Active

LEMMA Inductive == IInv /\ [Next]_vars => IInv'
<1>1. ASSUME IInv, NEW n \in Names, Step(n) PROVE IInv'
  BY <1>1, AnsweredStep, FaultedStep, ReadGetStep, VerifyStep, VerifyDeleteStep, ListStep,
     ReadFailsStep, ReplaceStep DEF Step
<1> QED BY <1>1, ImportStep, ForeignStep, StartRunStep, PlanStep, EndRunStep, CrashStep,
       ArriveLateStep, Stutters DEF Next

\* The inductive invariant of the property groups.
THEOREM Invariance == Spec => []IInv
BY Initially, Inductive, PTL DEF Spec

\* Every variable stays in its domain, in particular the orders the portal
\* gives out stay within their bound.
THEOREM TypeCorrect == Spec => []TypeOK
<1>1. IInv => TypeOK
  BY DEF IInv
<1> QED BY <1>1, Invariance, PTL

\* An empty plan means that every group is as configured, the last place of
\* appended ones included (modelFromGroupWithOrder, groupIsLast).
THEOREM NoDriftIsHidden == Spec => []EmptyPlanHidesNoDrift
<1>1. IInv => EmptyPlanHidesNoDrift
  BY DEF IInv
<1> QED BY <1>1, Invariance, PTL

\* An apply without an error has done what it was asked to, whatever became
\* of its requests (Create, Update and Delete of the property group).
THEOREM SuccessVerified == Spec => []SuccessIsVerified
<1>1. ASSUME IInv PROVE SuccessIsVerified
  <2> SUFFICES ASSUME phase = "apply", quiet, ~failed, AllDone, \A n \in Names : ~Replacing(n),
                      NEW n \in Names
               PROVE  IF config[n] = None
                        THEN state[n] = None /\ (op[n] = "delete" => remote[n] = None)
                        ELSE MatchesPlan(remote[n], config[n])
    BY DEF SuccessIsVerified
  <2>1. /\ op[n] = "delete" => state[n] = None /\ remote[n] = None
        /\ op[n] = "none" /\ config[n] = None => state[n] = None
        /\ op[n] # "delete" /\ ~(op[n] = "none" /\ config[n] = None)
             => MatchesPlan(remote[n], config[n])
    BY <1>1 DEF IInv, ApplyTells, AllDone
  <2>2. config[n] = None => op[n] \in {"none", "delete"}
    BY <1>1 DEF IInv, Places, TypeOK
  <2>3. op[n] = "delete" => config[n] = None
    BY <2>1 DEF Replacing
  <2> QED BY <2>1, <2>2, <2>3
<1> QED BY <1>1, Invariance, PTL

\* State forgets a group only when the portal has no such active group (Read
\* after a 404, Delete after it has been looked for).
THEOREM NothingForgotten == Spec => ForgottenOnlyWhenGone
<1> DEFINE Lost == \E n \in Names : state[n] # None /\ state'[n] = None /\ remote[n] # None
<1>1. IInv /\ [Next]_vars => [\A n \in Names : state[n] # None /\ state'[n] = None => remote[n] = None]_vars
  <2> SUFFICES ASSUME IInv, Next PROVE ~Lost
    OBVIOUS
  <2>1. CASE UNCHANGED state
    BY <2>1
  <2>2. ASSUME NEW n \in Names, Forget(n), remote[n] = None PROVE ~Lost
    BY <2>2, EndingsAreTyped DEF IInv
  <2>3. ASSUME NEW n \in Names, NEW m \in Models, Record(n, m) PROVE ~Lost
    <3>1. m # None
      BY GroupAssumption
    <3> QED BY <2>3, <3>1, EndingsAreTyped DEF IInv
  <2>4. ASSUME NEW n \in Names, Step(n) PROVE ~Lost
    <3>1. CASE Answered(n)
      <4>1. op[n] \in {"create", "update", "delete"}
        BY <3>1 DEF Answered, IInv, Places
      <4> QED BY <2>1, <2>2, <3>1, <4>1 DEF Answered, Accepts
    <3>2. CASE Faulted(n) \/ Unanswered(n) \/ ReadFails(n) \/ Replace(n)
      BY <2>1, <3>2 DEF Faulted, Unanswered, ReadFails, Replace, files
    <3>3. CASE ReadGet(n) \/ Verify(n)
      <4>1. remote[n] # None => Model(remote[n]) \in Models
        BY ModelIsModel DEF IInv, TypeOK
      <4> QED BY <2>1, <2>2, <2>3, <3>3, <4>1 DEF ReadGet, Verify, Observe, MatchesPlan
    <3>4. CASE VerifyDelete(n)
      BY <2>1, <2>2, <3>4 DEF VerifyDelete
    <3>5. CASE List(n)
      <4>1. hand[n] \in Groups
        BY <3>5 DEF List, IInv, Places, TypeOK
      <4> QED BY <2>3, <3>5, <4>1, ModelIsModel DEF List
    <3> QED BY <2>4, <3>1, <3>2, <3>3, <3>4, <3>5 DEF Step
  <2>5. CASE StartRun \/ Plan \/ EndRun \/ Crash \/ ArriveLate
    BY <2>1, <2>5 DEF StartRun, Plan, EndRun, Crash, ArriveLate, files
  <2>6. ASSUME NEW n \in Names, Import(n) PROVE ~Lost
    <3>1. Model(remote[n]) # None
      BY <2>6, ModelIsModel DEF Import, IInv, TypeOK
    <3> QED BY <2>6, <3>1 DEF Import, IInv, TypeOK
  <2>7. ASSUME NEW n \in Names, Foreign(n) PROVE ~Lost
    BY <2>1, <2>7 DEF Foreign, files
  <2> QED BY <2>4, <2>5, <2>6, <2>7 DEF Next
<1> QED BY <1>1, Invariance, PTL DEF Spec, ForgottenOnlyWhenGone
=============================================================================
