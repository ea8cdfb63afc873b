--------------------- MODULE TransportAndPropertyProofs ---------------------
(***************************************************************************)
(* Proofs about Transport.tla, for any number of concurrent operations,    *)
(* any retry budget and any rate-limit header, and about Properties.tla,   *)
(* the resource whose handlers are the longest chains of such operations,  *)
(* for any names, groups, option values and configurations, any orders and *)
(* any number of troubles.                                                 *)
(*                                                                         *)
(* None of the transport's properties is inductive alone.  What carries    *)
(* them is an account of where the copies of a request may be at each      *)
(* place of Do: the conjuncts of Account.                                  *)
(*                                                                         *)
(* The invariant of the properties says how far the numbers of appended    *)
(* options can get (Numbers), where a handler stands (Places), what a run  *)
(* that nobody disturbs has found (HandTells, RefreshTells) and reached    *)
(* (ApplyTells), and what remains of one that succeeded (SettledTells).    *)
(***************************************************************************)
EXTENDS Transport, Properties, WellFoundedInduction, FiniteSetTheorems, TLAPS

----------------------------------------------------------------------------
(* The transport: what its invariant says.                                 *)

\* Only attempts made so far have copies, one copy each, and an attempt about
\* to be sent has none.
CopiesWereSent(c) ==
  /\ inflight[c] \cap applied[c] = {}
  /\ inflight[c] \cup applied[c] \subseteq 1..attempt[c]
  /\ stage[c] = "limit" => attempt[c] \notin inflight[c] \cup applied[c]

\* A create makes one attempt: it never gets as far as sleeping.
CreateTriesOnce(c) ==
  class[c] = "never" => attempt[c] = 1 /\ stage[c] \notin {"asleep", "exhausted"}

\* Between two attempts of a write the only copies left on the wire are those
\* for which a gateway answered.
WritesUsedUp(c) ==
  class[c] # "safe" =>
    /\ inflight[c] \subseteq {attempt[c]} \cup stranded[c]
    /\ stage[c] \in {"limit", "answered", "asleep"} => inflight[c] \subseteq stranded[c]

\* Retries stop at the budget.
BudgetLeft(c) ==
  /\ stage[c] = "asleep" => attempt[c] < MaxAttempts
  /\ stage[c] # "exhausted"

\* What the response in hand says about the effect.
ReplyTells(c) ==
  /\ stage[c] = "answered" => reply[c] # "none"
  /\ stage[c] = "answered" /\ reply[c] \in ProvesEffect => applied[c] # {}
  /\ /\ stage[c] = "answered"
     /\ class[c] = "never"
     /\ reply[c] \in {"busy", "daily", "refused"}
     => inflight[c] = {} /\ applied[c] = {}

\* What the result handed to the resource says about the effect.
OutcomeTells(c) ==
  /\ stage[c] # "returned" => outcome[c] = Pending
  /\ outcome[c].kind = "ok" => applied[c] # {}
  /\ /\ class[c] = "never"
     /\ \/ outcome[c] = Failure("none")
        \/ outcome[c].status \in {"busy", "daily", "refused"}
     => inflight[c] = {} /\ applied[c] = {}

Account(c) ==
  /\ CopiesWereSent(c)
  /\ CreateTriesOnce(c)
  /\ WritesUsedUp(c)
  /\ BudgetLeft(c)
  /\ ReplyTells(c)
  /\ OutcomeTells(c)

DoInv == TransportTypeOK /\ \A c \in Calls : Account(c)

----------------------------------------------------------------------------
(* The transport: type correctness.                                       *)

LEMMA InitTypeOK == DoInit => TransportTypeOK
BY TransportAssumption
   DEF DoInit, TransportTypeOK, ReplaySafety, Status, Outcome, Pending

LEMMA StepTypeOK == TransportTypeOK /\ [DoNext]_doVars => TransportTypeOK'
<1> SUFFICES ASSUME TransportTypeOK, [DoNext]_doVars PROVE TransportTypeOK'
  OBVIOUS
<1> USE TransportAssumption DEF TransportTypeOK, network, limiter, client
<1>1. CASE UNCHANGED doVars
  BY <1>1 DEF doVars
<1>2. CASE Refill
  BY <1>2 DEF Refill
<1>3. ASSUME NEW c \in Calls, Client(c) PROVE TransportTypeOK'
  <2>1. Failure("none") \in Outcome /\ NoAnswer \in Outcome /\ Success \in Outcome
        /\ Failure(reply[c]) \in Outcome /\ Failure("garbled") \in Outcome
    BY DEF Outcome, Status, Failure, NoAnswer, Success
  <2> USE <2>1 DEF Return, Enter
  <2>2. CASE Send(c)
    BY <2>2 DEF Send
  <2>3. CASE FailWait(c)
    BY <2>3 DEF FailWait
  <2>4. CASE NetworkError(c)
    BY <2>4 DEF NetworkError
  <2>5. CASE Succeed(c)
    <3>1. PICK l \in Advertised : AdaptRateLimit(l)
      BY <2>5 DEF Succeed
    <3>2. tokens' \in Nat /\ burst' \in Nat \ {0}
      BY <3>1 DEF AdaptRateLimit
    <3> QED BY <2>5, <3>2 DEF Succeed
  <2>6. CASE FailDecode(c)
    BY <2>6 DEF FailDecode
  <2>7. CASE Backoff(c)
    BY <2>7 DEF Backoff
  <2>8. CASE GiveUp(c)
    BY <2>8 DEF GiveUp
  <2>9. CASE NextAttempt(c)
    BY <2>9 DEF NextAttempt
  <2>10. CASE AbortSleep(c)
    BY <2>10 DEF AbortSleep
  <2> QED BY <1>3, <2>2, <2>3, <2>4, <2>5, <2>6, <2>7, <2>8, <2>9, <2>10
             DEF Client
<1>4. ASSUME NEW c \in Calls, Service(c) PROVE TransportTypeOK'
  <2>1. CASE Answer(c)
    BY <2>1 DEF Answer, Enter
  <2>2. CASE AnswerFromGateway(c)
    BY <2>2 DEF AnswerFromGateway, Enter, Status
  <2>3. ASSUME NEW a \in inflight[c], ApplyUnheard(c, a) PROVE TransportTypeOK'
    BY <2>3 DEF ApplyUnheard
  <2>4. ASSUME NEW a \in inflight[c], LoseRequest(c, a) PROVE TransportTypeOK'
    BY <2>4 DEF LoseRequest
  <2> QED BY <1>4, <2>1, <2>2, <2>3, <2>4 DEF Service
<1>5. ASSUME NEW c \in Calls, EndContext(c) PROVE TransportTypeOK'
  BY <1>5 DEF EndContext
<1> QED BY <1>1, <1>2, <1>3, <1>4, <1>5 DEF DoNext

\* Every variable of the transport keeps its domain; no attempt beyond
\* maxAttempts is made, and the shared limiter can always hold a token.
THEOREM TransportTypeCorrect == DoSpec => []TransportTypeOK
BY InitTypeOK, StepTypeOK, PTL DEF DoSpec

----------------------------------------------------------------------------
(* The transport: the account is inductive.                               *)

\* The four kinds of result are told apart by their fields.
LEMMA Results ==
  /\ Pending.kind = "none" /\ Pending.status = "none"
  /\ Success.kind = "ok" /\ Success.status = "success"
  /\ NoAnswer.kind = "error" /\ NoAnswer.status = "none"
  /\ \A s : Failure(s).kind = "error" /\ Failure(s).status = s
  /\ NoAnswer # Failure("none")
<1>1. NoAnswer.ambiguous /\ ~Failure("none").ambiguous
  BY Zenon DEF NoAnswer, Failure
<1> QED BY <1>1 DEF Pending, Success, NoAnswer, Failure

LEMMA InitAccount == DoInit => \A c \in Calls : Account(c)
<1> SUFFICES ASSUME DoInit, NEW c \in Calls PROVE Account(c)
  OBVIOUS
<1>1. /\ stage[c] = "limit" /\ attempt[c] = 1 /\ outcome[c] = Pending
      /\ inflight[c] = {} /\ applied[c] = {}
  BY DEF DoInit
<1> QED BY <1>1, Results, TransportAssumption
           DEF Account, CopiesWereSent, CreateTriesOnce, WritesUsedUp,
               BudgetLeft, ReplyTells, OutcomeTells

\* A step of one operation leaves the account of every other one alone.
LEMMA OtherCall ==
  ASSUME NEW d \in Calls, Account(d),
         class'[d] = class[d], stage'[d] = stage[d], attempt'[d] = attempt[d],
         reply'[d] = reply[d], outcome'[d] = outcome[d],
         inflight'[d] = inflight[d], applied'[d] = applied[d],
         stranded'[d] = stranded[d]
  PROVE  Account(d)'
BY DEF Account, CopiesWereSent, CreateTriesOnce, WritesUsedUp, BudgetLeft,
       ReplyTells, OutcomeTells

\* The steps of Do.
LEMMA ClientAccount ==
  ASSUME TransportTypeOK, NEW c \in Calls, Account(c), Client(c)
  PROVE  Account(c)'
<1> USE TransportAssumption, Results
    DEF TransportTypeOK, network, limiter, Enter, Return, Account, CopiesWereSent,
        CreateTriesOnce, WritesUsedUp, BudgetLeft, ReplyTells, OutcomeTells
<1>1. CASE Send(c)
  BY <1>1 DEF Send
<1>2. CASE FailWait(c)
  <2>1. class[c] = "never" => inflight[c] = {} /\ applied[c] = {}
    BY <1>2 DEF FailWait
  <2> QED BY <1>2, <2>1 DEF FailWait
<1>3. CASE NetworkError(c)
  BY <1>3 DEF NetworkError, RetriesNetworkErrors
<1>4. CASE Succeed(c)
  BY <1>4 DEF Succeed, ProvesEffect
<1>5. CASE FailDecode(c)
  BY <1>5 DEF FailDecode
<1>6. CASE Backoff(c)
  BY <1>6 DEF Backoff, CanRetry
<1>7. CASE GiveUp(c)
  BY <1>7 DEF GiveUp
<1>8. CASE NextAttempt(c)
  BY <1>8 DEF NextAttempt
<1>9. CASE AbortSleep(c)
  BY <1>9 DEF AbortSleep
<1> QED BY <1>1, <1>2, <1>3, <1>4, <1>5, <1>6, <1>7, <1>8, <1>9 DEF Client

\* The steps of the service and the network, which may come at any place of Do.
LEMMA ServiceAccount ==
  ASSUME TransportTypeOK, NEW c \in Calls, Account(c), Service(c)
  PROVE  Account(c)'
<1> USE DEF TransportTypeOK, client, limiter, Enter, Account, CopiesWereSent,
        CreateTriesOnce, WritesUsedUp, BudgetLeft, ReplyTells, OutcomeTells
<1>1. CASE Answer(c)
  <2>1. PICK s \in Status :
          /\ reply' = [reply EXCEPT ![c] = s]
          /\ \/ /\ s \in MayFollowEffect
                /\ applied' = [applied EXCEPT ![c] = @ \cup {attempt[c]}]
             \/ s \notin ProvesEffect /\ UNCHANGED applied
    BY <1>1 DEF Answer
  <2>2. /\ stage'[c] = "answered" /\ reply'[c] = s /\ s # "none"
        /\ inflight'[c] = inflight[c] \ {attempt[c]}
        /\ applied'[c] \in {applied[c], applied[c] \cup {attempt[c]}}
        /\ class'[c] = class[c] /\ attempt'[c] = attempt[c]
        /\ outcome'[c] = outcome[c] /\ stranded'[c] = stranded[c]
    BY <1>1, <2>1 DEF Answer, Status
  <2>3. CopiesWereSent(c)' /\ CreateTriesOnce(c)' /\ WritesUsedUp(c)'
    BY <1>1, <2>2 DEF Answer
  <2>4. ReplyTells(c)'
    <3>1. s \in ProvesEffect => applied'[c] # {}
      BY <1>1, <2>1 DEF ProvesEffect
    <3>2. class[c] = "never" /\ s \in {"busy", "daily", "refused"}
          => inflight'[c] = {} /\ applied'[c] = {}
      <4>1. SUFFICES ASSUME class[c] = "never",
                            s \in {"busy", "daily", "refused"}
                     PROVE  /\ inflight'[c] = {}
                            /\ applied[c] = {} /\ applied'[c] = applied[c]
        OBVIOUS
      <4>2. applied'[c] = applied[c]
        BY <2>1, <4>1 DEF MayFollowEffect
      <4>3. applied[c] = {} /\ inflight'[c] = {}
        BY <1>1, <2>2, <4>1 DEF Answer
      <4> QED BY <4>2, <4>3
    <3> QED BY <2>2, <3>1, <3>2
  <2>5. BudgetLeft(c)' /\ OutcomeTells(c)'
    BY <1>1, <2>2 DEF Answer
  <2> QED BY <2>3, <2>4, <2>5
<1>2. CASE AnswerFromGateway(c)
  BY <1>2 DEF AnswerFromGateway, ProvesEffect
<1>3. ASSUME NEW a \in inflight[c], ApplyUnheard(c, a) PROVE Account(c)'
  BY <1>3 DEF ApplyUnheard
<1>4. ASSUME NEW a \in inflight[c], LoseRequest(c, a) PROVE Account(c)'
  BY <1>4 DEF LoseRequest
<1> QED BY <1>1, <1>2, <1>3, <1>4 DEF Service

LEMMA StepAccount == DoInv /\ [DoNext]_doVars => \A d \in Calls : Account(d)'
<1> SUFFICES ASSUME DoInv, [DoNext]_doVars, NEW d \in Calls PROVE Account(d)'
  OBVIOUS
<1>1. TransportTypeOK /\ Account(d)
  BY DEF DoInv
<1>2. CASE UNCHANGED doVars \/ Refill
  BY <1>1, <1>2, OtherCall DEF doVars, Refill, client, network
<1>3. ASSUME NEW c \in Calls, Client(c) PROVE Account(d)'
  <2>1. CASE c = d
    BY <1>1, <1>3, <2>1, ClientAccount
  <2>2. CASE c # d
    BY <1>1, <1>3, <2>2, OtherCall
       DEF Client, Send, FailWait, NetworkError, Succeed, FailDecode, Backoff,
           GiveUp, NextAttempt, AbortSleep, Return, Enter, network, TransportTypeOK
  <2> QED BY <2>1, <2>2
<1>4. ASSUME NEW c \in Calls, Service(c) PROVE Account(d)'
  <2>1. CASE c = d
    BY <1>1, <1>4, <2>1, ServiceAccount
  <2>2. CASE c # d
    BY <1>1, <1>4, <2>2, OtherCall
       DEF Service, Answer, AnswerFromGateway, ApplyUnheard, LoseRequest, Enter,
           client, TransportTypeOK
  <2> QED BY <2>1, <2>2
<1>5. ASSUME NEW c \in Calls, EndContext(c) PROVE Account(d)'
  BY <1>1, <1>5, OtherCall DEF EndContext, network
<1> QED BY <1>2, <1>3, <1>4, <1>5 DEF DoNext

LEMMA DoInductive == DoSpec => []DoInv
<1>1. DoInit => DoInv
  BY InitTypeOK, InitAccount DEF DoInv
<1>2. DoInv /\ [DoNext]_doVars => DoInv'
  BY StepTypeOK, StepAccount DEF DoInv
<1> QED BY <1>1, <1>2, PTL DEF DoSpec

----------------------------------------------------------------------------
(* The transport: what follows from the account.                          *)

\* A create takes effect at most once: Do never leaves a second copy of a
\* ReplayNever operation anywhere.
THEOREM CreatesAreNeverReplayed == DoSpec => []NeverReplayed
<1>1. DoInv => NeverReplayed
  BY DEF DoInv, TransportTypeOK, Account, CopiesWereSent, CreateTriesOnce, NeverReplayed
<1> QED BY <1>1, DoInductive, PTL

\* A write is never repeated while its caller has no answer: beside its newest
\* attempt, only a copy for which a gateway answered can still take effect.
THEOREM WritesNeverOvertaken == DoSpec => []NoOvertaking
<1>1. DoInv => NoOvertaking
  BY DEF DoInv, Account, WritesUsedUp, NoOvertaking
<1> QED BY <1>1, DoInductive, PTL

\* The error return after Do's loop is never reached.
THEOREM BudgetStopsInTime == DoSpec => []BudgetErrorUnreachable
<1>1. DoInv => BudgetErrorUnreachable
  BY DEF DoInv, Account, BudgetLeft, BudgetErrorUnreachable
<1> QED BY <1>1, DoInductive, PTL

\* After a refusing status on a create nothing was created, nor will be.
THEOREM RefusalsAreFinal == DoSpec => []RefusalIsFinal
<1>1. DoInv => RefusalIsFinal
  <2> SUFFICES ASSUME DoInv, NEW c \in Calls, class[c] = "never",
                      outcome[c].kind = "error",
                      outcome[c].status \in {"busy", "daily", "refused"}
               PROVE  inflight[c] = {} /\ applied[c] = {}
    BY DEF RefusalIsFinal
  <2> QED BY DEF DoInv, Account, OutcomeTells
<1> QED BY <1>1, DoInductive, PTL

\* An error without status and without the Ambiguous mark is only ever
\* returned to a caller whose context ended.
THEOREM NoFailureWithoutReason == DoSpec => []NoSpuriousFailure
<1>1. DoInit => NoSpuriousFailure
  BY Results DEF DoInit, NoSpuriousFailure
<1>2. DoInv /\ NoSpuriousFailure /\ [DoNext]_doVars => NoSpuriousFailure'
  <2> SUFFICES ASSUME DoInv, NoSpuriousFailure, [DoNext]_doVars, NEW d \in Calls,
                      outcome'[d] = Failure("none")
               PROVE  ended'[d]
    BY DEF NoSpuriousFailure
  <2>1. ended[d] => ended'[d]
    <3>1. ended' = ended \/ \E c \in Calls : ended' = [ended EXCEPT ![c] = TRUE]
      BY DEF doVars, DoNext, Client, Service, Send, FailWait, NetworkError,
             Succeed, FailDecode, Backoff, GiveUp, NextAttempt, AbortSleep,
             Answer, AnswerFromGateway, ApplyUnheard, LoseRequest, EndContext, Refill, client
    <3> QED BY <3>1 DEF DoInv, TransportTypeOK
  <2>2. CASE outcome'[d] = outcome[d]
    BY <2>1, <2>2 DEF NoSpuriousFailure
  <2>3. CASE outcome'[d] # outcome[d]
    <3>1. Client(d)
      BY <2>3 DEF doVars, DoNext, Client, Service, Send, FailWait, NetworkError,
             Succeed, FailDecode, Backoff, GiveUp, NextAttempt, AbortSleep,
             Answer, AnswerFromGateway, ApplyUnheard, LoseRequest, EndContext, Refill, client,
             Return, DoInv, TransportTypeOK
    <3>2. burst \in Nat \ {0} /\ (reply[d] # "none" \/ stage[d] # "answered")
          /\ (stage[d] = "asleep" => attempt[d] < MaxAttempts)
      BY DEF DoInv, TransportTypeOK, Account, ReplyTells, BudgetLeft
    <3>3. outcome \in [Calls -> Outcome]
      BY DEF DoInv, TransportTypeOK
    <3>4. FailWait(d) \/ AbortSleep(d)
      BY <2>3, <3>1, <3>2, <3>3, Results
         DEF Client, Send, NetworkError, Succeed, FailDecode, Backoff, GiveUp,
             NextAttempt, Return
    <3> QED BY <2>1, <3>2, <3>4 DEF FailWait, AbortSleep
  <2> QED BY <2>2, <2>3
<1> QED BY <1>1, <1>2, DoInductive, PTL DEF DoSpec

----------------------------------------------------------------------------
(* The transport: Do implements what the resources build on.              *)

LEMMA Verdicts ==
  ASSUME NEW c \in Calls
  PROVE  /\ outcome[c] = Pending => Verdict(c) = "open"
         /\ outcome[c] = Success => Verdict(c) = "ok"
         /\ outcome[c] = NoAnswer => Verdict(c) = "failed"
         /\ \A s : outcome[c] = Failure(s) =>
              Verdict(c) = IF s = "none" /\ class[c] = "never"
                             THEN "unsent" ELSE "failed"
BY Results DEF Verdict

LEMMA InitContract == DoInit => Abstract!Init
<1> SUFFICES ASSUME DoInit PROVE Abstract!Init
  OBVIOUS
<1>1. \A c \in Calls : outcome[c] = Pending
  BY DEF DoInit
<1>2. [c \in Calls |-> Verdict(c)] = [c \in Calls |-> "open"]
  BY <1>1, Verdicts
<1> QED BY <1>2 DEF DoInit, Abstract!Init, ReplaySafety

\* A step that returns from Do reports the right verdict.
LEMMA ReturnReports ==
  ASSUME DoInv, DoInv', NEW c \in Calls, NEW o, outcome[c] = Pending,
         o \in {Success, NoAnswer} \cup {Failure(s) : s \in Status \cup {"none"}},
         outcome' = [outcome EXCEPT ![c] = o],
         class' = class, applied' = applied
  PROVE  Abstract!Report(c)
<1> DEFINE v == [d \in Calls |-> Verdict(d)]
<1>1. Verdict(c) = "open"
  BY Verdicts
<1>2. outcome'[c] = o
  BY DEF DoInv, TransportTypeOK
<1>3. v' = [v EXCEPT ![c] = Verdict(c)']
  <2>1. \A d \in Calls : d # c => Verdict(d)' = Verdict(d)
    BY DEF Verdict, DoInv, TransportTypeOK
  <2> QED BY <2>1
<1>4. \/ applied[c] # {} /\ Verdict(c)' = "ok"
      \/ applied[c] = {} /\ Verdict(c)' = "unsent"
      \/ Verdict(c)' = "failed"
  <2>1. CASE o = Success
    BY <1>2, <2>1, Results DEF Verdict, DoInv, Account, OutcomeTells
  <2>2. CASE o = NoAnswer
    BY <1>2, <2>2, Results DEF Verdict
  <2>3. ASSUME NEW s \in Status \cup {"none"}, o = Failure(s)
        PROVE  \/ applied[c] = {} /\ Verdict(c)' = "unsent"
               \/ Verdict(c)' = "failed"
    BY <1>2, <2>3, Results DEF Verdict, DoInv, Account, OutcomeTells
  <2> QED BY <2>1, <2>2, <2>3
<1> QED BY <1>1, <1>3, <1>4 DEF Abstract!Report

\* A step that carries a copy out takes a permitted effect.
LEMMA EffectPermitted ==
  ASSUME DoInv, NEW c \in Calls, NEW a \in inflight[c],
         applied' = [applied EXCEPT ![c] = @ \cup {a}],
         class' = class, outcome' = outcome
  PROVE  Abstract!TakeEffect(c)
<1> DEFINE v == [d \in Calls |-> Verdict(d)]
<1>1. v' = v
  BY DEF Verdict
<1>2. Verdict(c) # "unsent"
  BY Results DEF Verdict, DoInv, Account, OutcomeTells
<1>3. a \in (1..MaxAttempts) \ applied[c]
  BY DEF DoInv, TransportTypeOK, Account, CopiesWereSent
<1>4. class[c] = "never" => a = 1
  BY DEF DoInv, TransportTypeOK, Account, CopiesWereSent, CreateTriesOnce
<1>5. a \in Abstract!Permitted(class[c]) \ applied[c]
  BY <1>3, <1>4 DEF Abstract!Permitted
<1> QED BY <1>1, <1>2, <1>5 DEF Abstract!TakeEffect

LEMMA StepContract ==
  DoInv /\ DoInv' /\ [DoNext]_doVars => [Abstract!Next]_(Abstract!callVars)
<1> SUFFICES ASSUME DoInv, DoInv', [DoNext]_doVars
             PROVE  Abstract!Next \/ UNCHANGED Abstract!callVars
  OBVIOUS
<1>1. ASSUME UNCHANGED <<class, applied, outcome>>
      PROVE  UNCHANGED Abstract!callVars
  BY <1>1 DEF Abstract!callVars, Verdict
<1>2. CASE UNCHANGED doVars \/ Refill \/ \E c \in Calls : EndContext(c)
  BY <1>1, <1>2 DEF doVars, Refill, EndContext, client, network
<1>3. ASSUME NEW c \in Calls, Client(c)
      PROVE  Abstract!Next \/ UNCHANGED Abstract!callVars
  <2>1. UNCHANGED <<class, applied>>
    BY <1>3 DEF Client, Send, FailWait, NetworkError, Succeed, FailDecode,
                Backoff, GiveUp, NextAttempt, AbortSleep, network
  <2>2. reply[c] \in Status \cup {"none"}
    BY DEF DoInv, TransportTypeOK
  <2>3. stage[c] # "returned"
    BY <1>3 DEF Client, Send, FailWait, NetworkError, Succeed, FailDecode,
                Backoff, GiveUp, NextAttempt, AbortSleep
  <2>4. \/ UNCHANGED outcome
        \/ \E o \in {Success, NoAnswer}
                    \cup {Failure(s) : s \in Status \cup {"none"}} :
             outcome' = [outcome EXCEPT ![c] = o]
    BY <1>3, <2>2 DEF Client, Send, FailWait, NetworkError, Succeed,
       FailDecode, Backoff, GiveUp, NextAttempt, AbortSleep, Return, Status
  <2>5. outcome[c] = Pending
    BY <2>3 DEF DoInv, Account, OutcomeTells
  <2> QED BY <1>1, <2>1, <2>4, <2>5, ReturnReports DEF Abstract!Next
<1>4. ASSUME NEW c \in Calls, Service(c)
      PROVE  Abstract!Next \/ UNCHANGED Abstract!callVars
  <2>1. UNCHANGED <<class, outcome>>
    BY <1>4 DEF Service, Answer, AnswerFromGateway, ApplyUnheard, LoseRequest, client
  <2>2. \/ UNCHANGED applied
        \/ \E a \in inflight[c] :
             applied' = [applied EXCEPT ![c] = @ \cup {a}]
    BY <1>4 DEF Service, Answer, AnswerFromGateway, ApplyUnheard, LoseRequest
  <2> QED BY <1>1, <2>1, <2>2, EffectPermitted DEF Abstract!Next
<1> QED BY <1>2, <1>3, <1>4 DEF DoNext

\* Transport.Do is an implementation of RemoteCall: whatever the loop, the
\* limiter and the network do, callers observe only what the contract allows.
THEOREM DoImplementsRemoteCall == DoSpec => ImplementsRemoteCall
<1>1. DoInv /\ DoInv' /\ [DoNext]_doVars => [Abstract!Next]_(Abstract!callVars)
  BY StepContract
<1> QED BY InitContract, <1>1, DoInductive, PTL
           DEF DoSpec, ImplementsRemoteCall, Abstract!Spec

----------------------------------------------------------------------------
(* Properties: what their invariant says.                                  *)

\* Option numbers are dense above the bound: a number exceeds it by no more
\* than the numbered options up to it.
UpTo(o, v) == {w \in DOMAIN o : o[w] # -1 /\ ~Before(o, v, w)}
Dense(o) == \A v \in DOMAIN o : o[v] <= MaxOrder + Cardinality(UpTo(o, v))
Numbers ==
  /\ \A n \in Names : /\ remote[n] # None => Dense(remote[n].options)
                      /\ hand[n] # None => Dense(hand[n].options)
                      /\ state[n] # None => Dense(state[n].options)
  /\ \A r \in late : r.model # None => Dense(Sent(r.model))

\* A create or an update that is on its way has something to write.
RequestsCarry == \A r \in late : r.kind # "delete" => r.model # None

\* Which handler stands where.
Places ==
  \A n \in Names :
    /\ phase = "idle" => pc[n] = "done"
    /\ phase = "refresh" => op[n] \in {"none", "read"}
    /\ phase = "apply" => op[n] # "read"
    /\ pc[n] # "done" => op[n] # "none"
    /\ pc[n] = "write" => op[n] # "read"
    /\ pc[n] = "list" => hand[n] # None /\ op[n] # "delete"
    /\ pc[n] = "list" /\ op[n] = "read" => state[n].order = -1
    /\ pc[n] \in {"get", "list"} /\ op[n] = "read" => state[n] # None
    /\ op[n] \in {"create", "update"} => config[n] # None

\* Reading the definition of n again would give the model m again.
Fits(n, m) ==
  LET d == remote[n]
  IN /\ d # None /\ d.kind = m.kind /\ d.group = m.group
     /\ IF m.order # -1 THEN m.order = d.order
        ELSE \A j \in Names : remote[j] # None /\ remote[j].group = d.group
                                => remote[j].order <= d.order
     /\ m.options = Preserved(d.options, m.options)

\* What an undisturbed run has found; List compares what is there still.
HandTells == quiet => \A n \in Names : pc[n] = "list" => hand[n] = remote[n]
RefreshTells ==
  phase = "refresh" /\ quiet /\ ~failed =>
    \A n \in Names : pc[n] = "done" /\ state[n] # None => Fits(n, state[n])

\* The configuration of n is in state and would be read back.
Reached(n) ==
  IF config[n] = None THEN state[n] = None
  ELSE state[n] = Wanted(n) /\ n \notin tainted /\ Fits(n, state[n])

\* What an undisturbed apply has reached.
ApplyTells ==
  phase = "apply" /\ quiet /\ ~failed =>
    \A n \in Names :
      /\ op[n] # "delete" => n \notin tainted
      /\ op[n] = "delete" /\ pc[n] = "done" => state[n] = None
      /\ op[n] # "delete" /\ pc[n] = "done" /\ Alone => Reached(n)

\* What remains of a run that succeeded.
SettledTells == settled => quiet /\ (Alone => \A n \in Names : Reached(n))

Base == TypeOK /\ Numbers /\ RequestsCarry /\ Places
Tells == /\ HandTells /\ RefreshTells /\ ApplyTells /\ SettledTells
         /\ EmptyPlanHidesNoDrift /\ SettledPlanEmpty
IInv == Base /\ Tells

----------------------------------------------------------------------------
\* Orders are bounded, so that a set of them has a greatest element.
LEMMA GreatestExists ==
  ASSUME NEW M \in Nat, NEW S \in SUBSET (-1..M), S # {}
  PROVE  Max(S) \in S /\ \A x \in S : x <= Max(S)
<1> DEFINE T == {M - x : x \in S}
<1>1. T \subseteq Nat /\ T # {}
  <2>1. \A x \in S : M - x \in Nat
    OBVIOUS
  <2>2. PICK x \in S : TRUE
    OBVIOUS
  <2>3. M - x \in T
    OBVIOUS
  <2> QED BY <2>1, <2>3
<1>2. PICK t \in T : \A u \in T : ~(<<u, t>> \in OpToRel(<, Nat))
  BY <1>1, WFMin, NatLessThanWellFounded
<1>3. \A u \in T : ~(u < t)
  BY <1>1, <1>2 DEF OpToRel
<1>4. PICK x \in S : t = M - x
  BY <1>2
<1>5. \A y \in S : x >= y
  <2> TAKE y \in S
  <2>1. ~(M - y < t)
    BY <1>3
  <2> QED BY <2>1, <1>4
<1> QED BY <1>5 DEF Max

LEMMA LeastOfTwo ==
  ASSUME NEW a \in Int, NEW b \in Int
  PROVE  Min({a, b}) = IF a <= b THEN a ELSE b
BY DEF Min


----------------------------------------------------------------------------
(* Properties: definitions, plans and option maps.                        *)

LEMMA PlanShape ==
  Plans = [kind : Kinds, group : PropGroups, order : -1..MaxOrder,
           options : OptionMaps(OptionOrders \cup {-1}) \cup {None}]
<1> DEFINE R == [kind : Kinds, group : PropGroups, order : -1..MaxOrder,
                 options : OptionMaps(OptionOrders \cup {-1}) \cup {None}]
<1>1. NoOptions \in OptionMaps(OptionOrders \cup {-1})
  BY DEF NoOptions, OptionMaps
<1>2. ASSUME NEW p \in Plans PROVE p \in R
  BY DEF Plans, Models
<1>3. ASSUME NEW p \in R PROVE p \in Plans
  <2>1. CASE p.options # None
    BY <1>3, <2>1 DEF Plans, Models
  <2>2. CASE p.options = None
    <3> DEFINE m == [p EXCEPT !.options = NoOptions]
    <3>1. m \in Models
      BY <1>1, <1>3 DEF Models
    <3>2. p = [m EXCEPT !.options = None]
      BY <1>3, <2>2
    <3> HIDE DEF m
    <3> QED BY <3>1, <3>2 DEF Plans
  <2> QED BY <2>1, <2>2
<1> QED BY <1>2, <1>3

LEMMA OptionMapShape ==
  ASSUME NEW orders, NEW o
  PROVE  o \in OptionMaps(orders) <=> DOMAIN o \subseteq Values /\ o \in [DOMAIN o -> orders]
<1>1. ASSUME o \in OptionMaps(orders) PROVE DOMAIN o \subseteq Values /\ o \in [DOMAIN o -> orders]
  BY <1>1 DEF OptionMaps
<1>2. ASSUME DOMAIN o \subseteq Values, o \in [DOMAIN o -> orders] PROVE o \in OptionMaps(orders)
  BY <1>2 DEF OptionMaps
<1> QED BY <1>1, <1>2

LEMMA ValuesAreFew ==
  ASSUME NEW vs \in SUBSET Values
  PROVE  /\ IsFiniteSet(vs) /\ Cardinality(vs) \in Nat
         /\ Cardinality(vs) <= Cardinality(Values)
         /\ Cardinality(Values) \in Nat
         /\ \A ws \in SUBSET vs : Cardinality(ws) \in Nat /\ Cardinality(ws) <= Cardinality(vs)
<1>1. IsFiniteSet(Values) /\ Cardinality(Values) \in Nat
  BY PropertyAssumption, FS_CardinalityType
<1>2. \A ws \in SUBSET Values : IsFiniteSet(ws) /\ Cardinality(ws) <= Cardinality(Values)
  BY <1>1, FS_Subset
<1>3. \A ws \in SUBSET Values : Cardinality(ws) \in Nat
  BY <1>2, FS_CardinalityType
<1>4. \A ws \in SUBSET vs : Cardinality(ws) <= Cardinality(vs)
  BY <1>2, FS_Subset
<1> QED BY <1>1, <1>2, <1>3, <1>4

\* What is below the bound is dense, whoever wrote it.
LEMMA BoundedIsDense ==
  ASSUME NEW o \in OptionMaps(OptionOrders \cup {-1}), Range(o) \subseteq -1..MaxOrder
  PROVE  Dense(o)
<1> SUFFICES ASSUME NEW v \in DOMAIN o PROVE o[v] <= MaxOrder + Cardinality(UpTo(o, v))
  BY DEF Dense
<1>1. UpTo(o, v) \in SUBSET Values
  BY OptionMapShape DEF UpTo
<1>2. Cardinality(UpTo(o, v)) \in Nat
  BY <1>1, ValuesAreFew
<1>3. o[v] \in -1..MaxOrder
  BY DEF Range
<1> QED BY <1>2, <1>3, PropertyAssumption

\* Dense numbers stay within the orders that a map may have.
LEMMA DenseIsBounded ==
  ASSUME NEW o, DOMAIN o \in SUBSET Values, \A v \in DOMAIN o : o[v] \in Nat, Dense(o)
  PROVE  \A v \in DOMAIN o : o[v] \in OptionOrders
<1> TAKE v \in DOMAIN o
<1>1. UpTo(o, v) \in SUBSET Values
  BY DEF UpTo
<1>2. /\ Cardinality(UpTo(o, v)) \in Nat /\ Cardinality(Values) \in Nat
      /\ Cardinality(UpTo(o, v)) <= Cardinality(Values)
  BY <1>1, ValuesAreFew
<1>3. o[v] <= MaxOrder + Cardinality(UpTo(o, v)) /\ o[v] \in Nat
  BY DEF Dense
<1> QED BY <1>2, <1>3, PropertyAssumption DEF OptionOrders

\* The portal numbers the options that ask for the end: behind all others, and
\* without leaving a gap.
LEMMA NumberedIsDense ==
  ASSUME NEW o \in OptionMaps(OptionOrders \cup {-1}), Dense(o)
  PROVE  /\ Numbered(o) \in OptionMaps(OptionOrders) /\ Dense(Numbered(o))
         /\ DOMAIN Numbered(o) = DOMAIN o
<1> DEFINE S == Sentinels(o)
           N == DOMAIN o \ S
           last == Max({-1} \cup Range(o))
           T(v) == {w \in S : w <= v}
           K == MaxOrder + Cardinality(Values)
<1> DEFINE c == [v \in DOMAIN o |-> IF v \in S THEN last + Cardinality(T(v)) ELSE o[v]]
<1>1. /\ DOMAIN o \in SUBSET Values /\ Values \subseteq Nat /\ MaxOrder \in Nat
      /\ K \in Nat /\ \A v \in DOMAIN o : o[v] \in -1..K
      /\ S \subseteq DOMAIN o
  BY OptionMapShape, ValuesAreFew, PropertyAssumption DEF OptionOrders, Sentinels
<1>2. Numbered(o) = c
  BY DEF Numbered, Sentinels
<1>16. \A v \in S : v \in DOMAIN o /\ v \in Values /\ v \in Nat
  <2> HIDE DEF S, c
  <2> QED BY <1>1
<1> HIDE DEF c
<1>3. last \in {-1} \cup Range(o) /\ last \in -1..K /\ \A v \in DOMAIN o : o[v] <= last
  <2> DEFINE R == {-1} \cup Range(o)
  <2>1. R \in SUBSET (-1..K) /\ R # {} /\ \A v \in DOMAIN o : o[v] \in R
    BY <1>1 DEF Range
  <2>2. Max(R) \in R /\ \A x \in R : x <= Max(R)
    BY <1>1, <2>1, GreatestExists
  <2>3. last = Max(R)
    OBVIOUS
  <2> HIDE DEF R, last
  <2>4. Max(R) \in -1..K /\ \A v \in DOMAIN o : o[v] <= Max(R)
    BY <2>1, <2>2
  <2> QED BY <2>2, <2>3, <2>4 DEF R
<1>4. IsFiniteSet(N) /\ Cardinality(N) \in Nat
  BY <1>1, ValuesAreFew
<1> HIDE DEF last, K
<1>5. last <= MaxOrder + Cardinality(N)
  <2>1. CASE last = -1
    BY <1>1, <1>4, <2>1
  <2>2. CASE last # -1
    <3>1. PICK x \in DOMAIN o : last = o[x]
      BY <1>3, <2>2 DEF Range
    <3>2. UpTo(o, x) \in SUBSET N
      BY DEF UpTo, Sentinels
    <3>3. N \in SUBSET Values
      BY <1>1
    <3>4. Cardinality(UpTo(o, x)) \in Nat /\ Cardinality(UpTo(o, x)) <= Cardinality(N)
      BY <3>2, <3>3, ValuesAreFew
    <3>5. last <= MaxOrder + Cardinality(UpTo(o, x))
      BY <3>1 DEF Dense
    <3> QED BY <1>1, <1>3, <1>4, <3>4, <3>5
  <2> QED BY <2>1, <2>2
<1>6. ASSUME NEW v \in S
      PROVE  /\ T(v) \in SUBSET Values /\ IsFiniteSet(T(v))
             /\ Cardinality(T(v)) \in Nat /\ Cardinality(T(v)) >= 1
             /\ \A w \in T(v) : Cardinality(T(w)) <= Cardinality(T(v))
  <2>1. T(v) \in SUBSET Values /\ v \in T(v)
    <3>1. v \in Nat /\ v <= v
      BY <1>16
    <3>2. T(v) \subseteq Values
      BY <1>16
    <3> QED BY <3>1, <3>2
  <2>2. IsFiniteSet(T(v)) /\ Cardinality(T(v)) \in Nat
    BY <2>1, ValuesAreFew
  <2>3. Cardinality({v}) <= Cardinality(T(v)) /\ Cardinality({v}) = 1
    <3>1. {v} \in SUBSET T(v)
      BY <2>1
    <3> QED BY <2>2, <3>1, FS_Singleton, FS_Subset
  <2>4. ASSUME NEW w \in T(v) PROVE Cardinality(T(w)) <= Cardinality(T(v))
    <3>1. ASSUME NEW x \in T(w) PROVE x \in T(v)
      <4>1. x \in S /\ x <= w /\ w <= v
        OBVIOUS
      <4>2. x \in Nat /\ w \in Nat /\ v \in Nat
        BY <1>16, <4>1
      <4>3. x <= v
        BY <4>1, <4>2
      <4> QED BY <4>1, <4>3
    <3>2. T(w) \in SUBSET T(v)
      BY <3>1
    <3> HIDE DEF T
    <3> QED BY <2>2, <3>2, FS_Subset
  <2> QED BY <2>1, <2>2, <2>3, <2>4
<1>14. \A v \in S : \A w \in T(v) : w \in S /\ w <= v
  OBVIOUS
<1>15. \A v \in S : T(v) \subseteq S
  OBVIOUS
<1> HIDE DEF T
<1>7. /\ DOMAIN c = DOMAIN o /\ \A v \in DOMAIN o : c[v] \in Nat
      /\ \A v \in S : c[v] = last + Cardinality(T(v))
      /\ \A v \in N : c[v] = o[v]
  <2>1. \A v \in S : c[v] = last + Cardinality(T(v))
    BY <1>1 DEF c
  <2>2. \A v \in N : c[v] = o[v] /\ o[v] # -1
    BY DEF Sentinels, c
  <2>3. \A v \in S : last + Cardinality(T(v)) \in Nat
    BY <1>1, <1>3, <1>6
  <2>4. \A v \in N : o[v] \in Nat
    BY <1>1, <2>2
  <2>5. DOMAIN c = DOMAIN o
    BY DEF c
  <2> QED BY <2>1, <2>2, <2>3, <2>4, <2>5
<1>8. ASSUME NEW v \in S PROVE c[v] <= MaxOrder + Cardinality(UpTo(c, v))
  <2>1. \A w \in N : w \in UpTo(c, v)
    <3> TAKE w \in N
    <3>1. c[w] <= last /\ c[w] \in Nat
      BY <1>3, <1>7
    <3>2. c[v] > last /\ c[v] \in Nat
      <4>1. c[v] = last + Cardinality(T(v)) /\ c[v] \in Nat
        BY <1>1, <1>7
      <4>2. Cardinality(T(v)) \in Nat /\ Cardinality(T(v)) >= 1 /\ last \in Int
        BY <1>3, <1>6
      <4> QED BY <4>1, <4>2
    <3>3. last \in Int
      BY <1>3
    <3>4. ~Before(c, v, w)
      BY <3>1, <3>2, <3>3 DEF Before
    <3> QED BY <1>7, <3>1, <3>4 DEF UpTo
  <2>2. \A w \in T(v) : w \in UpTo(c, v)
    <3> TAKE w \in T(v)
    <3>1. c[w] <= c[v] /\ c[w] \in Nat /\ c[v] \in Nat
      <4>1. w \in S /\ v \in S
        BY <1>14
      <4>2. /\ c[w] = last + Cardinality(T(w)) /\ c[v] = last + Cardinality(T(v))
            /\ c[w] \in Nat /\ c[v] \in Nat
        BY <1>1, <1>7, <4>1
      <4>3. /\ Cardinality(T(w)) <= Cardinality(T(v)) /\ last \in Int
            /\ Cardinality(T(w)) \in Nat /\ Cardinality(T(v)) \in Nat
        BY <1>3, <1>6, <4>1
      <4> QED BY <4>2, <4>3
    <3>2. w <= v /\ w \in Nat /\ v \in Nat
      BY <1>14, <1>16
    <3>3. ~Before(c, v, w)
      BY <3>1, <3>2 DEF Before
    <3>4. w \in DOMAIN c /\ c[w] # -1
      BY <1>7, <1>14, <1>16, <3>1
    <3> QED BY <3>3, <3>4 DEF UpTo
  <2>3. Cardinality(N \cup T(v)) = Cardinality(N) + Cardinality(T(v))
    <3>1. N \cap T(v) = {} /\ Cardinality({}) = 0
      BY <1>15, FS_EmptySet
    <3> HIDE DEF N, S
    <3>2. Cardinality(N \cup T(v)) = Cardinality(N) + Cardinality(T(v)) - Cardinality(N \cap T(v))
      BY <1>4, <1>6, FS_Union
    <3>3. Cardinality(N \cap T(v)) = 0
      BY <3>1
    <3>4. Cardinality(N) \in Nat /\ Cardinality(T(v)) \in Nat
      BY <1>4, <1>6
    <3> QED BY <3>2, <3>3, <3>4
  <2>4. UpTo(c, v) \in SUBSET Values /\ N \cup T(v) \in SUBSET UpTo(c, v)
    <3>1. UpTo(c, v) \subseteq Values
      BY <1>1, <1>7 DEF UpTo
    <3> QED BY <2>1, <2>2, <3>1
  <2>5. /\ Cardinality(N \cup T(v)) <= Cardinality(UpTo(c, v))
        /\ Cardinality(UpTo(c, v)) \in Nat
    BY <2>4, ValuesAreFew
  <2> HIDE DEF S, N, T
  <2> QED BY <1>1, <1>3, <1>4, <1>5, <1>6, <1>7, <2>3, <2>5
<1>9. ASSUME NEW v \in N PROVE c[v] <= MaxOrder + Cardinality(UpTo(c, v))
  <2>1. \A w \in UpTo(o, v) : w \in UpTo(c, v)
    <3> TAKE w \in UpTo(o, v)
    <3>1. w \in N /\ ~Before(o, v, w)
      BY DEF UpTo, Sentinels
    <3>2. c[w] = o[w] /\ c[v] = o[v] /\ c[w] \in Nat
      BY <1>7, <3>1
    <3> QED BY <1>7, <3>1, <3>2 DEF UpTo, Before
  <2>2. UpTo(c, v) \in SUBSET Values /\ UpTo(o, v) \in SUBSET UpTo(c, v)
    BY <1>1, <1>7, <2>1 DEF UpTo
  <2>3. /\ Cardinality(UpTo(o, v)) <= Cardinality(UpTo(c, v))
        /\ Cardinality(UpTo(o, v)) \in Nat /\ Cardinality(UpTo(c, v)) \in Nat
    BY <2>2, ValuesAreFew
  <2>4. c[v] <= MaxOrder + Cardinality(UpTo(o, v)) /\ c[v] \in Nat
    BY <1>7 DEF Dense
  <2> QED BY <1>1, <2>3, <2>4
<1>10. Dense(c)
  BY <1>1, <1>7, <1>8, <1>9 DEF Dense
<1>11. \A v \in DOMAIN c : c[v] \in OptionOrders
  BY <1>1, <1>7, <1>10, DenseIsBounded
<1>12. c \in [DOMAIN c -> OptionOrders]
  BY <1>11 DEF c
<1>13. c \in OptionMaps(OptionOrders)
  BY <1>1, <1>7, <1>12, OptionMapShape
<1> QED BY <1>2, <1>7, <1>10, <1>13

\* Reading back takes the last options only, so that the rest stays dense.
LEMMA PreservedIsDense ==
  ASSUME NEW o \in OptionMaps(OptionOrders), Dense(o), NEW p
  PROVE  /\ Preserved(o, p) \in OptionMaps(OptionOrders \cup {-1})
         /\ Dense(Preserved(o, p))
         /\ Preserved(o, Preserved(o, p)) = Preserved(o, p)
<1> DEFINE S == Sentinels(p)
           m == [v \in DOMAIN o |-> IF v \in S THEN -1 ELSE o[v]]
<1>1. /\ DOMAIN o \in SUBSET Values /\ Values \subseteq Nat /\ MaxOrder \in Nat
      /\ o \in [DOMAIN o -> OptionOrders]
      /\ \A v \in DOMAIN o : o[v] \in Nat
  BY OptionMapShape, ValuesAreFew, PropertyAssumption DEF OptionOrders
<1>2. CASE Preserved(o, p) = o
  <2>1. o \in OptionMaps(OptionOrders \cup {-1})
    BY <1>1, OptionMapShape
  <2>2. Preserved(o, o) = o
    <3>1. Sentinels(o) = {}
      BY <1>1 DEF Sentinels
    <3>2. [v \in DOMAIN o |-> IF v \in {} THEN -1 ELSE o[v]] = o
      BY <1>1
    <3> QED BY <3>1, <3>2 DEF Preserved
  <2> QED BY <1>2, <2>1, <2>2
<1>3. CASE Preserved(o, p) # o
  <2>1. p # None /\ AreTail(o, S) /\ Preserved(o, p) = m
    BY <1>3 DEF Preserved
  <2>2. /\ DOMAIN m = DOMAIN o /\ S \subseteq DOMAIN o
        /\ \A v \in S : m[v] = -1
        /\ \A v \in DOMAIN o \ S : m[v] = o[v]
    BY <2>1 DEF AreTail
  <2>3. m \in OptionMaps(OptionOrders \cup {-1})
    <3>1. m \in [DOMAIN o -> OptionOrders \cup {-1}]
      BY <1>1
    <3> HIDE DEF m
    <3> QED BY <1>1, <2>2, <3>1, OptionMapShape
  <2>4. m # None
    BY <2>3, PropertyAssumption
  <2>5. Sentinels(m) = S
    <3>1. \A v \in DOMAIN o \ S : m[v] # -1
      BY <1>1, <2>2
    <3> HIDE DEF S, m
    <3> QED BY <2>2, <3>1 DEF Sentinels
  <2>6. Preserved(o, m) = m
    BY <2>1, <2>4, <2>5 DEF Preserved
  <2>7. Dense(m)
    <3> SUFFICES ASSUME NEW v \in DOMAIN m PROVE m[v] <= MaxOrder + Cardinality(UpTo(m, v))
      BY DEF Dense
    <3> HIDE DEF m, S
    <3>1. UpTo(m, v) \in SUBSET Values
      BY <1>1, <2>2 DEF UpTo
    <3>2. Cardinality(UpTo(m, v)) \in Nat
      BY <3>1, ValuesAreFew
    <3>3. CASE v \in S
      BY <1>1, <2>2, <3>2, <3>3
    <3>4. CASE v \notin S
      <4>1. \A w \in DOMAIN o : w \in UpTo(o, v) => w \in UpTo(m, v)
        <5> TAKE w \in DOMAIN o
        <5>1. CASE w \in S
          <6>1. Before(o, v, w)
            BY <2>1, <2>2, <3>4, <5>1 DEF AreTail
          <6> QED BY <6>1 DEF UpTo
        <5>2. CASE w \notin S
          <6>1. m[w] = o[w] /\ m[v] = o[v] /\ o[w] # -1
            BY <1>1, <2>2, <3>4, <5>2
          <6> QED BY <2>2, <6>1 DEF UpTo, Before
        <5> QED BY <5>1, <5>2
      <4>2. UpTo(o, v) \in SUBSET UpTo(m, v)
        BY <4>1 DEF UpTo
      <4>3. Cardinality(UpTo(o, v)) \in Nat /\ Cardinality(UpTo(o, v)) <= Cardinality(UpTo(m, v))
        BY <3>1, <4>2, ValuesAreFew
      <4>4. m[v] = o[v] /\ o[v] <= MaxOrder + Cardinality(UpTo(o, v)) /\ o[v] \in Nat
        BY <1>1, <2>2, <3>4 DEF Dense
      <4> QED BY <1>1, <3>2, <4>3, <4>4
    <3> QED BY <3>3, <3>4
  <2> QED BY <2>1, <2>3, <2>6, <2>7
<1> QED BY <1>2, <1>3

----------------------------------------------------------------------------
(* Properties: what is sent, and what becomes of it.                      *)

\* The last place of a group is that of its last definition.
LEMMA LastIsGreatest ==
  ASSUME remote \in [Names -> Definitions \cup {None}], NEW g, NEW ns \in SUBSET Names
  PROVE  /\ LastOrder(g, ns) \in -1..MaxOrder
         /\ \A n \in ns : remote[n] # None /\ remote[n].group = g
                            => remote[n].order <= LastOrder(g, ns)
         /\ \/ LastOrder(g, ns) = -1
            \/ \E n \in ns : /\ remote[n] # None /\ remote[n].group = g
                             /\ LastOrder(g, ns) = remote[n].order
<1> DEFINE A == {m \in ns : remote[m] # None /\ remote[m].group = g}
           S == {-1} \cup {remote[n].order : n \in A}
<1>1. \A n \in ns : remote[n] # None => remote[n].order \in 0..MaxOrder
  BY DEF Definitions
<1>2. S \in SUBSET (-1..MaxOrder) /\ S # {}
  BY <1>1, PropertyAssumption
<1>3. Max(S) \in S /\ \A x \in S : x <= Max(S)
  BY <1>2, GreatestExists, PropertyAssumption
<1>4. LastOrder(g, ns) = Max(S)
  BY DEF LastOrder
<1>5. \A n \in ns : remote[n] # None /\ remote[n].group = g => remote[n].order \in S
  OBVIOUS
<1>6. \A x \in S : x = -1 \/ \E n \in ns : /\ remote[n] # None /\ remote[n].group = g
                                           /\ x = remote[n].order
  OBVIOUS
<1> HIDE DEF S
<1> QED BY <1>2, <1>3, <1>4, <1>5, <1>6

LEMMA PlaceIsOrder ==
  ASSUME remote \in [Names -> Definitions \cup {None}], NEW n \in Names, NEW m \in Plans
  PROVE  Place(n, m) \in 0..MaxOrder
<1> DEFINE next == LastOrder(m.group, Names \ {n}) + 1
<1>1. next \in Nat /\ MaxOrder \in Nat
  BY LastIsGreatest, PropertyAssumption
<1>2. m.order \in -1..MaxOrder
  BY PlanShape
<1>3. Place(n, m) = IF m.order # -1 THEN m.order ELSE Min({next, MaxOrder})
  BY DEF Place
<1> HIDE DEF next
<1>4. Min({next, MaxOrder}) \in 0..MaxOrder
  BY <1>1, LeastOfTwo
<1> QED BY <1>1, <1>2, <1>3, <1>4

LEMMA SentIsMap ==
  ASSUME NEW m \in Plans
  PROVE  Sent(m) \in OptionMaps(OptionOrders \cup {-1})
<1>1. NoOptions \in OptionMaps(OptionOrders \cup {-1})
  BY DEF NoOptions, OptionMaps
<1> QED BY <1>1, PlanShape DEF Sent

\* A request that is carried out changes one definition, and keeps types.
LEMMA EffectIsLocal ==
  ASSUME remote \in [Names -> Definitions \cup {None}], NEW r \in Requests,
         r.kind # "delete" => r.model # None,
         r.model # None => Dense(Sent(r.model))
  PROVE  /\ Effect(r) \in [Names -> Definitions \cup {None}]
         /\ \A j \in Names \ {r.name} : Effect(r)[j] = remote[j]
         /\ r.kind = "delete" => Effect(r)[r.name] = None
         /\ r.kind # "delete" => /\ Effect(r)[r.name] # None
                                 /\ Effect(r)[r.name].group = r.model.group
                                 /\ Dense(Effect(r)[r.name].options)
<1>1. r.name \in Names
  BY DEF Requests
<1>2. CASE r.kind = "delete"
  BY <1>1, <1>2 DEF Effect
<1>3. CASE r.kind # "delete"
  <2> DEFINE d == [kind |-> r.model.kind, group |-> r.model.group,
                   order |-> Place(r.name, r.model),
                   options |-> Numbered(Sent(r.model)), locked |-> FALSE]
  <2>1. r.model \in Plans /\ r.model.kind \in Kinds /\ r.model.group \in PropGroups
    BY <1>3, PlanShape DEF Requests
  <2>2. Place(r.name, r.model) \in 0..MaxOrder
    BY <1>1, <2>1, PlaceIsOrder
  <2>3. Numbered(Sent(r.model)) \in OptionMaps(OptionOrders) /\ Dense(Numbered(Sent(r.model)))
    BY <1>3, <2>1, SentIsMap, NumberedIsDense
  <2>4. d \in Definitions
    BY <2>1, <2>2, <2>3 DEF Definitions
  <2>5. d # None
    BY <2>4, PropertyAssumption
  <2>6. d.group = r.model.group /\ Dense(d.options)
    BY <2>3
  <2>7. Effect(r) = [remote EXCEPT ![r.name] = d]
    BY <1>3 DEF Effect
  <2> HIDE DEF d
  <2> QED BY <1>1, <1>3, <2>4, <2>5, <2>6, <2>7
<1> QED BY <1>2, <1>3

\* What is planned for a configured property.
LEMMA WantedIsPlan ==
  ASSUME TypeOK, Numbers, NEW n \in Names, config[n] # None
  PROVE  /\ Wanted(n) \in Plans /\ Wanted(n) # None
         /\ Wanted(n).kind = config[n].kind /\ Wanted(n).group = config[n].group
         /\ Wanted(n).order = config[n].order /\ Wanted(n).options = PlannedOptions(n)
         /\ config[n].options # None => PlannedOptions(n) = config[n].options
         /\ Dense(Sent(Wanted(n)))
<1>1. config[n] \in {p \in Plans : p.options # None => Range(p.options) \subseteq -1..MaxOrder}
  BY PropertyAssumption DEF TypeOK
<1>2. config[n] \in [kind : Kinds, group : PropGroups, order : -1..MaxOrder,
           options : OptionMaps(OptionOrders \cup {-1}) \cup {None}]
  BY <1>1, PlanShape
<1>3. NoOptions \in OptionMaps(OptionOrders \cup {-1}) /\ Dense(NoOptions)
  BY DEF NoOptions, OptionMaps, Dense
<1>4. state[n] # None => /\ state[n].options \in OptionMaps(OptionOrders \cup {-1})
                         /\ Dense(state[n].options)
  BY DEF TypeOK, Numbers, Models
<1>5. config[n].options # None =>
        /\ config[n].options \in OptionMaps(OptionOrders \cup {-1})
        /\ Dense(config[n].options)
  <2> HAVE config[n].options # None
  <2>1. config[n].options \in OptionMaps(OptionOrders \cup {-1})
    BY <1>2
  <2>2. Range(config[n].options) \subseteq -1..MaxOrder
    BY <1>1
  <2> QED BY <2>1, <2>2, BoundedIsDense
<1>6. /\ PlannedOptions(n) \in OptionMaps(OptionOrders \cup {-1}) \cup {None}
      /\ PlannedOptions(n) # None => Dense(PlannedOptions(n))
      /\ config[n].options # None => PlannedOptions(n) = config[n].options
  BY <1>3, <1>4, <1>5 DEF PlannedOptions
<1>7. /\ Wanted(n).kind = config[n].kind /\ Wanted(n).group = config[n].group
      /\ Wanted(n).order = config[n].order /\ Wanted(n).options = PlannedOptions(n)
      /\ Wanted(n) \in [kind : Kinds, group : PropGroups, order : -1..MaxOrder,
           options : OptionMaps(OptionOrders \cup {-1}) \cup {None}]
  BY <1>2, <1>6 DEF Wanted
<1>8. Wanted(n) \in Plans /\ Wanted(n) # None
  BY <1>7, PlanShape, PropertyAssumption
<1>9. Dense(Sent(Wanted(n)))
  BY <1>3, <1>6, <1>7 DEF Sent
<1> QED BY <1>6, <1>7, <1>8, <1>9

\* The request that a writing handler sends.
LEMMA RequestIsRequest ==
  ASSUME Base, NEW n \in Names, pc[n] = "write"
  PROVE  /\ Request(n) \in Requests /\ Request(n).name = n /\ Request(n).kind = op[n]
         /\ Request(n).kind # "delete" =>
              Request(n).model # None /\ Request(n).model.group = config[n].group
         /\ Request(n).model # None => Dense(Sent(Request(n).model))
         /\ phase = "apply" /\ op[n] \in {"create", "update", "delete"}
<1>1. phase = "apply" /\ op[n] \in {"create", "update", "delete"}
      /\ (op[n] # "delete" => config[n] # None)
  BY DEF Base, Places, TypeOK
<1>2. op[n] # "delete" => /\ Wanted(n) \in Plans /\ Wanted(n) # None
                          /\ Wanted(n).group = config[n].group /\ Dense(Sent(Wanted(n)))
  BY <1>1, WantedIsPlan DEF Base
<1> QED BY <1>1, <1>2 DEF Request, Requests

----------------------------------------------------------------------------
(* Properties: what handlers have in common.                              *)

LEMMA GoesTo ==
  ASSUME TypeOK, NEW n \in Names, NEW l \in {"done", "write", "get", "list"}, Goto(n, l)
  PROVE  /\ pc' \in [Names -> {"done", "write", "get", "list"}]
         /\ pc'[n] = l /\ \A j \in Names \ {n} : pc'[j] = pc[j]
BY DEF Goto, TypeOK

LEMMA RunningHandler ==
  ASSUME Base, NEW n \in Names, pc[n] # "done"
  PROVE  /\ \/ phase = "refresh" /\ op[n] = "read"
            \/ phase = "apply" /\ op[n] # "read"
         /\ op[n] \in {"read", "create", "update", "delete"}
         /\ op[n] = "read" /\ pc[n] # "write" => state[n] # None
BY DEF Base, Places, TypeOK

\* A write changes one definition, and keeps what is sent later in order.
LEMMA WriteIsLocal ==
  ASSUME Base, NEW n \in Names, pc[n] = "write",
         remote' = remote \/ remote' = Effect(Request(n)),
         late' = late \/ late' = late \cup {Request(n)}
  PROVE  /\ remote' \in [Names -> Definitions \cup {None}]
         /\ \A j \in Names \ {n} : remote'[j] = remote[j]
         /\ \A j \in Names : remote'[j] # None => Dense(remote'[j].options)
         /\ \/ remote'[n] = None \/ remote'[n] = remote[n]
            \/ config[n] # None /\ remote'[n].group = config[n].group
         /\ late' \subseteq Requests
         /\ \A r \in late' : r.kind # "delete" => r.model # None
         /\ \A r \in late' : r.model # None => Dense(Sent(r.model))
<1>1. /\ Request(n) \in Requests /\ Request(n).name = n
      /\ Request(n).kind # "delete" =>
              Request(n).model # None /\ Request(n).model.group = config[n].group
      /\ Request(n).model # None => Dense(Sent(Request(n).model))
      /\ op[n] # "delete" => config[n] # None
      /\ Request(n).kind = op[n]
  BY RequestIsRequest DEF Base, Places
<1>2. /\ late' \subseteq Requests
      /\ \A r \in late' : r.kind # "delete" => r.model # None
      /\ \A r \in late' : r.model # None => Dense(Sent(r.model))
  BY <1>1 DEF Base, TypeOK, Numbers, RequestsCarry
<1>3. CASE remote' = remote
  BY <1>2, <1>3 DEF Base, TypeOK, Numbers
<1>4. CASE remote' = Effect(Request(n))
  <2>1. /\ remote' \in [Names -> Definitions \cup {None}]
        /\ \A j \in Names \ {n} : remote'[j] = remote[j]
        /\ Request(n).kind = "delete" => remote'[n] = None
        /\ Request(n).kind # "delete" => /\ remote'[n].group = Request(n).model.group
                                         /\ Dense(remote'[n].options)
    BY <1>1, <1>4, EffectIsLocal DEF Base, TypeOK
  <2>2. \A j \in Names : remote'[j] # None => Dense(remote'[j].options)
    BY <2>1 DEF Base, Numbers
  <2> QED BY <1>1, <1>2, <2>1, <2>2
<1> QED BY <1>3, <1>4

LEMMA WantedIsKept ==
  ASSUME NEW n \in Names, UNCHANGED config, state'[n] = state[n]
  PROVE  Wanted(n)' = Wanted(n)
BY DEF Wanted, PlannedOptions

LEMMA ReachedIsKept ==
  ASSUME NEW n \in Names, UNCHANGED <<remote, config>>, state'[n] = state[n],
         n \in tainted' => n \in tainted, Reached(n)
  PROVE  Reached(n)'
<1>1. Wanted(n)' = Wanted(n)
  BY WantedIsKept
<1>2. Fits(n, state[n])' <=> Fits(n, state[n])
  BY DEF Fits
<1> QED BY <1>1, <1>2 DEF Reached

\* What others write leaves a property that is alone in asking for the last
\* place where it is.
LEMMA ReachedDespiteOthers ==
  ASSUME Base, NEW n \in Names, NEW k \in Names, k # n, Alone,
         UNCHANGED config, state'[n] = state[n], n \in tainted' => n \in tainted,
         \A j \in Names \ {k} : remote'[j] = remote[j],
         \/ remote'[k] = None \/ remote'[k] = remote[k]
         \/ config[k] # None /\ remote'[k].group = config[k].group,
         Reached(n)
  PROVE  Reached(n)'
<1>1. Wanted(n)' = Wanted(n)
  BY WantedIsKept
<1>2. CASE config[n] = None
  BY <1>2 DEF Reached
<1>3. CASE config[n] # None
  <2>1. state[n] = Wanted(n) /\ n \notin tainted /\ Fits(n, state[n])
    BY <1>3 DEF Reached
  <2>2. state[n].order = config[n].order /\ state[n].group = config[n].group
    BY <1>3, <2>1, WantedIsPlan DEF Base
  <2>3. remote'[n] = remote[n] /\ remote[n].group = config[n].group
    BY <2>1, <2>2 DEF Fits
  <2>4. ASSUME config[n].order = -1, NEW j \in Names, remote'[j] # None,
               remote'[j].group = remote[n].group
        PROVE  remote'[j].order <= remote[n].order
    <3>1. remote'[j] = remote[j]
      BY <1>3, <2>3, <2>4 DEF Alone
    <3> QED BY <2>1, <2>2, <2>4, <3>1 DEF Fits
  <2>5. Fits(n, state[n])'
    BY <2>1, <2>2, <2>3, <2>4 DEF Fits
  <2> QED BY <1>1, <1>3, <2>1, <2>5 DEF Reached
<1> QED BY <1>2, <1>3

\* A run that goes on after one that succeeded has nothing to do.
LEMMA SettledDoesNothing ==
  ASSUME IInv, NEW n \in Names, pc[n] # "done", phase = "apply"
  PROVE  ~settled \/ ~Alone
BY DEF IInv, Base, Places, Tells, SettledPlanEmpty

\* A handler that fails ends the claims of this run.
LEMMA FailStep ==
  ASSUME IInv, NEW n \in Names, pc[n] # "done", Fail(n), Frame,
         remote' = remote \/ (pc[n] = "write" /\ remote' = Effect(Request(n))),
         late' = late \/ (pc[n] = "write" /\ late' = late \cup {Request(n)}),
         settled' = settled, trouble' \in 0..MaxTrouble
  PROVE  IInv'
<1>1. /\ UNCHANGED <<config, phase, op, quiet, settled, state, tainted, hand>>
      /\ failed' = TRUE
  BY DEF Fail, Frame, kept
<1>2. /\ pc' \in [Names -> {"done", "write", "get", "list"}]
      /\ pc'[n] = "done" /\ \A j \in Names \ {n} : pc'[j] = pc[j]
  BY GoesTo DEF Fail, IInv, Base
<1>3. /\ remote' \in [Names -> Definitions \cup {None}]
      /\ \A j \in Names \ {n} : remote'[j] = remote[j]
      /\ \A j \in Names : remote'[j] # None => Dense(remote'[j].options)
      /\ late' \subseteq Requests
      /\ \A r \in late' : r.kind # "delete" => r.model # None
      /\ \A r \in late' : r.model # None => Dense(Sent(r.model))
  <2>1. CASE pc[n] = "write"
    BY <2>1, WriteIsLocal DEF IInv
  <2>2. CASE pc[n] # "write"
    BY <2>2 DEF IInv, Base, TypeOK, Numbers, RequestsCarry
  <2> QED BY <2>1, <2>2
<1>4. Base'
  <2>1. TypeOK' /\ RequestsCarry'
    BY <1>1, <1>2, <1>3 DEF IInv, Base, TypeOK, RequestsCarry
  <2>2. Numbers'
    BY <1>1, <1>3 DEF IInv, Base, Numbers
  <2>3. Places'
    BY <1>1, <1>2 DEF IInv, Base, Places
  <2> QED BY <2>1, <2>2, <2>3 DEF Base
<1>5. HandTells' /\ RefreshTells' /\ ApplyTells'
  BY <1>1, <1>2, <1>3 DEF IInv, Tells, HandTells, RefreshTells, ApplyTells
<1>6. SettledTells'
  <2>1. Alone' <=> Alone
    BY <1>1 DEF Alone
  <2>2. CASE remote' = remote
    <3>1. \A j \in Names : Reached(j) => Reached(j)'
      BY <1>1, <2>2, ReachedIsKept
    <3> QED BY <1>1, <2>1, <3>1 DEF IInv, Tells, SettledTells
  <2>3. CASE pc[n] = "write"
    <3>1. phase = "apply"
      BY <2>3, RequestIsRequest DEF IInv
    <3> QED BY <1>1, <2>1, <3>1, SettledDoesNothing DEF IInv, Tells, SettledTells
  <2> QED BY <2>2, <2>3
<1>7. EmptyPlanHidesNoDrift' /\ SettledPlanEmpty'
  <2>1. op[n] # "none"
    BY DEF IInv, Base, Places
  <2> QED BY <1>1, <2>1 DEF IInv, Tells, EmptyPlanHidesNoDrift, SettledPlanEmpty, Alone
<1> QED BY <1>4, <1>5, <1>6, <1>7 DEF IInv, Tells

\* A handler whose write may have been carried out goes on to read.
LEMMA ContinueStep ==
  ASSUME IInv, NEW n \in Names, pc[n] = "write", Continue(n, "get"), Frame,
         remote' = remote \/ remote' = Effect(Request(n)),
         late' = late \/ late' = late \cup {Request(n)},
         settled' = settled, trouble' \in 0..MaxTrouble
  PROVE  IInv'
<1>1. UNCHANGED <<config, phase, op, quiet, settled, state, tainted, hand, failed>>
  BY DEF Continue, Frame, kept
<1>2. /\ pc' \in [Names -> {"done", "write", "get", "list"}]
      /\ pc'[n] = "get" /\ \A j \in Names \ {n} : pc'[j] = pc[j]
  BY GoesTo DEF Continue, IInv, Base
<1>3. /\ remote' \in [Names -> Definitions \cup {None}]
      /\ \A j \in Names \ {n} : remote'[j] = remote[j]
      /\ \A j \in Names : remote'[j] # None => Dense(remote'[j].options)
      /\ \/ remote'[n] = None \/ remote'[n] = remote[n]
         \/ config[n] # None /\ remote'[n].group = config[n].group
      /\ late' \subseteq Requests
      /\ \A r \in late' : r.kind # "delete" => r.model # None
      /\ \A r \in late' : r.model # None => Dense(Sent(r.model))
  BY WriteIsLocal DEF IInv
<1>4. phase = "apply" /\ op[n] \in {"create", "update", "delete"}
  BY RequestIsRequest DEF IInv
<1>5. Base'
  <2>1. TypeOK' /\ RequestsCarry'
    BY <1>1, <1>2, <1>3 DEF IInv, Base, TypeOK, RequestsCarry
  <2>2. Numbers'
    BY <1>1, <1>3 DEF IInv, Base, Numbers
  <2>3. Places'
    BY <1>1, <1>2, <1>4 DEF IInv, Base, Places
  <2> QED BY <2>1, <2>2, <2>3 DEF Base
<1>6. Alone' <=> Alone
  BY <1>1 DEF Alone
<1>7. HandTells' /\ RefreshTells'
  BY <1>1, <1>2, <1>3, <1>4 DEF IInv, Tells, HandTells, RefreshTells
<1>8. ApplyTells'
  <2>1. ASSUME Alone, NEW j \in Names \ {n}, Reached(j) PROVE Reached(j)'
    BY <1>1, <1>3, <2>1, ReachedDespiteOthers DEF IInv
  <2> QED BY <1>1, <1>2, <1>6, <2>1 DEF IInv, Tells, ApplyTells
<1>9. SettledTells'
  BY <1>1, <1>4, <1>6, SettledDoesNothing DEF IInv, Tells, SettledTells
<1>10. EmptyPlanHidesNoDrift' /\ SettledPlanEmpty'
  BY <1>1, <1>4, <1>6 DEF IInv, Tells, EmptyPlanHidesNoDrift, SettledPlanEmpty
<1> QED BY <1>5, <1>7, <1>8, <1>9, <1>10 DEF IInv, Tells

\* A handler that lets go of a property that is not there, or is archived.
LEMMA ForgetStep ==
  ASSUME IInv, NEW n \in Names, pc[n] # "done", Forget(n), Frame,
         UNCHANGED <<portal, settled, trouble>>,
         op[n] = "delete" \/ (op[n] = "read" /\ remote[n] = None)
  PROVE  IInv'
<1>1. UNCHANGED <<remote, late, config, phase, op, quiet, settled, trouble, hand, failed>>
  BY DEF Forget, Frame, portal
<1>2. /\ pc' \in [Names -> {"done", "write", "get", "list"}]
      /\ pc'[n] = "done" /\ \A j \in Names \ {n} : pc'[j] = pc[j]
  BY GoesTo DEF Forget, IInv, Base
<1>3. /\ state' \in [Names -> Models \cup {None}]
      /\ tainted' \subseteq {j \in Names : state'[j] # None}
      /\ tainted' \subseteq tainted
      /\ state'[n] = None /\ \A j \in Names \ {n} : state'[j] = state[j]
  BY DEF Forget, IInv, Base, TypeOK
<1>4. Base'
  <2>1. TypeOK' /\ RequestsCarry'
    BY <1>1, <1>2, <1>3 DEF IInv, Base, TypeOK, RequestsCarry
  <2>2. Numbers'
    BY <1>1, <1>3 DEF IInv, Base, Numbers
  <2>3. Places'
    BY <1>1, <1>2, <1>3 DEF IInv, Base, Places
  <2> QED BY <2>1, <2>2, <2>3 DEF Base
<1>5. /\ \/ phase = "refresh" /\ op[n] = "read"
         \/ phase = "apply" /\ op[n] # "read"
      /\ op[n] \in {"read", "create", "update", "delete"}
      /\ op[n] = "read" /\ pc[n] # "write" => state[n] # None
  BY RunningHandler DEF IInv
<1>6. Alone' <=> Alone
  BY <1>1 DEF Alone
<1>7. ASSUME NEW j \in Names \ {n}
      PROVE  /\ Reached(j) => Reached(j)'
             /\ Fits(j, state[j])' <=> Fits(j, state[j])
  BY <1>1, <1>3, ReachedIsKept DEF Fits
<1>8. HandTells'
  BY <1>1, <1>2 DEF IInv, Tells, HandTells
<1>9. RefreshTells'
  BY <1>1, <1>2, <1>3, <1>7 DEF IInv, Tells, RefreshTells
<1>10. CASE op[n] = "read"
  <2>1. phase = "refresh"
    BY <1>5, <1>10
  <2>2. ASSUME settled, Alone PROVE FALSE
    <3>1. Reached(n) /\ remote[n] = None /\ pc[n] # "write"
      BY <1>10, <2>1, <2>2, RequestIsRequest DEF IInv, Tells, SettledTells
    <3>2. state[n] # None
      BY <1>5, <1>10, <3>1
    <3> QED BY <3>1, <3>2 DEF Reached, Fits
  <2>3. SettledTells'
    BY <1>1, <1>6, <2>2 DEF IInv, Tells, SettledTells
  <2>4. ApplyTells' /\ EmptyPlanHidesNoDrift' /\ SettledPlanEmpty'
    BY <1>1, <2>1 DEF ApplyTells, EmptyPlanHidesNoDrift, SettledPlanEmpty
  <2> QED BY <1>4, <1>8, <1>9, <2>3, <2>4 DEF IInv, Tells
<1>11. CASE op[n] = "delete"
  <2>1. phase = "apply"
    BY <1>5, <1>11
  <2>2. SettledTells'
    BY <1>1, <1>6, <2>1, SettledDoesNothing DEF IInv, Tells, SettledTells
  <2>3. ApplyTells'
    BY <1>1, <1>2, <1>3, <1>6, <1>7, <1>11 DEF IInv, Tells, ApplyTells
  <2>4. EmptyPlanHidesNoDrift' /\ SettledPlanEmpty'
    BY <1>1, <1>6, <1>11 DEF IInv, Tells, EmptyPlanHidesNoDrift, SettledPlanEmpty
  <2> QED BY <1>4, <1>8, <1>9, <2>2, <2>3, <2>4 DEF IInv, Tells
<1> QED BY <1>5, <1>10, <1>11

\* A handler that ends with the definition d in state, read in the course of
\* it, and order is either that of d or -1 after a look at the whole group.
LEMMA RecordStep ==
  ASSUME IInv, NEW n \in Names, pc[n] \in {"get", "list"}, Frame,
         UNCHANGED <<portal, settled, trouble>>,
         NEW d \in Definitions, Dense(d.options), NEW order \in {-1, d.order},
         Record(n, d, order),
         op[n] \in {"read", "create", "update"},
         quiet => d = remote[n],
         pc[n] = "get" => order = d.order /\ Hint(n).order # -1,
         pc[n] = "list" =>
           (order = -1 <=> \A j \in Names : remote[j] # None /\ remote[j].group = d.group
                                              => remote[j].order <= d.order)
  PROVE  IInv'
<1> DEFINE m == [kind |-> d.kind, group |-> d.group, order |-> order,
                 options |-> Preserved(d.options, Hint(n).options)]
<1>1. /\ UNCHANGED <<remote, late, config, phase, op, quiet, settled, trouble, hand>>
      /\ state' = [state EXCEPT ![n] = m]
  BY DEF Record, Frame, portal
<1>2. /\ pc' \in [Names -> {"done", "write", "get", "list"}]
      /\ pc'[n] = "done" /\ \A j \in Names \ {n} : pc'[j] = pc[j]
  BY GoesTo DEF Record, IInv, Base
<1>3. /\ d.order \in 0..MaxOrder /\ d.options \in OptionMaps(OptionOrders)
      /\ d.kind \in Kinds /\ d.group \in PropGroups /\ d # None
  BY PropertyAssumption DEF Definitions
<1>4. /\ m.options \in OptionMaps(OptionOrders \cup {-1}) /\ Dense(m.options)
      /\ Preserved(d.options, m.options) = m.options
  BY <1>3, PreservedIsDense
<1>5. m \in Models /\ m # None
  <2>1. m \in Models
    BY <1>3, <1>4, PropertyAssumption DEF Models
  <2>2. m \in Plans
    BY <2>1 DEF Plans
  <2> QED BY <2>1, <2>2, PropertyAssumption
<1>6. m.kind = d.kind /\ m.group = d.group /\ m.order = order
  OBVIOUS
<1>7. IF op[n] = "read" \/ AsPlanned(n, m)
          THEN UNCHANGED <<tainted, failed>>
          ELSE /\ failed' = TRUE
               /\ tainted' = IF op[n] = "create" THEN tainted \cup {n} ELSE tainted
  BY DEF Record
<1> HIDE DEF m
<1>8. /\ state' \in [Names -> Models \cup {None}]
      /\ tainted' \subseteq {j \in Names : state'[j] # None}
      /\ failed' \in BOOLEAN /\ (~failed' => ~failed /\ UNCHANGED tainted)
      /\ state'[n] = m /\ \A j \in Names \ {n} : state'[j] = state[j] /\ (j \in tainted' => j \in tainted)
  BY <1>1, <1>5, <1>7 DEF IInv, Base, TypeOK
<1>9. Base'
  <2>1. TypeOK' /\ RequestsCarry'
    BY <1>1, <1>2, <1>8 DEF IInv, Base, TypeOK, RequestsCarry
  <2>2. Numbers'
    BY <1>1, <1>4, <1>8 DEF IInv, Base, Numbers
  <2>3. Places'
    BY <1>1, <1>2, <1>5, <1>8 DEF IInv, Base, Places
  <2> QED BY <2>1, <2>2, <2>3 DEF Base
<1>10. quiet => Fits(n, m)
  BY <1>3, <1>4, <1>6 DEF Fits
<1>11. ASSUME NEW j \in Names
       PROVE  /\ j # n /\ Reached(j) => Reached(j)'
              /\ Fits(j, state[j])' <=> Fits(j, state'[j])
  BY <1>1, <1>8, ReachedIsKept DEF Fits
<1>12. Alone' <=> Alone
  BY <1>1 DEF Alone
<1>13. HandTells'
  BY <1>1, <1>2 DEF IInv, Tells, HandTells
<1>14. RefreshTells'
  BY <1>1, <1>2, <1>8, <1>10, <1>11 DEF IInv, Tells, RefreshTells
<1>15. CASE op[n] = "read"
  <2>1. phase = "refresh" /\ UNCHANGED tainted /\ Hint(n) = state[n]
    BY <1>7, <1>15, RunningHandler DEF IInv, Hint
  <2>2. ASSUME settled, Alone PROVE UNCHANGED state
    <3>1. Reached(n) /\ quiet
      BY <2>2 DEF IInv, Tells, SettledTells
    <3>2. state[n] # None
      BY <1>15, RunningHandler, RequestIsRequest DEF IInv
    <3>3. Fits(n, state[n]) /\ state[n] \in Models
      BY <3>1, <3>2 DEF Reached, IInv, Base, TypeOK
    <3>4. /\ state[n].kind = d.kind /\ state[n].group = d.group
          /\ state[n].options = Preserved(d.options, state[n].options)
          /\ state[n].order # -1 => state[n].order = d.order
      BY <3>1, <3>3 DEF Fits
    <3>5. state[n].order = order
      <4>1. CASE pc[n] = "get"
        BY <1>3, <2>1, <3>4, <4>1
      <4>2. CASE pc[n] = "list" /\ state[n].order = -1
        <5>1. \A j \in Names : remote[j] # None /\ remote[j].group = d.group
                                 => remote[j].order <= d.order
          BY <3>1, <3>3, <4>2 DEF Fits
        <5> QED BY <4>2, <5>1
      <4>3. pc[n] = "list" => state[n].order = -1
        BY <1>15 DEF IInv, Base, Places
      <4> QED BY <4>1, <4>2, <4>3
    <3>6. state[n] = m
      BY <2>1, <3>3, <3>4, <3>5 DEF m, Models
    <3> QED BY <1>1, <3>6 DEF IInv, Base, TypeOK
  <2>3. SettledTells'
    <3>1. ASSUME settled, Alone, NEW j \in Names PROVE Reached(j)'
      <4>1. Reached(j) /\ state'[j] = state[j]
        BY <2>2, <3>1 DEF IInv, Tells, SettledTells
      <4> QED BY <1>1, <2>1, <4>1, ReachedIsKept
    <3> QED BY <1>1, <1>12, <3>1 DEF IInv, Tells, SettledTells
  <2>4. ApplyTells' /\ EmptyPlanHidesNoDrift' /\ SettledPlanEmpty'
    BY <1>1, <2>1 DEF ApplyTells, EmptyPlanHidesNoDrift, SettledPlanEmpty
  <2> QED BY <1>9, <1>13, <1>14, <2>3, <2>4 DEF IInv, Tells
<1>16. CASE op[n] # "read"
  <2>1. phase = "apply" /\ config[n] # None
    BY <1>16, RunningHandler DEF IInv, Base, Places
  <2>2. SettledTells'
    BY <1>1, <1>12, <2>1, SettledDoesNothing DEF IInv, Tells, SettledTells
  <2>3. ASSUME ~failed', quiet, n \notin tainted PROVE Reached(n)'
    <3>1. AsPlanned(n, m) /\ UNCHANGED tainted
      BY <1>7, <1>16, <2>3
    <3>2. /\ Wanted(n) \in Plans /\ Wanted(n).kind = config[n].kind
          /\ Wanted(n).group = config[n].group /\ Wanted(n).order = config[n].order
          /\ Wanted(n).options = PlannedOptions(n)
          /\ config[n].options # None => PlannedOptions(n) = config[n].options
      BY <2>1, WantedIsPlan DEF IInv, Base
    <3>3. /\ m.kind = config[n].kind /\ m.group = config[n].group /\ m.order = config[n].order
          /\ config[n].options # None => m.options = config[n].options
      BY <1>5, <3>1, <3>2 DEF AsPlanned, Models
    <3>4. Wanted(n)' = m
      <4>1. Wanted(n)' = [config[n] EXCEPT !.options = PlannedOptions(n)']
        BY <1>1 DEF Wanted
      <4>2. PlannedOptions(n)' = m.options
        BY <1>1, <1>5, <1>8, <3>3 DEF PlannedOptions
      <4>3. config[n] \in Plans
        BY <2>1, PropertyAssumption DEF IInv, Base, TypeOK
      <4> QED BY <1>5, <3>3, <4>1, <4>2, <4>3, PlanShape DEF Models
    <3>5. Fits(n, state[n])'
      BY <1>8, <1>10, <1>11, <2>3
    <3> QED BY <1>1, <1>8, <2>1, <2>3, <3>1, <3>4, <3>5 DEF Reached
  <2>4. ApplyTells'
    BY <1>1, <1>2, <1>8, <1>11, <1>12, <1>16, <2>1, <2>3 DEF IInv, Tells, ApplyTells
  <2>5. EmptyPlanHidesNoDrift' /\ SettledPlanEmpty'
    <3>1. op[n] # "none"
      BY DEF IInv, Base, Places
    <3> QED BY <1>1, <1>12, <3>1 DEF IInv, Tells, EmptyPlanHidesNoDrift, SettledPlanEmpty
  <2> QED BY <1>9, <1>13, <1>14, <2>2, <2>4, <2>5 DEF IInv, Tells
<1> QED BY <1>15, <1>16

\* What Observe does with a definition that is there.
LEMMA ObserveStep ==
  ASSUME IInv, NEW n \in Names, pc[n] = "get", op[n] \in {"read", "create", "update"},
         remote[n] # None, Observe(n), Frame, UNCHANGED <<portal, settled, trouble>>
  PROVE  IInv'
<1>1. remote[n] \in Definitions /\ Dense(remote[n].options)
  BY DEF IInv, Base, TypeOK, Numbers
<1>2. CASE Hint(n).order # -1
  <2>1. Record(n, remote[n], remote[n].order)
    BY <1>2 DEF Observe
  <2> QED BY <1>1, <1>2, <2>1, RecordStep
<1>3. CASE Hint(n).order = -1
  <2>1. /\ UNCHANGED <<remote, late, config, phase, op, quiet, settled, trouble, state, tainted, failed>>
        /\ hand' = [hand EXCEPT ![n] = remote[n]]
    BY <1>3 DEF Observe, Frame, portal, kept
  <2>2. /\ pc' \in [Names -> {"done", "write", "get", "list"}]
        /\ pc'[n] = "list" /\ \A j \in Names \ {n} : pc'[j] = pc[j]
    BY <1>3, GoesTo DEF Observe, IInv, Base
  <2>3. /\ hand' \in [Names -> Definitions \cup {None}]
        /\ hand'[n] = remote[n] /\ \A j \in Names \ {n} : hand'[j] = hand[j]
    BY <1>1, <2>1 DEF IInv, Base, TypeOK
  <2>4. TypeOK' /\ RequestsCarry'
    BY <2>1, <2>2, <2>3 DEF IInv, Base, TypeOK, RequestsCarry
  <2>5. Numbers'
    BY <1>1, <2>1, <2>3 DEF IInv, Base, Numbers
  <2>6. op[n] = "read" => state[n].order = -1
    BY <1>3 DEF Hint
  <2>7. Places'
    BY <2>1, <2>2, <2>3, <2>6 DEF IInv, Base, Places
  <2>8. Alone' <=> Alone
    BY <2>1 DEF Alone
  <2>9. ASSUME NEW j \in Names
        PROVE  /\ Reached(j) => Reached(j)'
               /\ Fits(j, state[j])' <=> Fits(j, state[j])
    BY <2>1, ReachedIsKept DEF Fits
  <2>10. HandTells' /\ RefreshTells'
    BY <2>1, <2>2, <2>3, <2>9 DEF IInv, Tells, HandTells, RefreshTells
  <2>11. ApplyTells' /\ SettledTells'
    BY <2>1, <2>2, <2>8, <2>9 DEF IInv, Tells, ApplyTells, SettledTells
  <2>12. EmptyPlanHidesNoDrift' /\ SettledPlanEmpty'
    <3>1. op[n] # "none"
      OBVIOUS
    <3> QED BY <2>1, <2>8, <3>1 DEF IInv, Tells, EmptyPlanHidesNoDrift, SettledPlanEmpty
  <2> QED BY <2>4, <2>5, <2>7, <2>10, <2>11, <2>12 DEF IInv, Base, Tells
<1> QED BY <1>2, <1>3

----------------------------------------------------------------------------
(* Properties: the handlers.                                              *)

LEMMA RefuseShapeStep == ASSUME IInv, NEW n \in Names, RefuseShape(n) PROVE IInv'
<1>1. trouble' \in 0..MaxTrouble
  BY DEF RefuseShape, IInv, Base, TypeOK
<1> QED BY <1>1, FailStep DEF RefuseShape, portal

LEMMA AnsweredStep == ASSUME IInv, NEW n \in Names, Answered(n) PROVE IInv'
<1>1. /\ pc[n] = "write" /\ Frame /\ UNCHANGED <<late, settled, trouble>>
      /\ trouble' \in 0..MaxTrouble
  BY DEF Answered, Sending, IInv, Base, TypeOK
<1>2. CASE remote' = Effect(Request(n)) /\ Continue(n, "get")
  BY <1>1, <1>2, ContinueStep
<1>3. CASE UNCHANGED remote /\ op[n] = "delete" /\ remote[n] = None /\ Forget(n)
  BY <1>1, <1>3, ForgetStep DEF portal
<1>4. CASE UNCHANGED remote /\ Fail(n)
  BY <1>1, <1>4, FailStep
<1> QED BY <1>2, <1>3, <1>4 DEF Answered

LEMMA TroubleIsBounded == ASSUME IInv, Disturb PROVE trouble' \in 0..MaxTrouble /\ settled' = settled
BY PropertyAssumption DEF Disturb, IInv, Base, TypeOK

LEMMA FaultedStep == ASSUME IInv, NEW n \in Names, Faulted(n) PROVE IInv'
BY TroubleIsBounded, FailStep DEF Faulted, Sending

LEMMA UnansweredStep == ASSUME IInv, NEW n \in Names, Unanswered(n) PROVE IInv'
<1>1. /\ pc[n] = "write" /\ Frame /\ settled' = settled /\ trouble' \in 0..MaxTrouble
      /\ remote' = remote \/ remote' = Effect(Request(n))
      /\ late' = late \/ late' = late \cup {Request(n)}
  BY TroubleIsBounded DEF Unanswered, Sending, portal
<1>2. CASE Fail(n)
  BY <1>1, <1>2, FailStep
<1>3. CASE Continue(n, "get")
  BY <1>1, <1>3, ContinueStep
<1> QED BY <1>2, <1>3 DEF Unanswered

LEMMA ReadStep == ASSUME IInv, NEW n \in Names, Read(n) PROVE IInv'
<1>1. /\ op[n] = "read" /\ pc[n] = "get" /\ Frame /\ UNCHANGED <<portal, settled, trouble>>
      /\ trouble' \in 0..MaxTrouble
  BY DEF Read, IInv, Base, TypeOK
<1>2. CASE remote[n] = None /\ Forget(n)
  BY <1>1, <1>2, ForgetStep
<1>3. CASE Fail(n)
  BY <1>1, <1>3, FailStep DEF portal
<1>4. CASE remote[n] # None /\ Observe(n)
  BY <1>1, <1>4, ObserveStep
<1> QED BY <1>2, <1>3, <1>4 DEF Read

LEMMA VerifyStep == ASSUME IInv, NEW n \in Names, Verify(n) PROVE IInv'
<1>1. /\ op[n] \in {"create", "update"} /\ pc[n] = "get" /\ Frame
      /\ UNCHANGED <<portal, settled, trouble>> /\ trouble' \in 0..MaxTrouble
  BY DEF Verify, IInv, Base, TypeOK
<1>2. CASE Fail(n)
  BY <1>1, <1>2, FailStep DEF portal
<1>3. CASE remote[n] # None /\ Observe(n)
  BY <1>1, <1>3, ObserveStep
<1> QED BY <1>2, <1>3 DEF Verify, Matches, MatchesShape

LEMMA VerifyDeleteStep == ASSUME IInv, NEW n \in Names, VerifyDelete(n) PROVE IInv'
BY ForgetStep DEF VerifyDelete

LEMMA ListStep == ASSUME IInv, NEW n \in Names, List(n) PROVE IInv'
<1> DEFINE d == hand[n]
           order == IF hand[n].order >= LastOrder(hand[n].group, Names) THEN -1 ELSE hand[n].order
<1>1. /\ pc[n] = "list" /\ Frame /\ UNCHANGED <<portal, settled, trouble>> /\ Record(n, d, order)
  BY DEF List
<1>2. /\ d \in Definitions /\ Dense(d.options) /\ d.order \in 0..MaxOrder
      /\ op[n] \in {"read", "create", "update"}
  BY <1>1 DEF IInv, Base, TypeOK, Numbers, Places, Definitions
<1>3. quiet => d = remote[n]
  BY <1>1 DEF IInv, Tells, HandTells
<1>4. order = -1 <=> \A j \in Names : remote[j] # None /\ remote[j].group = d.group
                                        => remote[j].order <= d.order
  <2> DEFINE last == LastOrder(d.group, Names)
  <2>1. /\ last \in -1..MaxOrder
        /\ \A j \in Names : remote[j] # None /\ remote[j].group = d.group
                              => remote[j].order <= last
        /\ \/ last = -1
           \/ \E j \in Names : remote[j] # None /\ remote[j].group = d.group
                               /\ last = remote[j].order
    BY LastIsGreatest DEF IInv, Base, TypeOK
  <2>2. order = -1 <=> d.order >= last
    BY <1>2, PropertyAssumption
  <2>3. \A j \in Names : remote[j] # None => remote[j].order \in Int
    BY PropertyAssumption DEF IInv, Base, TypeOK, Definitions
  <2> HIDE DEF last, order, d
  <2> QED BY <1>2, <2>1, <2>2, <2>3, PropertyAssumption
<1>5. order \in {-1, d.order}
  OBVIOUS
<1> HIDE DEF d, order
<1> QED BY <1>1, <1>2, <1>3, <1>4, <1>5, RecordStep

LEMMA ReadFailsStep == ASSUME IInv, NEW n \in Names, ReadFails(n) PROVE IInv'
BY TroubleIsBounded, FailStep DEF ReadFails, portal

----------------------------------------------------------------------------
(* Properties: Terraform.                                                 *)

LEMMA StartRunStep == ASSUME IInv, StartRun PROVE IInv'
<1>1. /\ phase = "idle" /\ phase' = "refresh" /\ config' \in Configs /\ quiet' = TRUE
      /\ op' = [n \in Names |-> IF state[n] = None THEN "none" ELSE "read"]
      /\ pc' = [n \in Names |-> IF state[n] = None THEN "done" ELSE "get"]
      /\ settled' = (settled /\ config' = config)
      /\ UNCHANGED <<remote, late, state, tainted, hand, trouble>>
  BY DEF StartRun, portal, kept
<1>2. failed' \in BOOLEAN /\ settled' \in BOOLEAN
  BY DEF StartRun, IInv, Base, TypeOK
<1>3. Base'
  <2>1. TypeOK' /\ RequestsCarry'
    BY <1>1, <1>2 DEF IInv, Base, TypeOK, RequestsCarry
  <2>2. Numbers'
    BY <1>1 DEF IInv, Base, Numbers
  <2>3. Places'
    BY <1>1 DEF IInv, Base, Places
  <2> QED BY <2>1, <2>2, <2>3 DEF Base
<1>4. HandTells' /\ RefreshTells'
  BY <1>1 DEF HandTells, RefreshTells
<1>5. ApplyTells' /\ EmptyPlanHidesNoDrift' /\ SettledPlanEmpty'
  BY <1>1 DEF ApplyTells, EmptyPlanHidesNoDrift, SettledPlanEmpty
<1>6. SettledTells'
  <2>1. settled' => settled /\ UNCHANGED config
    BY <1>1 DEF IInv, Base, TypeOK
  <2>2. settled' => (Alone' <=> Alone)
    BY <2>1 DEF Alone
  <2>3. ASSUME settled', NEW n \in Names PROVE Reached(n) => Reached(n)'
    BY <1>1, <2>1, <2>3, ReachedIsKept
  <2> QED BY <1>1, <2>1, <2>2, <2>3 DEF IInv, Tells, SettledTells
<1> QED BY <1>3, <1>4, <1>5, <1>6 DEF IInv, Tells

\* An option map that reads back as itself is in place.
LEMMA ReadBackIsInPlace ==
  ASSUME NEW o \in OptionMaps(OptionOrders), NEW c, c # None, c = Preserved(o, c)
  PROVE  /\ DOMAIN c = DOMAIN o
         /\ \A v \in DOMAIN o : c[v] \in {-1, o[v]}
         /\ \A v, w \in DOMAIN o : c[w] = -1 /\ (c[v] # -1 \/ v < w) => Before(o, v, w)
<1>1. o \in [DOMAIN o -> OptionOrders] /\ \A v \in DOMAIN o : o[v] \in Nat
  BY OptionMapShape, ValuesAreFew, PropertyAssumption DEF OptionOrders
<1>2. CASE c = o
  <2>1. \A v \in DOMAIN o : c[v] # -1
    BY <1>1, <1>2
  <2> QED BY <1>2, <2>1
<1>3. CASE c # o
  <2>1. AreTail(o, Sentinels(c)) /\ c = [v \in DOMAIN o |-> IF v \in Sentinels(c) THEN -1 ELSE o[v]]
    BY <1>3 DEF Preserved
  <2>2. DOMAIN c = DOMAIN o
    BY <2>1
  <2>3. \A v \in DOMAIN o : c[v] \in {-1, o[v]}
    BY <2>1
  <2>4. ASSUME NEW v \in DOMAIN o, NEW w \in DOMAIN o, c[w] = -1, c[v] # -1 \/ v < w
        PROVE  Before(o, v, w)
    <3>1. w \in Sentinels(c)
      BY <2>2, <2>4 DEF Sentinels
    <3>2. c[v] # -1 => v \notin Sentinels(c)
      BY DEF Sentinels
    <3>3. CASE v \notin Sentinels(c)
      BY <2>1, <3>1, <3>3 DEF AreTail
    <3>4. CASE v \in Sentinels(c)
      BY <2>1, <2>4, <3>1, <3>2, <3>4 DEF AreTail
    <3> QED BY <3>3, <3>4
  <2> QED BY <2>2, <2>3, <2>4
<1> QED BY <1>2, <1>3

LEMMA ReachedIsInPlace ==
  ASSUME Base, NEW n \in Names, config[n] # None, state[n] = Wanted(n), Fits(n, state[n])
  PROVE  InPlace(n)
<1> DEFINE d == remote[n]
           c == config[n]
<1>1. d \in Definitions /\ d.order \in 0..MaxOrder /\ d.options \in OptionMaps(OptionOrders)
  BY DEF Base, TypeOK, Definitions, Fits
<1>2. /\ state[n].kind = c.kind /\ state[n].group = c.group /\ state[n].order = c.order
      /\ c.options # None => state[n].options = c.options
  BY WantedIsPlan DEF Base
<1>3. /\ d # None /\ d.kind = c.kind /\ d.group = c.group
      /\ c.order # -1 => c.order = d.order
      /\ c.order = -1 => \A j \in Names : remote[j] # None /\ remote[j].group = d.group
                                            => remote[j].order <= d.order
      /\ c.options # None => c.options = Preserved(d.options, c.options)
  BY <1>2 DEF Fits
<1>4. MatchesShape(d, c)
  BY <1>3 DEF MatchesShape
<1>5. c.order = -1 => d.order = LastOrder(c.group, Names)
  <2> HAVE c.order = -1
  <2> DEFINE last == LastOrder(c.group, Names)
  <2>1. /\ last \in -1..MaxOrder
        /\ \A j \in Names : remote[j] # None /\ remote[j].group = c.group
                              => remote[j].order <= last
        /\ \/ last = -1
           \/ \E j \in Names : remote[j] # None /\ remote[j].group = c.group
                               /\ last = remote[j].order
    BY LastIsGreatest DEF Base, TypeOK
  <2>2. last <= d.order
    BY <1>1, <1>3, <2>1, PropertyAssumption
  <2>3. d.order <= last
    BY <1>3, <2>1
  <2> HIDE DEF last
  <2> QED BY <1>1, <2>1, <2>2, <2>3, PropertyAssumption DEF last
<1>6. c.options # None =>
        /\ DOMAIN c.options = DOMAIN d.options
        /\ \A v \in DOMAIN d.options : c.options[v] \in {-1, d.options[v]}
        /\ \A v, w \in DOMAIN d.options :
             c.options[w] = -1 /\ (c.options[v] # -1 \/ v < w) => Before(d.options, v, w)
  BY <1>1, <1>3, ReadBackIsInPlace
<1> QED BY <1>4, <1>5, <1>6 DEF InPlace

LEMMA PlannedIsRight ==
  ASSUME Base, NEW n \in Names
  PROVE  /\ Planned(n) \in {"none", "create", "update", "delete"}
         /\ Planned(n) \in {"create", "update"} => config[n] # None
         /\ Planned(n) # "delete" => n \notin tainted
         /\ Planned(n) = "none" =>
              IF config[n] = None THEN state[n] = None
              ELSE state[n] # None /\ state[n] = Wanted(n)
         /\ Reached(n) => Planned(n) = "none"
<1>1. n \in tainted => state[n] # None
  BY DEF Base, TypeOK
<1>2. CASE config[n] = None
  BY <1>1, <1>2 DEF Planned, Reached
<1>3. CASE config[n] # None
  <2>1. Wanted(n) # None
    BY <1>3, WantedIsPlan DEF Base
  <2> QED BY <1>1, <1>3, <2>1 DEF Planned, Reached
<1> QED BY <1>2, <1>3

LEMMA PlanStep == ASSUME IInv, Plan PROVE IInv'
<1>1. /\ phase = "refresh" /\ AllDone /\ ~failed /\ phase' = "apply"
      /\ op' = [n \in Names |-> Planned(n)]
      /\ pc' = [n \in Names |-> IF Planned(n) = "none" THEN "done" ELSE "write"]
      /\ UNCHANGED <<remote, late, config, state, tainted, hand, failed, quiet, settled, trouble>>
  BY DEF Plan, portal, kept, history
<1>2. \A n \in Names :
         /\ Planned(n) \in {"none", "create", "update", "delete"}
         /\ Planned(n) \in {"create", "update"} => config[n] # None
         /\ Planned(n) # "delete" => n \notin tainted
         /\ Planned(n) = "none" =>
              IF config[n] = None THEN state[n] = None
              ELSE state[n] # None /\ state[n] = Wanted(n)
         /\ Reached(n) => Planned(n) = "none"
  BY PlannedIsRight DEF IInv
<1>3. Base'
  <2>1. TypeOK' /\ RequestsCarry'
    BY <1>1, <1>2 DEF IInv, Base, TypeOK, RequestsCarry
  <2>2. Numbers'
    BY <1>1 DEF IInv, Base, Numbers
  <2>3. Places'
    BY <1>1, <1>2 DEF IInv, Base, Places
  <2> QED BY <2>1, <2>2, <2>3 DEF Base
<1>4. HandTells' /\ RefreshTells'
  BY <1>1 DEF HandTells, RefreshTells
<1>5. ASSUME quiet, NEW n \in Names, Planned(n) = "none"
      PROVE  Reached(n)
  BY <1>1, <1>2, <1>5 DEF IInv, Tells, RefreshTells, AllDone, Reached
<1>6. \A n \in Names : Reached(n) => Reached(n)'
  BY <1>1, ReachedIsKept
<1>7. ApplyTells'
  BY <1>1, <1>2, <1>5, <1>6 DEF ApplyTells
<1>8. Alone' <=> Alone
  BY <1>1 DEF Alone
<1>9. SettledTells'
  BY <1>1, <1>6, <1>8 DEF IInv, Tells, SettledTells
<1>10. EmptyPlanHidesNoDrift'
  <2>1. ASSUME quiet, NEW n \in Names, Planned(n) = "none"
        PROVE  IF config[n] = None THEN state[n] = None ELSE InPlace(n)
    BY <1>5, <2>1, ReachedIsInPlace DEF IInv, Reached
  <2>2. \A n \in Names : InPlace(n)' <=> InPlace(n)
    BY <1>1 DEF InPlace, MatchesShape, LastOrder
  <2> QED BY <1>1, <2>1, <2>2 DEF EmptyPlanHidesNoDrift
<1>11. SettledPlanEmpty'
  BY <1>1, <1>2, <1>8 DEF IInv, Tells, SettledTells, SettledPlanEmpty
<1> QED BY <1>3, <1>4, <1>7, <1>9, <1>10, <1>11 DEF IInv, Tells

LEMMA ReplaceStep == ASSUME IInv, NEW n \in Names, Replace(n) PROVE IInv'
<1>1. /\ phase = "apply" /\ pc[n] = "done" /\ op[n] = "delete"
      /\ state[n] = None /\ config[n] # None
      /\ op' = [op EXCEPT ![n] = "create"] /\ pc' = [pc EXCEPT ![n] = "write"]
      /\ UNCHANGED <<remote, late, config, state, tainted, phase, hand, failed, quiet, settled,
                     trouble>>
  BY DEF Replace, Replacing, portal, kept, history
<1>2. n \notin tainted
  BY <1>1 DEF IInv, Base, TypeOK
<1>3. /\ op' \in [Names -> {"none", "read", "create", "update", "delete"}]
      /\ op'[n] = "create" /\ \A j \in Names \ {n} : op'[j] = op[j]
      /\ pc' \in [Names -> {"done", "write", "get", "list"}]
      /\ pc'[n] = "write" /\ \A j \in Names \ {n} : pc'[j] = pc[j]
  BY <1>1 DEF IInv, Base, TypeOK
<1>4. Base'
  <2>1. TypeOK' /\ RequestsCarry' /\ Numbers'
    BY <1>1, <1>3 DEF IInv, Base, TypeOK, RequestsCarry, Numbers
  <2>2. Places'
    BY <1>1, <1>3 DEF IInv, Base, Places
  <2> QED BY <2>1, <2>2 DEF Base
<1>5. Alone' <=> Alone
  BY <1>1 DEF Alone
<1>6. \A j \in Names : Reached(j) => Reached(j)'
  BY <1>1, ReachedIsKept
<1>7. HandTells' /\ RefreshTells'
  BY <1>1, <1>3 DEF IInv, Tells, HandTells, RefreshTells
<1>8. ApplyTells'
  BY <1>1, <1>2, <1>3, <1>5, <1>6 DEF IInv, Tells, ApplyTells
<1>9. SettledTells' /\ SettledPlanEmpty'
  BY <1>1, <1>5, <1>6 DEF IInv, Tells, SettledTells, SettledPlanEmpty
<1>10. EmptyPlanHidesNoDrift'
  BY <1>3 DEF EmptyPlanHidesNoDrift
<1> QED BY <1>4, <1>7, <1>8, <1>9, <1>10 DEF IInv, Tells

LEMMA EndRunStep == ASSUME IInv, EndRun PROVE IInv'
<1>1. /\ phase' = "idle" /\ AllDone /\ settled' = (~failed /\ quiet)
      /\ \/ phase = "refresh" /\ failed
         \/ phase = "apply" /\ \A n \in Names : ~Replacing(n)
      /\ UNCHANGED <<remote, late, config, state, tainted, op, pc, hand, failed, quiet, trouble>>
  BY DEF EndRun, portal, kept, handlers
<1>2. Base'
  <2>1. TypeOK' /\ RequestsCarry' /\ Numbers'
    BY <1>1 DEF IInv, Base, TypeOK, RequestsCarry, Numbers
  <2>2. Places'
    BY <1>1 DEF IInv, Base, Places, AllDone
  <2> QED BY <2>1, <2>2 DEF Base
<1>3. HandTells' /\ RefreshTells' /\ ApplyTells' /\ EmptyPlanHidesNoDrift' /\ SettledPlanEmpty'
  BY <1>1 DEF HandTells, RefreshTells, ApplyTells, EmptyPlanHidesNoDrift, SettledPlanEmpty, AllDone
<1>4. SettledTells'
  <2>1. ASSUME ~failed, quiet, Alone, NEW n \in Names PROVE Reached(n)
    <3>1. phase = "apply" /\ ~Replacing(n) /\ pc[n] = "done"
      BY <1>1, <2>1 DEF AllDone
    <3>2. CASE op[n] = "delete"
      <4>1. state[n] = None
        BY <2>1, <3>1, <3>2 DEF IInv, Tells, ApplyTells
      <4> QED BY <3>1, <3>2, <4>1 DEF Replacing, Reached
    <3>3. CASE op[n] # "delete"
      BY <2>1, <3>1, <3>3 DEF IInv, Tells, ApplyTells
    <3> QED BY <3>2, <3>3
  <2>2. \A n \in Names : Reached(n) => Reached(n)'
    BY <1>1, ReachedIsKept
  <2>3. Alone' <=> Alone
    BY <1>1 DEF Alone
  <2> QED BY <1>1, <2>1, <2>2, <2>3 DEF SettledTells, IInv, Base, TypeOK
<1> QED BY <1>2, <1>3, <1>4 DEF IInv, Tells

LEMMA CrashStep == ASSUME IInv, Crash PROVE IInv'
<1>1. /\ phase' = "idle" /\ pc' = [n \in Names |-> "done"]
      /\ trouble' = trouble + 1 /\ trouble < MaxTrouble /\ settled' = FALSE
      /\ UNCHANGED <<remote, config, state, tainted, op, hand, failed, quiet>>
  BY DEF Crash, kept
<1>2. PICK sent \in SUBSET {n \in Names : Sending(n)} :
        late' = late \cup {Request(n) : n \in sent}
  BY DEF Crash
<1>3. ASSUME NEW n \in sent
      PROVE  /\ Request(n) \in Requests /\ (Request(n).kind # "delete" => Request(n).model # None)
             /\ Request(n).model # None => Dense(Sent(Request(n).model))
  BY RequestIsRequest DEF Sending, IInv
<1>4. trouble' \in 0..MaxTrouble
  BY <1>1, PropertyAssumption DEF IInv, Base, TypeOK
<1>5. Base'
  <2>1. TypeOK' /\ RequestsCarry'
    BY <1>1, <1>2, <1>3, <1>4 DEF IInv, Base, TypeOK, RequestsCarry
  <2>2. Numbers'
    BY <1>1, <1>2, <1>3 DEF IInv, Base, Numbers
  <2>3. Places'
    BY <1>1 DEF IInv, Base, Places
  <2> QED BY <2>1, <2>2, <2>3 DEF Base
<1>6. Tells'
  BY <1>1 DEF Tells, HandTells, RefreshTells, ApplyTells, SettledTells, EmptyPlanHidesNoDrift,
     SettledPlanEmpty
<1> QED BY <1>5, <1>6 DEF IInv

LEMMA ImportStep == ASSUME IInv, NEW n \in Names, Import(n) PROVE IInv'
<1> DEFINE m == [kind |-> remote[n].kind, group |-> remote[n].group,
                 order |-> remote[n].order, options |-> remote[n].options]
<1>1. /\ phase = "idle" /\ remote[n] \in Definitions /\ Dense(remote[n].options)
      /\ state' = [state EXCEPT ![n] = m] /\ settled' = FALSE
      /\ UNCHANGED <<remote, late, config, tainted, phase, op, pc, hand, failed, quiet, trouble>>
  BY DEF Import, portal, handlers, IInv, Base, TypeOK, Numbers
<1>2. m \in Models /\ m # None /\ m.options = remote[n].options
  <2>1. remote[n].options \in OptionMaps(OptionOrders \cup {-1})
    <3>1. remote[n].options \in OptionMaps(OptionOrders)
      BY <1>1 DEF Definitions
    <3> QED BY <3>1, OptionMapShape
  <2>2. m \in Models
    BY <1>1, <2>1, PropertyAssumption DEF Definitions, Models
  <2>3. m \in Plans
    BY <2>2 DEF Plans
  <2> QED BY <2>2, <2>3, PropertyAssumption
<1> HIDE DEF m
<1>3. /\ state' \in [Names -> Models \cup {None}]
      /\ state'[n] = m /\ \A j \in Names \ {n} : state'[j] = state[j]
  BY <1>1, <1>2 DEF IInv, Base, TypeOK
<1>4. Base'
  <2>1. TypeOK' /\ RequestsCarry'
    BY <1>1, <1>2, <1>3 DEF IInv, Base, TypeOK, RequestsCarry
  <2>2. Numbers'
    BY <1>1, <1>2, <1>3 DEF IInv, Base, Numbers
  <2>3. Places'
    BY <1>1, <1>3 DEF IInv, Base, Places
  <2> QED BY <2>1, <2>2, <2>3 DEF Base
<1>5. Tells'
  BY <1>1 DEF IInv, Tells, HandTells, RefreshTells, ApplyTells, SettledTells,
     EmptyPlanHidesNoDrift, SettledPlanEmpty
<1> QED BY <1>4, <1>5 DEF IInv

----------------------------------------------------------------------------
(* Properties: everybody else.                                            *)

LEMMA ForeignStep == ASSUME IInv, NEW n \in Names, Foreign(n) PROVE IInv'
<1>1. /\ trouble' = trouble + 1 /\ trouble < MaxTrouble
      /\ quiet' = FALSE /\ settled' = FALSE
      /\ UNCHANGED <<late, config, state, tainted, phase, op, pc, hand, failed>>
  BY DEF Foreign, kept, handlers
<1>2. PICK d \in Foreigners \cup {None} : remote' = [remote EXCEPT ![n] = d]
  BY DEF Foreign
<1>3. d # None => d \in Definitions /\ Dense(d.options)
  <2> HAVE d # None
  <2>1. d \in Definitions /\ Range(d.options) \subseteq 0..MaxOrder
    BY PropertyAssumption
  <2>2. d.options \in OptionMaps(OptionOrders \cup {-1})
    <3>1. d.options \in OptionMaps(OptionOrders)
      BY <2>1 DEF Definitions
    <3> QED BY <3>1, OptionMapShape
  <2>3. Range(d.options) \subseteq -1..MaxOrder
    BY <2>1, PropertyAssumption
  <2> QED BY <2>1, <2>2, <2>3, BoundedIsDense
<1>4. /\ remote' \in [Names -> Definitions \cup {None}]
      /\ remote'[n] = d /\ \A j \in Names \ {n} : remote'[j] = remote[j]
  BY <1>2, <1>3 DEF IInv, Base, TypeOK
<1>5. trouble' \in 0..MaxTrouble
  BY <1>1, PropertyAssumption DEF IInv, Base, TypeOK
<1>6. Base'
  <2>1. TypeOK' /\ RequestsCarry'
    BY <1>1, <1>4, <1>5 DEF IInv, Base, TypeOK, RequestsCarry
  <2>2. Numbers'
    BY <1>1, <1>3, <1>4 DEF IInv, Base, Numbers
  <2>3. Places'
    BY <1>1 DEF IInv, Base, Places
  <2> QED BY <2>1, <2>2, <2>3 DEF Base
<1>7. Tells'
  BY <1>1 DEF Tells, HandTells, RefreshTells, ApplyTells, SettledTells, EmptyPlanHidesNoDrift,
     SettledPlanEmpty
<1> QED BY <1>6, <1>7 DEF IInv

\* Nothing that Tells speaks of has changed.
LEMMA TellsIsKept ==
  ASSUME Tells,
         UNCHANGED <<remote, config, state, tainted, phase, op, pc, hand, failed, quiet, settled>>
  PROVE  Tells'
<1>1. \A n \in Names : Reached(n) => Reached(n)'
  BY ReachedIsKept
<1>2. \A n \in Names : Fits(n, state[n])' <=> Fits(n, state[n])
  BY DEF Fits
<1>3. \A n \in Names : InPlace(n)' <=> InPlace(n)
  BY DEF InPlace, MatchesShape, LastOrder
<1>4. Alone' <=> Alone
  BY DEF Alone
<1>5. HandTells' /\ RefreshTells'
  BY <1>2 DEF Tells, HandTells, RefreshTells
<1>6. ApplyTells' /\ SettledTells'
  BY <1>1, <1>4 DEF Tells, ApplyTells, SettledTells
<1>7. EmptyPlanHidesNoDrift' /\ SettledPlanEmpty'
  BY <1>3, <1>4 DEF Tells, EmptyPlanHidesNoDrift, SettledPlanEmpty
<1> QED BY <1>5, <1>6, <1>7 DEF Tells

LEMMA ArriveLateStep == ASSUME IInv, ArriveLate PROVE IInv'
<1>1. UNCHANGED <<config, state, tainted, phase, op, pc, hand, failed, trouble>>
  BY DEF ArriveLate, kept, handlers
<1>2. PICK r \in late :
        /\ late' = late \ {r}
        /\ \/ /\ remote' = Effect(r)
              /\ quiet' = FALSE /\ settled' = FALSE
           \/ UNCHANGED <<remote, quiet, settled>>
  BY DEF ArriveLate
<1>3. /\ r \in Requests /\ (r.kind # "delete" => r.model # None)
      /\ r.model # None => Dense(Sent(r.model))
  BY DEF IInv, Base, TypeOK, RequestsCarry, Numbers
<1>4. CASE remote' = Effect(r) /\ quiet' = FALSE /\ settled' = FALSE
  <2>1. /\ remote' \in [Names -> Definitions \cup {None}]
        /\ \A j \in Names \ {r.name} : remote'[j] = remote[j]
        /\ remote'[r.name] # None => Dense(remote'[r.name].options)
    BY <1>3, <1>4, EffectIsLocal DEF IInv, Base, TypeOK
  <2>2. TypeOK' /\ RequestsCarry'
    BY <1>1, <1>2, <1>4, <2>1 DEF IInv, Base, TypeOK, RequestsCarry
  <2>3. Numbers'
    BY <1>1, <1>2, <2>1 DEF IInv, Base, Numbers
  <2>4. Places'
    BY <1>1 DEF IInv, Base, Places
  <2>5. Tells'
    BY <1>1, <1>4 DEF Tells, HandTells, RefreshTells, ApplyTells, SettledTells,
       EmptyPlanHidesNoDrift, SettledPlanEmpty
  <2> QED BY <2>2, <2>3, <2>4, <2>5 DEF IInv, Base
<1>5. CASE UNCHANGED <<remote, quiet, settled>>
  <2>1. TypeOK' /\ RequestsCarry' /\ Numbers' /\ Places'
    BY <1>1, <1>2, <1>5 DEF IInv, Base, TypeOK, RequestsCarry, Numbers, Places
  <2>2. Tells'
    BY <1>1, <1>5, TellsIsKept DEF IInv
  <2> QED BY <2>1, <2>2 DEF IInv, Base
<1> QED BY <1>2, <1>4, <1>5

----------------------------------------------------------------------------
(* Properties: the theorems.                                              *)

LEMMA Initially == Init => IInv
<1> SUFFICES ASSUME Init PROVE IInv
  OBVIOUS
<1>1. \A n \in Names : remote[n] # None =>
        /\ remote[n] \in Definitions /\ Dense(remote[n].options)
  <2> SUFFICES ASSUME NEW n \in Names, remote[n] # None
               PROVE  remote[n] \in Definitions /\ Dense(remote[n].options)
    OBVIOUS
  <2>1. remote[n] \in Definitions /\ Range(remote[n].options) \subseteq 0..MaxOrder
    BY PropertyAssumption DEF Init
  <2>2. remote[n].options \in OptionMaps(OptionOrders \cup {-1})
    <3>1. remote[n].options \in OptionMaps(OptionOrders)
      BY <2>1 DEF Definitions
    <3> QED BY <3>1, OptionMapShape
  <2>3. Range(remote[n].options) \subseteq -1..MaxOrder
    BY <2>1, PropertyAssumption
  <2> QED BY <2>1, <2>2, <2>3, BoundedIsDense
<1>2. remote \in [Names -> Definitions \cup {None}]
  BY <1>1 DEF Init
<1>3. failed \in BOOLEAN /\ quiet \in BOOLEAN /\ settled \in BOOLEAN /\ trouble \in 0..MaxTrouble
  <2>1. failed \in BOOLEAN /\ quiet \in BOOLEAN /\ settled \in BOOLEAN
    BY DEF Init
  <2>2. trouble \in 0..MaxTrouble
    BY PropertyAssumption DEF Init
  <2> QED BY <2>1, <2>2
<1>4. TypeOK
  BY <1>2, <1>3 DEF Init, TypeOK
<1>5. Numbers /\ RequestsCarry /\ Places
  BY <1>1 DEF Init, Numbers, RequestsCarry, Places
<1>6. Tells
  BY DEF Init, Tells, HandTells, RefreshTells, ApplyTells, SettledTells, EmptyPlanHidesNoDrift,
     SettledPlanEmpty
<1> QED BY <1>4, <1>5, <1>6 DEF IInv, Base

LEMMA Stutters == ASSUME IInv, UNCHANGED vars PROVE IInv'
<1>1. UNCHANGED <<remote, late, config, state, tainted, phase, op, pc, hand, failed, quiet,
                  settled, trouble>>
  BY DEF vars, portal, kept, handlers, history
<1>2. Base'
  BY <1>1 DEF IInv, Base, TypeOK, Numbers, RequestsCarry, Places
<1>3. Tells'
  BY <1>1, TellsIsKept DEF IInv
<1> QED BY <1>2, <1>3 DEF IInv

LEMMA Inductive == IInv /\ [Next]_vars => IInv'
<1>1. ASSUME IInv, NEW n \in Names, Handle(n) PROVE IInv'
  BY <1>1, RefuseShapeStep, AnsweredStep, FaultedStep, UnansweredStep, ReadStep, VerifyStep,
     VerifyDeleteStep, ListStep, ReadFailsStep DEF Handle
<1> QED BY <1>1, ReplaceStep, ImportStep, ForeignStep, StartRunStep, PlanStep, EndRunStep, CrashStep,
       ArriveLateStep, Stutters DEF Next

\* The inductive invariant of the properties.
THEOREM PropertyInvariance == Spec => []IInv
BY Initially, Inductive, PTL DEF Spec

\* Every variable stays in its domain, in particular the numbers that the
\* portal gives to appended options, read back, kept in state and sent again,
\* never run away (propertyWriteFromModel,
\* preserveConfiguredOptionAppendOrders).
THEOREM PropertyTypes == Spec => []TypeOK
<1>1. IInv => TypeOK
  BY DEF IInv, Base
<1> QED BY <1>1, PropertyInvariance, PTL

\* An empty plan means that every property, its place in its group, its
\* options and their places are as configured (modelFromPropertyDefinition).
THEOREM NoPropertyDriftIsHidden == Spec => []EmptyPlanHidesNoDrift
<1>1. IInv => EmptyPlanHidesNoDrift
  BY DEF IInv, Tells
<1> QED BY <1>1, PropertyInvariance, PTL

\* After a run that succeeded the next plan is empty, whatever the portal has
\* numbered, unless two properties ask for the last place of one group.
THEOREM SettledStaysSettled == Spec => []SettledPlanEmpty
<1>1. IInv => SettledPlanEmpty
  BY DEF IInv, Tells
<1> QED BY <1>1, PropertyInvariance, PTL
----------------------------------------------------------------------------
(* Properties: what is written comes back.                                 *)

\* An option counts itself among those of its rank.
LEMMA RanksArePositive ==
  ASSUME NEW S \in SUBSET Values, NEW v \in S
  PROVE  LET rank(x) == Cardinality({y \in S : y <= x})
         IN rank(v) \in Nat /\ 1 <= rank(v)
<1> DEFINE A == {y \in S : y <= v}
<1>1. \A y \in S : y \in Nat
  BY PropertyAssumption
<1>2. A \in SUBSET Values /\ v \in A
  BY <1>1
<1> HIDE DEF A
<1>3. IsFiniteSet(A) /\ Cardinality(A) \in Nat
  BY <1>2, ValuesAreFew
<1>4. Cardinality({v}) = 1 /\ Cardinality({v}) <= Cardinality(A)
  <2>1. {v} \in SUBSET A
    BY <1>2
  <2> QED BY <1>3, <2>1, FS_Singleton, FS_Subset
<1>5. 1 <= Cardinality(A)
  BY <1>3, <1>4
<1> QED BY <1>3, <1>5 DEF A

\* A sentinel further back gets a larger number.
LEMMA RanksGrow ==
  ASSUME NEW S \in SUBSET Values, NEW v \in S, NEW w \in S, v < w
  PROVE  LET rank(x) == Cardinality({y \in S : y <= x}) IN rank(v) < rank(w)
<1> DEFINE A == {y \in S : y <= v}
           B == {y \in S : y <= w}
<1>1. \A y \in S : y \in Nat
  BY PropertyAssumption
<1>2. A \in SUBSET B /\ B \in SUBSET Values /\ w \in B /\ w \notin A
  BY <1>1
<1> HIDE DEF A, B
<1>3. /\ IsFiniteSet(B) /\ Cardinality(B) \in Nat
      /\ Cardinality(A) \in Nat /\ Cardinality(A) <= Cardinality(B)
  BY <1>2, ValuesAreFew
<1>4. Cardinality(A) # Cardinality(B)
  BY <1>2, <1>3, FS_Subset
<1>5. Cardinality(A) < Cardinality(B)
  BY <1>3, <1>4
<1> QED BY <1>5 DEF A, B

\* Options that the portal has numbered are read back as they were planned,
\* with -1 where it was, for any configured orders, ties included
\* (preserveConfiguredOptionAppendOrders inverts what the portal does with the
\* request of propertyWriteFromModel).
THEOREM OptionsReadBack ==
  \A o \in OptionMaps(OptionOrders \cup {-1}) :
    /\ DOMAIN Numbered(o) = DOMAIN o
    /\ \A v \in DOMAIN o : o[v] \in {-1, Numbered(o)[v]}
    /\ Preserved(Numbered(o), o) = o
<1> SUFFICES ASSUME NEW o \in OptionMaps(OptionOrders \cup {-1})
             PROVE  /\ DOMAIN Numbered(o) = DOMAIN o
                    /\ \A v \in DOMAIN o : o[v] \in {-1, Numbered(o)[v]}
                    /\ Preserved(Numbered(o), o) = o
  OBVIOUS
<1> DEFINE S == Sentinels(o)
           last == Max({-1} \cup Range(o))
           rank(v) == Cardinality({w \in S : w <= v})
           c == Numbered(o)
           K == MaxOrder + Cardinality(Values)
<1>1. /\ DOMAIN o \in SUBSET Values /\ Values \subseteq Nat
      /\ K \in Nat /\ \A v \in DOMAIN o : o[v] \in -1..K
      /\ S \in SUBSET Values /\ S \subseteq DOMAIN o
      /\ o \in [DOMAIN o -> OptionOrders \cup {-1}]
  BY OptionMapShape, ValuesAreFew, PropertyAssumption DEF OptionOrders, Sentinels
<1>2. c = [v \in DOMAIN o |-> IF o[v] = -1 THEN last + rank(v) ELSE o[v]]
  BY DEF Numbered
<1>3. last \in -1..K /\ \A v \in DOMAIN o : o[v] <= last
  <2> DEFINE R == {-1} \cup Range(o)
  <2>1. R \in SUBSET (-1..K) /\ R # {} /\ \A v \in DOMAIN o : o[v] \in R
    BY <1>1 DEF Range
  <2>2. Max(R) \in R /\ \A x \in R : x <= Max(R)
    BY <1>1, <2>1, GreatestExists
  <2> HIDE DEF K
  <2> QED BY <2>1, <2>2
<1>4. \A v \in S : rank(v) \in Nat /\ 1 <= rank(v)
  BY <1>1, RanksArePositive
<1>5. \A v \in S, w \in S : v < w => rank(v) < rank(w)
  BY <1>1, RanksGrow
<1> HIDE DEF last, rank, c, K
<1>6. /\ DOMAIN c = DOMAIN o
      /\ \A v \in S : o[v] = -1 /\ c[v] = last + rank(v)
      /\ \A v \in DOMAIN o \ S : o[v] # -1 /\ c[v] = o[v]
  BY <1>2 DEF Sentinels
<1> HIDE DEF S
<1>7. ASSUME NEW v \in S, NEW w \in DOMAIN c \ S PROVE Before(c, w, v)
  <2>1. c[w] \in Int /\ c[w] <= last /\ last \in Int
    BY <1>1, <1>3, <1>6
  <2>2. c[v] = last + rank(v) /\ rank(v) \in Nat /\ 1 <= rank(v)
    BY <1>4, <1>6
  <2>3. c[w] < c[v]
    BY <2>1, <2>2
  <2> QED BY <2>3 DEF Before
<1>8. ASSUME NEW v \in S, NEW w \in S, v < w PROVE Before(c, v, w)
  <2>1. /\ c[v] = last + rank(v) /\ c[w] = last + rank(w) /\ last \in Int
        /\ rank(v) \in Nat /\ rank(w) \in Nat /\ rank(v) < rank(w)
    BY <1>3, <1>4, <1>5, <1>6, <1>8
  <2>2. c[v] < c[w]
    BY <2>1
  <2> QED BY <2>2 DEF Before
<1>9. AreTail(c, S)
  BY <1>1, <1>6, <1>7, <1>8 DEF AreTail
<1>10. o # None
  BY PropertyAssumption
<1>11. Preserved(c, o) = [v \in DOMAIN o |-> IF v \in S THEN -1 ELSE c[v]]
  BY <1>6, <1>9, <1>10 DEF Preserved, S
<1>12. Preserved(c, o) = o
  BY <1>1, <1>6, <1>11
<1>13. \A v \in DOMAIN o : o[v] \in {-1, c[v]}
  BY <1>6
<1> QED BY <1>6, <1>12, <1>13 DEF c

\* What an answered create or update leaves behind, nobody interfering.
WritesComeBack ==
  \A n \in Names : op[n] \in {"create", "update"} /\ pc[n] = "write" =>
    LET d == Effect(Request(n))[n]
        m == Wanted(n)
    IN /\ Matches(d, m)
       /\ Preserved(d.options, m.options) = Sent(m)

\* A create or an update that the portal carries out passes its own
\* verification, and the options that go into state are the planned ones: only
\* somebody else can make it fail (propertyMatchesPlan,
\* modelFromPropertyDefinitionWithOrders).
THEOREM WritesPassVerification == Spec => []WritesComeBack
<1>1. IInv => WritesComeBack
  <2> SUFFICES ASSUME IInv, NEW n \in Names, op[n] \in {"create", "update"}, pc[n] = "write"
               PROVE  /\ Matches(Effect(Request(n))[n], Wanted(n))
                      /\ Preserved(Effect(Request(n))[n].options, Wanted(n).options)
                           = Sent(Wanted(n))
    BY DEF WritesComeBack
  <2> DEFINE m == Wanted(n)
             o == Sent(m)
             d == [kind |-> m.kind, group |-> m.group, order |-> Place(n, m),
                   options |-> Numbered(o), locked |-> FALSE]
  <2>1. config[n] # None /\ Base
    BY DEF IInv, Base, Places
  <2>2. m \in Plans /\ m.kind \in Kinds /\ m.group \in PropGroups
    BY <2>1, WantedIsPlan, PlanShape DEF Base
  <2>3. o \in OptionMaps(OptionOrders \cup {-1}) /\ Dense(o)
    BY <2>1, <2>2, WantedIsPlan, SentIsMap DEF Base
  <2>4. Effect(Request(n))[n] = d
    BY DEF Effect, Request, IInv, Base, TypeOK
  <2>5. /\ DOMAIN Numbered(o) = DOMAIN o
        /\ \A v \in DOMAIN o : o[v] \in {-1, Numbered(o)[v]}
        /\ Preserved(Numbered(o), o) = o
    BY <2>3, OptionsReadBack
  <2>6. m.order \in {-1, d.order} /\ Place(n, m) \in 0..MaxOrder
    BY <2>1, <2>2, PlaceIsOrder DEF Place, Base, TypeOK
  <2>7. d \in Definitions /\ d # None
    <3>1. Numbered(o) \in OptionMaps(OptionOrders)
      BY <2>3, NumberedIsDense
    <3>2. d \in Definitions
      BY <2>2, <2>6, <3>1 DEF Definitions
    <3> QED BY <3>2, PropertyAssumption
  <2>8. m.options # None => o = m.options
    BY DEF Sent
  <2>9. m.options = None => o = NoOptions /\ Preserved(Numbered(o), None) = Numbered(o)
    BY DEF Sent, Preserved
  <2>10. o = NoOptions => Numbered(o) = NoOptions
    BY <2>5 DEF Numbered, NoOptions
  <2>11. Matches(d, m)
    BY <2>5, <2>6, <2>7, <2>8 DEF Matches, MatchesShape
  <2>12. Preserved(d.options, m.options) = o
    BY <2>5, <2>8, <2>9, <2>10
  <2> HIDE DEF d, m, o
  <2> QED BY <2>4, <2>11, <2>12 DEF m, o
<1> QED BY <1>1, PropertyInvariance, PTL

=============================================================================
