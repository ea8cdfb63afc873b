----------------------------- MODULE Transport -----------------------------
(***************************************************************************)
(* Transport.Do of internal/hubspot/transport.go: the retry loop behind    *)
(* every HubSpot request of the provider, run by several resource          *)
(* operations at once against one shared rate limiter.                     *)
(*                                                                         *)
(* The service and the network are the environment: a request that was     *)
(* written to the wire is a copy in flight, which the service may carry    *)
(* out at any later time, also after the client gave up on it or a gateway *)
(* answered in the service's place.                                        *)
(***************************************************************************)
EXTENDS Integers

CONSTANTS
  Calls,         \* concurrent operations of one provider configuration
  MaxAttempts,   \* maxAttempts, 5 in the code
  DefaultBurst,  \* defaultBurstLimit, 10 in the code
  Advertised     \* X-HubSpot-RateLimit-Max values a response may carry;
                 \* a value below 1 stands for an absent or invalid header

ASSUME TransportAssumption ==
  /\ MaxAttempts \in Nat \ {0}
  /\ DefaultBurst \in Nat \ {0}
  /\ Advertised \subseteq Int

VARIABLES
  class,     \* Operation.Replay of each call
  stage,     \* where Do stands for each call
  attempt,   \* the loop variable of Do
  ended,     \* whether the caller's context is cancelled or past its deadline
  reply,     \* status class of the response in hand, "none" without one
  outcome,   \* what Do returned
  inflight,  \* attempts whose request is on the wire or in the service
  applied,   \* attempts whose effect the service has carried out
  stranded,  \* history: attempts whose copy stayed in flight when a gateway
             \* answered for the service
  tokens,    \* tokens in the limiter's bucket
  burst      \* size of that bucket

client == <<class, stage, attempt, ended, reply, outcome>>
network == <<inflight, applied, stranded>>
limiter == <<tokens, burst>>
doVars == <<class, stage, attempt, ended, reply, outcome, inflight, applied,
            stranded, tokens, burst>>

ReplaySafety == {"never", "explicit", "safe"}

\* Responses by what Do tells apart: a 2xx that decodes and one that does
\* not; a retryable status sent instead of doing the work (423, 429, 477) or
\* possibly after it, or by a gateway in front of it (408, 5xx, 521, 523,
\* 524); a 429 whose readable body names the DAILY policy; every other status.
Status == {"success", "garbled", "busy", "fault", "daily", "refused"}

\* The statuses that can follow the effect, and the ones that must.
MayFollowEffect == {"success", "garbled", "fault"}
ProvesEffect == {"success", "garbled"}

Outcome == [kind : {"none", "ok", "error"},
            status : Status \cup {"none"},
            ambiguous : BOOLEAN]

Pending == [kind |-> "none", status |-> "none", ambiguous |-> FALSE]
Success == [kind |-> "ok", status |-> "success", ambiguous |-> FALSE]
Failure(s) == [kind |-> "error", status |-> s, ambiguous |-> FALSE]
NoAnswer == [kind |-> "error", status |-> "none", ambiguous |-> TRUE]

DoInit ==
  /\ class \in [Calls -> ReplaySafety]
  /\ stage = [c \in Calls |-> "limit"]
  /\ attempt = [c \in Calls |-> 1]
  /\ ended = [c \in Calls |-> FALSE]
  /\ reply = [c \in Calls |-> "none"]
  /\ outcome = [c \in Calls |-> Pending]
  /\ inflight = [c \in Calls |-> {}]
  /\ applied = [c \in Calls |-> {}]
  /\ stranded = [c \in Calls |-> {}]
  /\ tokens = DefaultBurst
  /\ burst = DefaultBurst

Enter(c, l) == stage' = [stage EXCEPT ![c] = l]

Return(c, o) ==
  /\ Enter(c, "returned")
  /\ outcome' = [outcome EXCEPT ![c] = o]

----------------------------------------------------------------------------
(* The client: one action per step of Do.                                  *)

\* limiter.Wait grants a token and client.Do writes the request.
Send(c) ==
  /\ stage[c] = "limit"
  /\ tokens > 0
  /\ tokens' = tokens - 1
  /\ inflight' = [inflight EXCEPT ![c] = @ \cup {attempt[c]}]
  /\ Enter(c, "sent")
  /\ reply' = [reply EXCEPT ![c] = "none"]
  /\ UNCHANGED <<class, attempt, ended, outcome, applied, stranded, burst>>

\* limiter.Wait fails: the context is done (or ends before the next token),
\* or the bucket is too small to ever hold the one token asked for.
FailWait(c) ==
  /\ stage[c] = "limit"
  /\ ended[c] \/ burst < 1
  /\ Return(c, Failure("none"))
  /\ UNCHANGED <<class, attempt, ended, reply, network, limiter>>

\* Whether client.Do failing without a response lets the loop go on.
RetriesNetworkErrorsOfUpdates(c) ==
  class[c] # "never" /\ attempt[c] < MaxAttempts
RetriesNetworkErrors(c) == class[c] = "safe" /\ attempt[c] < MaxAttempts

\* The per-attempt deadline passes, the connection breaks, or the context
\* ends while client.Do waits: the request may still reach the service.
NetworkErrorWithoutDeadline(c) ==
  /\ stage[c] = "sent"
  /\ ended[c]
  /\ IF RetriesNetworkErrors(c)
       THEN Enter(c, "asleep") /\ UNCHANGED outcome
       ELSE Return(c, NoAnswer)
  /\ UNCHANGED <<class, attempt, ended, reply, network, limiter>>
NetworkError(c) ==
  /\ stage[c] = "sent"
  /\ IF RetriesNetworkErrors(c)
       THEN Enter(c, "asleep") /\ UNCHANGED outcome
       ELSE Return(c, NoAnswer)
  /\ UNCHANGED <<class, attempt, ended, reply, network, limiter>>

\* adaptRateLimit: a usable header resizes the bucket, which keeps at most
\* its new size of the tokens it held.
AdaptUnchecked(l) ==
  /\ burst' = l
  /\ tokens' = IF tokens > l THEN l ELSE tokens
AdaptRateLimit(l) ==
  IF l > 0
    THEN /\ burst' = l
         /\ tokens' = IF tokens > l THEN l ELSE tokens
    ELSE UNCHANGED limiter

\* A 2xx response: the limiter adapts only after the body decoded.
Succeed(c) ==
  /\ stage[c] = "answered"
  /\ reply[c] = "success"
  /\ \E l \in Advertised : AdaptRateLimit(l)
  /\ Return(c, Success)
  /\ UNCHANGED <<class, attempt, ended, reply, network>>

FailDecode(c) ==
  /\ stage[c] = "answered"
  /\ reply[c] = "garbled"
  /\ Return(c, Failure("garbled"))
  /\ UNCHANGED <<class, attempt, ended, reply, network, limiter>>

\* canRetry, for a response that is not a 2xx.
ReplaysEveryClass(c) == reply[c] \in {"busy", "fault"} /\ attempt[c] < MaxAttempts
CanRetry(c) ==
  /\ reply[c] \in {"busy", "fault"}
  /\ attempt[c] < MaxAttempts
  /\ class[c] # "never"

Backoff(c) ==
  /\ stage[c] = "answered"
  /\ CanRetry(c)
  /\ Enter(c, "asleep")
  /\ UNCHANGED <<class, attempt, ended, reply, outcome, network, limiter>>

GiveUp(c) ==
  /\ stage[c] = "answered"
  /\ reply[c] \notin ProvesEffect
  /\ ~CanRetry(c)
  /\ Return(c, Failure(reply[c]))
  /\ UNCHANGED <<class, attempt, ended, reply, network, limiter>>

\* sleep returns and the loop goes round; past the last attempt Do falls out
\* of the loop with "retry budget exhausted".
NextAttempt(c) ==
  /\ stage[c] = "asleep"
  /\ IF attempt[c] < MaxAttempts
       THEN /\ attempt' = [attempt EXCEPT ![c] = @ + 1]
            /\ Enter(c, "limit")
            /\ UNCHANGED outcome
       ELSE /\ Enter(c, "exhausted")
            /\ outcome' = [outcome EXCEPT ![c] = Failure("none")]
            /\ UNCHANGED attempt
  /\ UNCHANGED <<class, ended, reply, network, limiter>>

\* The context ends while sleep waits.
AbortSleep(c) ==
  /\ stage[c] = "asleep"
  /\ ended[c]
  /\ Return(c, Failure(reply[c]))
  /\ UNCHANGED <<class, attempt, ended, reply, network, limiter>>

----------------------------------------------------------------------------
(* The environment.                                                        *)

\* The service answers the attempt the client is waiting for.
Answer(c) ==
  /\ stage[c] = "sent"
  /\ attempt[c] \in inflight[c]
  /\ inflight' = [inflight EXCEPT ![c] = @ \ {attempt[c]}]
  /\ \E s \in Status :
       /\ reply' = [reply EXCEPT ![c] = s]
       /\ \/ /\ s \in MayFollowEffect
             /\ applied' = [applied EXCEPT ![c] = @ \cup {attempt[c]}]
          \/ s \notin ProvesEffect /\ UNCHANGED applied
  /\ Enter(c, "answered")
  /\ UNCHANGED <<class, attempt, ended, outcome, stranded, limiter>>

\* A gateway answers for the service (502, 504, 523, 524), which may still
\* carry the request out.
AnswerFromGateway(c) ==
  /\ stage[c] = "sent"
  /\ attempt[c] \in inflight[c]
  /\ stranded' = [stranded EXCEPT ![c] = @ \cup {attempt[c]}]
  /\ reply' = [reply EXCEPT ![c] = "fault"]
  /\ Enter(c, "answered")
  /\ UNCHANGED <<class, attempt, ended, outcome, inflight, applied, limiter>>

\* The service carries out a request whose response never arrives.
ApplyUnheard(c, a) ==
  /\ a \in inflight[c]
  /\ inflight' = [inflight EXCEPT ![c] = @ \ {a}]
  /\ applied' = [applied EXCEPT ![c] = @ \cup {a}]
  /\ UNCHANGED <<client, stranded, limiter>>

\* A request is lost, or refused in a response that never arrives.
LoseRequest(c, a) ==
  /\ a \in inflight[c]
  /\ inflight' = [inflight EXCEPT ![c] = @ \ {a}]
  /\ UNCHANGED <<client, applied, stranded, limiter>>

EndContext(c) ==
  /\ stage[c] # "returned"
  /\ ~ended[c]
  /\ ended' = [ended EXCEPT ![c] = TRUE]
  /\ UNCHANGED <<class, stage, attempt, reply, outcome, network, limiter>>

Refill ==
  /\ tokens < burst
  /\ tokens' = tokens + 1
  /\ UNCHANGED <<client, network, burst>>

----------------------------------------------------------------------------

Client(c) ==
  \/ Send(c) \/ FailWait(c) \/ NetworkError(c) \/ Succeed(c) \/ FailDecode(c)
  \/ Backoff(c) \/ GiveUp(c) \/ NextAttempt(c) \/ AbortSleep(c)

Service(c) ==
  \/ Answer(c) \/ AnswerFromGateway(c)
  \/ \E a \in inflight[c] : ApplyUnheard(c, a) \/ LoseRequest(c, a)

DoNext ==
  \/ \E c \in Calls : Client(c) \/ Service(c) \/ EndContext(c)
  \/ Refill

DoSpec == DoInit /\ [][DoNext]_doVars

\* The Go runtime runs every goroutine, timers fire (each attempt has a
\* deadline, each sleep a duration) and the bucket refills with time.
Fairness == /\ \A c \in Calls : WF_doVars(Client(c))
            /\ WF_doVars(Refill)

FairSpec == DoSpec /\ Fairness
----------------------------------------------------------------------------
(* Properties.                                                             *)

\* Every variable stays in its domain; in particular no attempt beyond
\* maxAttempts is ever made.
TransportTypeOK ==
  /\ class \in [Calls -> ReplaySafety]
  /\ stage \in [Calls -> {"limit", "sent", "answered", "asleep", "exhausted",
                          "returned"}]
  /\ attempt \in [Calls -> 1..MaxAttempts]
  /\ ended \in [Calls -> BOOLEAN]
  /\ reply \in [Calls -> Status \cup {"none"}]
  /\ outcome \in [Calls -> Outcome]
  /\ inflight \in [Calls -> SUBSET (1..MaxAttempts)]
  /\ applied \in [Calls -> SUBSET (1..MaxAttempts)]
  /\ stranded \in [Calls -> SUBSET (1..MaxAttempts)]
  /\ tokens \in Nat
  /\ burst \in Nat \ {0}

\* A ReplayNever operation (every create) takes effect at most once, however
\* the service, the network and the caller's context behave: there is never
\* a second copy of it, waiting or carried out (Do, canRetry and the
\* network-error branch).
NeverReplayed ==
  \A c \in Calls : class[c] = "never" =>
    \A a, b \in inflight[c] \cup applied[c] : a = b

\* A write is never repeated while its caller has no answer: unless the
\* operation is a read, an older copy that can still take effect, and so undo
\* what its own retry did, is one for which a gateway answered (a network
\* error is retried for ReplaySafe only, a 5xx for ReplayExplicit too).
NoOvertaking ==
  \A c \in Calls : class[c] # "safe" =>
    inflight[c] \subseteq {attempt[c]} \cup stranded[c]

\* When a create reports a status that the service sends instead of doing
\* the work, nothing was created and nothing will be: the resource may
\* report failure without a read-back.
RefusalIsFinal ==
  \A c \in Calls :
    /\ class[c] = "never"
    /\ outcome[c].kind = "error"
    /\ outcome[c].status \in {"busy", "daily", "refused"}
    => inflight[c] = {} /\ applied[c] = {}

\* Do returns an error with neither a status nor the Ambiguous mark only
\* when the caller's context ended: the adapted limiter never becomes
\* unusable (adaptRateLimit ignores nonpositive headers), and a lost
\* response is always marked.
NoSpuriousFailure ==
  \A c \in Calls : outcome[c] = Failure("none") => ended[c]

\* The "retry budget exhausted" error after the loop is dead code: the
\* attempt counter stops every retry branch first.
BudgetErrorUnreachable == \A c \in Calls : stage[c] # "exhausted"

\* Every call returns to its resource, although responses may never come and
\* the limiter may shrink: each attempt has its own deadline.
EveryCallReturns == \A c \in Calls : <>(stage[c] = "returned")

\* What the caller of a create can conclude from the error it got.
Verdict(c) ==
  CASE outcome[c].kind = "none" -> "open"
    [] outcome[c].kind = "ok" -> "ok"
    [] outcome[c] = Failure("none") /\ class[c] = "never" -> "unsent"
    [] OTHER -> "failed"

Abstract == INSTANCE RemoteCall
              WITH effects <- applied,
                   verdict <- [c \in Calls |-> Verdict(c)]

\* The retry loop keeps the promise the resources build on: success means
\* the effect happened, a create without status or Ambiguous mark was never
\* sent and never will be, and effects stay within what the class permits.
ImplementsRemoteCall == Abstract!Spec
============================================================================
