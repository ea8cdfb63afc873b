---------------------------- MODULE RemoteCall -----------------------------
(***************************************************************************)
(* What a caller of the HubSpot transport may rely on, with no retry loop, *)
(* rate limiter, attempt or timeout in sight: a call asks the service for  *)
(* one effect, the effect may happen late or not at all, and one verdict   *)
(* is reported.  Transport.tla is shown to implement this module; the      *)
(* resource modules take every remote write from it.                       *)
(***************************************************************************)
EXTENDS Naturals

CONSTANTS
  Calls,        \* the calls made through one configured provider
  MaxAttempts   \* how often a replayable call may reach the service

VARIABLES
  class,    \* class[c]: the replay class the typed client declared for c
  effects,  \* effects[c]: which of the permitted effects have happened
  verdict   \* verdict[c]: what the caller was told

callVars == <<class, effects, verdict>>

\* A create or any other non-replayable write is worth one effect; every
\* other call is declared repeatable by its client.
Permitted(k) == IF k = "never" THEN {1} ELSE 1..MaxAttempts

Init ==
  /\ class \in [Calls -> {"never", "explicit", "safe"}]
  /\ effects = [c \in Calls |-> {}]
  /\ verdict = [c \in Calls |-> "open"]

\* The service carries the call out; this may happen after the caller was
\* told that the call failed, but not after it was told nothing was sent.
TakeEffect(c) ==
  /\ verdict[c] # "unsent"
  /\ \E e \in Permitted(class[c]) \ effects[c] :
       effects' = [effects EXCEPT ![c] = @ \cup {e}]
  /\ UNCHANGED <<class, verdict>>

Report(c) ==
  /\ verdict[c] = "open"
  /\ \/ effects[c] # {} /\ verdict' = [verdict EXCEPT ![c] = "ok"]
     \/ effects[c] = {} /\ verdict' = [verdict EXCEPT ![c] = "unsent"]
     \/ verdict' = [verdict EXCEPT ![c] = "failed"]
  /\ UNCHANGED <<class, effects>>

Next == \E c \in Calls : TakeEffect(c) \/ Report(c)

Spec == Init /\ [][Next]_callVars
============================================================================
