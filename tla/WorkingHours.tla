---------------------------- MODULE WorkingHours ----------------------------
(***************************************************************************)
(* The working hours of a CRM user: intervals on a day or on a group of    *)
(* days, which may not overlap once the groups are taken apart.  They      *)
(* travel as a string holding a sorted list, and come from a Terraform     *)
(* set, which has no order.                                                *)
(***************************************************************************)
EXTENDS Integers, FiniteSets, SequencesExt

CONSTANTS
  Intervals,   \* intervals somebody may ask for, sensible or not
  Most         \* bound on the number of intervals

ASSUME HoursAssumption ==
  /\ \A h \in Intervals : h.start \in Int /\ h.end \in Int
  /\ Most \in Nat

\* crmUserDayRank
Words == <<"MONDAY", "TUESDAY", "WEDNESDAY", "THURSDAY", "FRIDAY", "SATURDAY", "SUNDAY",
           "MONDAY_TO_FRIDAY", "SATURDAY_SUNDAY", "EVERY_DAY">>
Rank == [w \in Range(Words) |-> CHOOSE i \in 1..10 : Words[i] = w]

\* expandedDays: the positions in the week that a word stands for.
Expanded == [w \in DOMAIN Rank |->
  CASE w = "EVERY_DAY" -> 1..7
    [] w = "MONDAY_TO_FRIDAY" -> 1..5
    [] w = "SATURDAY_SUNDAY" -> 6..7
    [] OTHER -> {Rank[w]}]

Sooner(a, b) ==
  \/ a.start < b.start
  \/ a.start = b.start /\ a.end < b.end
Before(a, b) ==
  \/ Rank[a.days] < Rank[b.days]
  \/ a.days = b.days /\ Sooner(a, b)

\* sortCRMUserWorkingHours: what is written, and what is kept of an answer.
\* sort.Slice leaves open which of equals comes first.
Sorted(hours) ==
  {l \in {[i \in DOMAIN hours |-> hours[p[i]]] : p \in SetToSeqs(DOMAIN hours)} :
     \A i, j \in DOMAIN hours : i < j => ~Before(l[j], l[i])}

\* The places of the intervals of a day in the list, and in turn.
ByDay(hours, d) == {i \in DOMAIN hours : d \in Expanded[hours[i].days]}
AsListed(hours, d) ==
  {p \in SetToSeqs(ByDay(hours, d)) : \A k, l \in DOMAIN p : k < l => p[k] < p[l]}
InTurn(hours, d) ==
  {p \in SetToSeqs(ByDay(hours, d)) :
     \A k, l \in DOMAIN p : k < l => ~Sooner(hours[p[l]], hours[p[k]])}

\* validateCRMUserWorkingHours, and with it validateCRMUserProfileModel and
\* the validators of the attributes: on a day, only neighbours are compared.
Neighbours(hours, d) ==
  \A p \in InTurn(hours, d) :
    \A k \in DOMAIN p \ {1} : hours[p[k]].start >= hours[p[k - 1]].end

Valid(hours) ==
  /\ \A h \in Range(hours) : /\ h.days \in DOMAIN Expanded
                             /\ {h.start, h.end} \subseteq 0..1440
                             /\ h.end > h.start
  /\ \A d \in 1..7 : Neighbours(hours, d)

----------------------------------------------------------------------------
(* What the two are for.                                                   *)

Lists == UNION {[1..n -> Intervals] : n \in 0..Most}

\* Two intervals have a minute in common.
Meet(a, b) ==
  /\ Expanded[a.days] \cap Expanded[b.days] # {}
  /\ a.start < b.end /\ b.start < a.end

Sensible(hours) ==
  /\ \A h \in Range(hours) : h.days \in DOMAIN Expanded /\ 0 <= h.start
                             /\ h.start < h.end /\ h.end <= 1440
  /\ \A i, j \in DOMAIN hours : i # j => ~Meet(hours[i], hours[j])

\* A list passes exactly when no two of its intervals meet, in whatever
\* order they come and whatever groups of days they are given for.
OverlapsAreFound == \A hours \in Lists : Valid(hours) <=> Sensible(hours)

\* The same set always travels as the same list, so an order that Terraform
\* or HubSpot chose is never a difference.
OrderIsNoChange ==
  \A hours \in {l \in Lists : Valid(l)} :
    \E l \in Sorted(hours) :
      \A p \in SetToSeqs(DOMAIN hours) :
        Sorted([i \in DOMAIN hours |-> hours[p[i]]]) = {l}
=============================================================================
