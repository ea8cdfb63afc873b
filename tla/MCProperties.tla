----------------------------- MODULE MCProperties -----------------------------
(* An enumeration whose options, type and group the author changes, beside a  *)
(* neighbour.                                                                 *)
EXTENDS Properties, TLC

CONSTANTS p1, p2, ga, gb

TwoNames == {p1, p2}
TwoGroups == {ga, gb}
TwoValues == 1..2

Wish(k, g, o, options) == [kind |-> k, group |-> g, order |-> o, options |-> options]
Found(k, g, o, options) == Wish(k, g, o, options) @@ [locked |-> FALSE]

\* Appended options, one option pinned before or behind the other, and options
\* left to the portal.
First == {None,
          Wish("enumeration", ga, 0, 1 :> -1 @@ 2 :> -1),
          Wish("enumeration", ga, -1, 1 :> -1 @@ 2 :> 1),
          Wish("enumeration", gb, 1, None),
          Wish("string", gb, -1, None)}
Second == {None, Wish("string", ga, 1, None)}
Wishes == {[n \in {p1, p2} |-> IF n = p1 THEN a ELSE b] : a \in First, b \in Second}

Others == {Found("enumeration", ga, 1, 1 :> 1 @@ 2 :> 0),
           Found("enumeration", gb, 0, 1 :> 0 @@ 2 :> 1),
           [Found("string", ga, 2, NoOptions) EXCEPT !.locked = TRUE]}
============================================================================
