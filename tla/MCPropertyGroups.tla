-------------------------- MODULE MCPropertyGroups -------------------------
(* Small portals: configurations with explicit and appended groups.        *)
EXTENDS PropertyGroups

CONSTANTS g1, g2, red, blue

TwoNames == {g1, g2}
TwoLabels == {red, blue}
OneLabel == {red}

Group(l, o) == [label |-> l, order |-> o]

\* Two groups, pinned and appended, or appended both.
TwoGroups == {[n \in {g1, g2} |-> IF n = g1 THEN a ELSE b] :
                a \in {None, Group(red, -1)},
                b \in {None, Group(red, 1), Group(red, -1)}}
AppendedBoth == {[n \in {g1, g2} |-> Group(red, -1)]}
============================================================================
