---------------------------- MODULE MCFileFolders ---------------------------
(* Two addresses, the second of which may be inside the first.             *)
EXTENDS FileFolders

CONSTANTS upper, lower, red, blue

UpperAndLower == {upper, lower}
TwoIds == 1..2
ThreeIds == 1..3
Colours == {red, blue}

Def(n, u) == [name |-> n, under |-> u]
Both(x, y) == [a \in Addresses |-> IF a = upper THEN x ELSE y]

\* A folder in a folder; the outer one is renamed while the inner one is moved
\* out of it, or back into it by the ID of the first folder that the portal made;
\* and both are removed.
Nested ==
  {Both(Def(red, None), Def(red, upper)), Both(Def(blue, None), Def(red, None)),
   Both(Def(red, None), Def(red, 1)), Both(None, None)}

\* One folder that is renamed, with a folder in it.
Renamed ==
  {Both(Def(red, None), Def(red, upper)), Both(Def(blue, None), Def(red, upper))}

\* The same, and the folder without the folder in it.
RenamedOrAlone ==
  Renamed \cup {Both(Def(red, None), None), Both(Def(blue, None), None)}
============================================================================
