------------------------------- MODULE MCFiles -------------------------------
(* Two files in two folders.                                               *)
EXTENDS Files

CONSTANTS a, b, one, two, old, new

TwoIds == 1..2
Words == {a, b}
Places == {one, two}
Bytes == {old, new}

File(s, e, d, x, c) == [stem |-> s, ext |-> e, folder |-> d, access |-> x, content |-> c]
Wishes == {None, File(a, "txt", one, "PRIVATE", old), File(b, "txt", two, "PRIVATE", old),
           File(a, "txt", one, "PUBLIC", new)}
Renames == {File(a, "txt", one, "PRIVATE", old), File(a, "md", one, "PRIVATE", old)}
Text == {"txt"}
Kinds == {"txt", "md"}
=============================================================================
