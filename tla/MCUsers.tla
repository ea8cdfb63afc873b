------------------------------ MODULE MCUsers ------------------------------
(* Two people with two addresses; profiles with a title, and with hours.   *)
EXTENDS Users

CONSTANTS ann, bob, x, y

Both == {1, 2}
Addresses == {ann, bob}
Writings == {x, y}

Interval(w, a, b) == [days |-> w, start |-> a, end |-> b]
Spans ==
  {Interval(w, p[1], p[2]) : w \in {"MONDAY", "MONDAY_TO_FRIDAY", "EVERY_DAY"},
                             p \in {<<0, 600>>, <<300, 900>>, <<600, 1440>>}}
    \cup {Interval("SUNDAY", 0, 1440), Interval("SATURDAY_SUNDAY", 0, 1441),
          Interval("MONDAY", -1, 5), Interval("MONDAY", 5, 5), Interval("NEVER", 1, 2)}

Office == {Interval("MONDAY_TO_FRIDAY", 0, 600)}
Title == [title |-> x, zone |-> None, hours |-> None]
Hours == [title |-> None, zone |-> y, hours |-> Office]

Ask(first, welcome, allow, p) ==
  [email |-> ann, first |-> first, last |-> None, welcome |-> welcome, allow |-> allow,
   profile |-> p]
Definitions ==
  {None, Ask(None, FALSE, FALSE, Title), Ask(x, FALSE, TRUE, Hours)}
=============================================================================
