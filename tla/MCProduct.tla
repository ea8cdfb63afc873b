----------------------------- MODULE MCProduct -----------------------------
(* Few products, and definitions that differ in spelling and in what they  *)
(* manage.                                                                 *)
EXTENDS Product

CONSTANTS chair, table

Padded(a) == [amount |-> a, form |-> "padded"]
Def(t, p, c) == [text |-> t, price |-> p, cost |-> c]

TwoIds == 1..2
ChairsAndTables == {chair, table}
Sums == {"low", "high"}

\* A respelled price; a cost that is unmanaged, cleared or set; and a text that
\* differs in what must be unique.
Authored == {None, Def(chair, Padded("low"), Null), Def(chair, Padded("low"), Padded("high")),
             Def(table, Value("high"), Empty)}
Elsewhere == {Def(chair, Odd, Value("high")), Def(table, Value("high"), Odd)}
============================================================================
