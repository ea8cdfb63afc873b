------------------------------- MODULE MCForms -------------------------------
(* One form, perhaps a lost one, and three definitions.                    *)
EXTENDS Forms

CONSTANTS old, new

ThreeIds == 1..3
OldAndNew == {old, new}

Form(n, g, c, d) == [name |-> n, fieldGroups |-> g, configuration |-> c,
                     displayOptions |-> d]
Wishes == {None, Form(old, NoDomains, old, old), Form(new, NoDomains, old, old),
           Form(old, new, new, old)}
=============================================================================
