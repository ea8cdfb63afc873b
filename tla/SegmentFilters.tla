--------------------------- MODULE SegmentFilters ---------------------------
(***************************************************************************)
(* The filters of a contact segment, as the configuration writes them and  *)
(* as the Lists API sends them.  The configuration has a set of groups, of *)
(* which one must hold, each a set of predicates, which all must hold; the *)
(* wire has a tree of ordered branches with another vocabulary.            *)
(***************************************************************************)
EXTENDS FiniteSets, SequencesExt

CONSTANTS
  Properties,   \* names of contact properties
  Values,       \* nonblank values a predicate may compare with
  Blank,        \* no value
  Unsupported   \* what reading a tree outside the contract gives

Presence == {"is_known", "is_not_known"}
Equality == {"is_equal_to", "is_not_equal_to"}

\* ContactSegmentFilter, of the two kinds contactSegmentWriteFromModel lets
\* through: an equality has a kind and a value, a presence has neither.
Filters ==
  [property : Properties, operator : Presence, kind : {""}, value : {Blank}]
    \cup [property : Properties, operator : Equality, kind : {"text", "select"},
          value : Values]

WireFilters ==
  [property : Properties, values : {<<>>} \cup {<<v>> : v \in Values}
                                   \cup {<<v, w>> : v \in Values, w \in Values},
   type : {"STRING", "MULTISTRING", "ENUMERATION", "ALL_PROPERTY", "NUMBER"},
   operator : {"IS_EQUAL_TO", "IS_NOT_EQUAL_TO", "IS_ANY_OF", "IS_NONE_OF",
               "IS_KNOWN", "IS_UNKNOWN", "IS_GREATER_THAN"},
   unset : BOOLEAN]

\* The words of the wire for an operator, by the type of the operation.
Words ==
  [STRING       |-> [is_equal_to |-> "IS_EQUAL_TO", is_not_equal_to |-> "IS_NOT_EQUAL_TO"],
   MULTISTRING  |-> [is_equal_to |-> "IS_EQUAL_TO", is_not_equal_to |-> "IS_NOT_EQUAL_TO"],
   ENUMERATION  |-> [is_equal_to |-> "IS_ANY_OF", is_not_equal_to |-> "IS_NONE_OF"],
   ALL_PROPERTY |-> [is_known |-> "IS_KNOWN", is_not_known |-> "IS_UNKNOWN"]]
Kinds == [STRING |-> "text", MULTISTRING |-> "text", ENUMERATION |-> "select",
          ALL_PROPERTY |-> ""]

\* A single value travels in "value" (STRING) or in "values" (the others);
\* here both are the sequence "values".
FilterAsText(f) ==
  LET type == IF f.operator \in Presence THEN "ALL_PROPERTY" ELSE "STRING"
  IN  [property |-> f.property, type |-> type, operator |-> Words[type][f.operator],
       values |-> IF f.operator \in Presence THEN <<>> ELSE <<f.value>>, unset |-> FALSE]
FilterFromSemantic(f) ==
  LET type == IF f.operator \in Presence THEN "ALL_PROPERTY"
              ELSE [text |-> "STRING", select |-> "ENUMERATION"][f.kind]
  IN  [property |-> f.property, type |-> type, operator |-> Words[type][f.operator],
       values |-> IF f.operator \in Presence THEN <<>> ELSE <<f.value>>, unset |-> FALSE]

Readable(w) ==
  /\ ~w.unset
  /\ w.type \in DOMAIN Words
  /\ Len(w.values) = IF w.type = "ALL_PROPERTY" THEN 0 ELSE 1
  /\ \E o \in DOMAIN Words[w.type] : Words[w.type][o] = w.operator

OperatorFromWire(w) == CHOOSE o \in DOMAIN Words[w.type] : Words[w.type][o] = w.operator

FilterFromWire(w) ==
  [property |-> w.property, kind |-> Kinds[w.type], operator |-> OperatorFromWire(w),
   value |-> IF w.values = <<>> THEN Blank ELSE w.values[1]]

\* contactSegmentBranchFromGroups: an OR of ANDs, in any order.
BranchFromGroup(group) ==
  LET order == SetToSeq(group) IN [i \in DOMAIN order |-> FilterFromSemantic(order[i])]
BranchFromGroups(groups) ==
  LET order == SetToSeq(groups) IN [i \in DOMAIN order |-> BranchFromGroup(order[i])]

\* contactSegmentGroupsFromBranch: no branch may be empty, none and no
\* predicate in one may be there twice.
GroupFromBranch(b) == {FilterFromWire(w) : w \in ToSet(b)}
Sound(branches) ==
  /\ branches # <<>>
  /\ \A b \in ToSet(branches) : b # <<>> /\ (\A w \in ToSet(b) : Readable(w))
Single(branches) ==
  /\ Cardinality({GroupFromBranch(b) : b \in ToSet(branches)}) = Len(branches)
  /\ \A b \in ToSet(branches) : Cardinality(GroupFromBranch(b)) = Len(b)
GroupsFromBranch(branches) ==
  IF ~Sound(branches) THEN Unsupported
  ELSE IF Single(branches) THEN {GroupFromBranch(b) : b \in ToSet(branches)}
  ELSE Unsupported

\* contactSegmentWriteFromModel: what may be configured at all.
Writable(m) ==
  IF m.type = "manual" THEN m.groups = {}
  ELSE m.groups # {} /\ (\A g \in m.groups : g # {} /\ g \subseteq Filters)

----------------------------------------------------------------------------
(* What the two forms mean for a contact, given the value it has for each  *)
(* property, Blank for none.                                               *)

Contacts == [Properties -> Values \cup {Blank}]

Agrees(f, v) ==
  CASE f.operator = "is_known"        -> v # Blank
    [] f.operator = "is_not_known"    -> v = Blank
    [] f.operator = "is_equal_to"     -> v = f.value
    [] f.operator = "is_not_equal_to" -> v \notin {f.value, Blank}

Holds(groups, c) == \E g \in groups : \A f \in g : Agrees(f, c[f.property])

\* HubSpot: a value that is not set is included only on request.
AgreesOnWire(w, v) ==
  CASE w.operator = "IS_KNOWN"   -> v # Blank
    [] w.operator = "IS_UNKNOWN" -> v = Blank
    [] w.operator \in {"IS_EQUAL_TO", "IS_ANY_OF"} ->
         v \in ToSet(w.values) \/ (w.unset /\ v = Blank)
    [] w.operator \in {"IS_NOT_EQUAL_TO", "IS_NONE_OF"} ->
         v \notin ToSet(w.values) /\ (w.unset \/ v # Blank)
    [] OTHER -> FALSE

HoldsOnWire(branches, c) ==
  \E b \in ToSet(branches) : \A w \in ToSet(b) : AgreesOnWire(w, c[w.property])

\* Groups of one or two predicates.
Predicates == {{f, g} : f \in Filters, g \in Filters}

\* One or two groups of one or two predicates come back as they were.
FiltersSurvive ==
  \A p \in Predicates, q \in Predicates :
    LET sent == BranchFromGroups({p, q})
    IN  /\ GroupsFromBranch(sent) = {p, q}
        /\ \A c \in Contacts : Holds({p, q}, c) = HoldsOnWire(sent, c)

\* A tree of two branches, of one and of two predicates, is read as what it
\* means or not at all.
MeaningKept ==
  \A w \in WireFilters, x \in WireFilters :
    LET tree == << <<x>>, <<w, x>> >>
    IN  \/ GroupsFromBranch(tree) = Unsupported
        \/ \A c \in Contacts : Holds(GroupsFromBranch(tree), c) = HoldsOnWire(tree, c)
=============================================================================
