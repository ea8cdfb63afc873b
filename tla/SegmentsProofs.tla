--------------------------- MODULE SegmentsProofs ---------------------------
(***************************************************************************)
(* What TLAPS proves of the contact segment, for any names, properties,    *)
(* values, configurations and foreign trees, and any number of reads and   *)
(* troubles.                                                               *)
(***************************************************************************)
EXTENDS Segments, FiniteSetTheorems, TLAPS

----------------------------------------------------------------------------
(* The filters.  A set that is finite can be laid out in a sequence without *)
(* losing or repeating an element.                                          *)

LEMMA LaidOut ==
  ASSUME NEW S, IsFiniteSet(S)
  PROVE  /\ Cardinality(S) \in Nat
         /\ SetToSeq(S) \in [1..Cardinality(S) -> S]
         /\ ToSet(SetToSeq(S)) = S
<1>1. Cardinality(S) \in Nat /\ ExistsBijection(1..Cardinality(S), S)
  BY FS_CardinalityType
<1> DEFINE D == 1..Cardinality(S)
<1>2. \E f \in [D -> S] : IsInjective(f)
  BY <1>1 DEF ExistsBijection, Bijection, Injection
<1>3. SetToSeq(S) \in [D -> S] /\ IsInjective(SetToSeq(S))
  BY <1>2 DEF SetToSeq
<1>4. SetToSeq(S) \in Injection(D, S)
  BY <1>3 DEF Injection
<1>5. Cardinality(D) = Cardinality(S)
  BY <1>1, FS_Interval
<1>6. SetToSeq(S) \in Surjection(D, S)
  BY <1>4, <1>5, FS_Injection
<1>7. \A t \in S : \E i \in D : SetToSeq(S)[i] = t
  BY <1>6 DEF Surjection
<1> QED
  BY <1>1, <1>3, <1>7 DEF ToSet

\* The words, type by type.
LEMMA WordTable ==
  /\ DOMAIN Words = {"STRING", "MULTISTRING", "ENUMERATION", "ALL_PROPERTY"}
  /\ Words["MULTISTRING"] = Words["STRING"] /\ Kinds["MULTISTRING"] = Kinds["STRING"]
  BY DEF Words, Kinds
LEMMA TextWords ==
  /\ DOMAIN Words["STRING"] = {"is_equal_to", "is_not_equal_to"}
  /\ Words["STRING"]["is_equal_to"] = "IS_EQUAL_TO"
  /\ Words["STRING"]["is_not_equal_to"] = "IS_NOT_EQUAL_TO"
  /\ Kinds["STRING"] = "text"
  BY DEF Words, Kinds
LEMMA SelectWords ==
  /\ DOMAIN Words["ENUMERATION"] = {"is_equal_to", "is_not_equal_to"}
  /\ Words["ENUMERATION"]["is_equal_to"] = "IS_ANY_OF"
  /\ Words["ENUMERATION"]["is_not_equal_to"] = "IS_NONE_OF"
  /\ Kinds["ENUMERATION"] = "select"
  BY DEF Words, Kinds
LEMMA PresenceWords ==
  /\ DOMAIN Words["ALL_PROPERTY"] = {"is_known", "is_not_known"}
  /\ Words["ALL_PROPERTY"]["is_known"] = "IS_KNOWN"
  /\ Words["ALL_PROPERTY"]["is_not_known"] = "IS_UNKNOWN"
  /\ Kinds["ALL_PROPERTY"] = ""
  BY DEF Words, Kinds

\* Two operators never share a word, so the word tells the operator.
LEMMA WordsDiffer ==
  ASSUME NEW t \in DOMAIN Words, NEW o \in DOMAIN Words[t], NEW p \in DOMAIN Words[t],
         Words[t][p] = Words[t][o]
  PROVE  p = o
<1>1. CASE Words[t] = Words["STRING"]
  BY <1>1, TextWords
<1>2. CASE t = "ENUMERATION"
  BY <1>2, SelectWords
<1>3. CASE t = "ALL_PROPERTY"
  BY <1>3, PresenceWords
<1> QED
  BY <1>1, <1>2, <1>3, WordTable

LEMMA WordsOfOperators ==
  ASSUME NEW w, w.type \in DOMAIN Words,
         NEW o \in DOMAIN Words[w.type], w.operator = Words[w.type][o]
  PROVE  OperatorFromWire(w) = o
<1>1. \A p \in DOMAIN Words[w.type] : Words[w.type][p] = w.operator => p = o
  BY WordsDiffer
<1> QED
  BY <1>1 DEF OperatorFromWire

\* What an operation with the right words and the values for them is read as.
LEMMA ReadBack ==
  ASSUME NEW p, NEW t \in DOMAIN Words, NEW o \in DOMAIN Words[t], NEW vs,
         Len(vs) = IF t = "ALL_PROPERTY" THEN 0 ELSE 1,
         NEW w, w = [property |-> p, type |-> t, operator |-> Words[t][o], values |-> vs,
                     unset |-> FALSE]
  PROVE  /\ Readable(w)
         /\ FilterFromWire(w) = [property |-> p, kind |-> Kinds[t], operator |-> o,
                                 value |-> IF vs = <<>> THEN Blank ELSE vs[1]]
<1>1. /\ w.property = p /\ w.type = t /\ w.operator = Words[t][o] /\ w.values = vs
      /\ ~w.unset
  OBVIOUS
<1>2. Readable(w)
  BY <1>1 DEF Readable
<1>3. OperatorFromWire(w) = o
  BY <1>1, WordsOfOperators
<1> QED
  BY <1>1, <1>2, <1>3 DEF FilterFromWire

\* The words of a predicate come back from the wire.
LEMMA FilterSurvives ==
  ASSUME NEW f \in Filters
  PROVE  /\ FilterFromSemantic(f) \in WireFilters
         /\ Readable(FilterFromSemantic(f))
         /\ FilterFromWire(FilterFromSemantic(f)) = f
<1> SUFFICES ASSUME NEW w, w = FilterFromSemantic(f)
             PROVE  w \in WireFilters /\ Readable(w) /\ FilterFromWire(w) = f
  OBVIOUS
<1>1. CASE f \in [property : Properties, operator : Presence, kind : {""}, value : {Blank}]
  <2>1. /\ f.property \in Properties /\ f.operator \in {"is_known", "is_not_known"}
        /\ f = [property |-> f.property, operator |-> f.operator, kind |-> "",
                value |-> Blank]
    BY <1>1 DEF Presence
  <2>2. w = [property |-> f.property, type |-> "ALL_PROPERTY",
             operator |-> Words["ALL_PROPERTY"][f.operator], values |-> <<>>,
             unset |-> FALSE]
    BY <2>1 DEF FilterFromSemantic, Presence
  <2>3. "ALL_PROPERTY" \in DOMAIN Words /\ f.operator \in DOMAIN Words["ALL_PROPERTY"]
    BY <2>1, WordTable, PresenceWords
  <2>4. Words["ALL_PROPERTY"][f.operator] \in {"IS_KNOWN", "IS_UNKNOWN"}
    BY <2>1, PresenceWords
  <2>5. w \in WireFilters
    <3> DEFINE V == {<<>>} \cup {<<v>> : v \in Values}
                          \cup {<<v, x>> : v \in Values, x \in Values}
    <3>1. <<>> \in V
      OBVIOUS
    <3> HIDE DEF V
    <3>2. w \in [property : Properties, values : V,
             type : {"STRING", "MULTISTRING", "ENUMERATION", "ALL_PROPERTY", "NUMBER"},
             operator : {"IS_EQUAL_TO", "IS_NOT_EQUAL_TO", "IS_ANY_OF", "IS_NONE_OF",
                         "IS_KNOWN", "IS_UNKNOWN", "IS_GREATER_THAN"},
             unset : BOOLEAN]
      <4>1. PICK e \in V : e = <<>>
        BY <3>1
      <4>2. PICK o : o = Words["ALL_PROPERTY"][f.operator]
        OBVIOUS
      <4>3. w = [property |-> f.property, type |-> "ALL_PROPERTY", operator |-> o,
                 values |-> e, unset |-> FALSE]
        BY <2>2, <4>1, <4>2
      <4>4. o \in {"IS_KNOWN", "IS_UNKNOWN"} /\ f.property \in Properties
        BY <2>1, <2>4, <4>2
      <4> QED
        BY <4>3, <4>4
    <3> QED
      BY <3>2 DEF WireFilters, V
  <2>6. /\ Readable(w)
        /\ FilterFromWire(w) = [property |-> f.property, kind |-> Kinds["ALL_PROPERTY"],
             operator |-> f.operator, value |-> Blank]
    BY <2>2, <2>3, ReadBack
  <2> QED
    BY <2>1, <2>5, <2>6, PresenceWords
<1>2. CASE f \in [property : Properties, operator : Equality, kind : {"text", "select"},
                  value : Values]
  <2>1. /\ f.property \in Properties /\ f.operator \in {"is_equal_to", "is_not_equal_to"}
        /\ f.kind \in {"text", "select"} /\ f.value \in Values
        /\ f = [property |-> f.property, operator |-> f.operator, kind |-> f.kind,
                value |-> f.value]
    BY <1>2 DEF Equality
  <2>2. PICK t : t = IF f.kind = "text" THEN "STRING" ELSE "ENUMERATION"
    OBVIOUS
  <2>3. /\ t \in DOMAIN Words /\ f.operator \in DOMAIN Words[t] /\ Kinds[t] = f.kind
        /\ t \in {"STRING", "ENUMERATION"}
    BY <2>1, <2>2, WordTable, TextWords, SelectWords
  <2>4. Words[t][f.operator] \in {"IS_EQUAL_TO", "IS_NOT_EQUAL_TO", "IS_ANY_OF", "IS_NONE_OF"}
    BY <2>1, <2>3, TextWords, SelectWords
  <2>5. w = [property |-> f.property, type |-> t, operator |-> Words[t][f.operator],
             values |-> <<f.value>>, unset |-> FALSE]
    <3>1. [text |-> "STRING", select |-> "ENUMERATION"][f.kind] = t
      BY <2>1, <2>2
    <3>2. f.operator \notin Presence
      BY <2>1 DEF Presence
    <3> QED
      BY <3>1, <3>2 DEF FilterFromSemantic
  <2>6. w \in WireFilters
    BY <2>1, <2>3, <2>4, <2>5 DEF WireFilters
  <2>7. Len(<<f.value>>) = 1 /\ <<f.value>> # <<>> /\ <<f.value>>[1] = f.value
    OBVIOUS
  <2>8. /\ Readable(w)
        /\ FilterFromWire(w) = [property |-> f.property, kind |-> Kinds[t],
             operator |-> f.operator,
             value |-> IF <<f.value>> = <<>> THEN Blank ELSE <<f.value>>[1]]
    BY <2>3, <2>5, <2>7, ReadBack
  <2> QED
    BY <2>1, <2>3, <2>6, <2>7, <2>8
<1> QED
  BY <1>1, <1>2 DEF Filters

\* A group comes back from its branch, in whatever order it travelled.
LEMMA GroupSurvives ==
  ASSUME NEW g, g \subseteq Filters, IsFiniteSet(g), g # {},
         NEW b, b = BranchFromGroup(g)
  PROVE  /\ b \in Seq(WireFilters) /\ b # <<>> /\ Len(b) = Cardinality(g)
         /\ \A w \in ToSet(b) : Readable(w)
         /\ GroupFromBranch(b) = g
<1>1. /\ Cardinality(g) \in Nat /\ SetToSeq(g) \in [1..Cardinality(g) -> g]
      /\ ToSet(SetToSeq(g)) = g
  BY LaidOut
<1>2. PICK order : order = SetToSeq(g)
  OBVIOUS
<1>3. PICK n \in Nat : n = Cardinality(g)
  BY <1>1
<1>4. /\ order \in [1..n -> g] /\ DOMAIN order = 1..n
      /\ \A f : f \in g <=> (\E i \in 1..n : order[i] = f)
  BY <1>1, <1>2, <1>3 DEF ToSet
<1>5. b = [i \in 1..n |-> FilterFromSemantic(order[i])]
  BY <1>2, <1>4 DEF BranchFromGroup
<1>6. \A i \in 1..n : /\ order[i] \in Filters /\ b[i] \in WireFilters /\ Readable(b[i])
                      /\ FilterFromWire(b[i]) = order[i]
  BY <1>4, <1>5, FilterSurvives
<1>7. b \in Seq(WireFilters) /\ Len(b) = n /\ DOMAIN b = 1..n
  BY <1>5, <1>6
<1>8. n # 0
  <2>1. \E i \in 1..n : TRUE
    BY <1>4
  <2> QED
    BY <2>1
<1>9. \A w \in ToSet(b) : Readable(w)
  BY <1>6, <1>7 DEF ToSet
<1>10. GroupFromBranch(b) = g
  BY <1>4, <1>6, <1>7 DEF GroupFromBranch, ToSet
<1> QED
  BY <1>3, <1>7, <1>8, <1>9, <1>10

\* Groups as contactSegmentWriteFromModel lets them through.
Sendable(groups) ==
  /\ groups # {} /\ IsFiniteSet(groups)
  /\ \A g \in groups : g # {} /\ g \subseteq Filters /\ IsFiniteSet(g)

\* What is configured comes back from the wire as it was, whatever the number
\* of groups and predicates and the order they travelled in
\* (contactSegmentBranchFromGroups, contactSegmentGroupsFromBranch).
THEOREM GroupsSurvive ==
  ASSUME NEW groups, Sendable(groups)
  PROVE  /\ BranchFromGroups(groups) \in Seq(Seq(WireFilters))
         /\ BranchFromGroups(groups) # <<>>
         /\ GroupsFromBranch(BranchFromGroups(groups)) = groups
         /\ Sound(BranchFromGroups(groups)) /\ Single(BranchFromGroups(groups))
<1>1. /\ Cardinality(groups) \in Nat
      /\ SetToSeq(groups) \in [1..Cardinality(groups) -> groups]
      /\ ToSet(SetToSeq(groups)) = groups
  BY LaidOut DEF Sendable
<1>2. PICK order : order = SetToSeq(groups)
  OBVIOUS
<1>3. PICK n \in Nat : n = Cardinality(groups)
  BY <1>1
<1>4. /\ order \in [1..n -> groups] /\ DOMAIN order = 1..n
      /\ \A g : g \in groups <=> (\E i \in 1..n : order[i] = g)
  BY <1>1, <1>2, <1>3 DEF ToSet
<1>5. PICK t : t = BranchFromGroups(groups)
  OBVIOUS
<1>6. t = [i \in 1..n |-> BranchFromGroup(order[i])]
  BY <1>2, <1>4, <1>5 DEF BranchFromGroups
<1>7. \A i \in 1..n :
        /\ t[i] \in Seq(WireFilters) /\ t[i] # <<>>
        /\ Len(t[i]) = Cardinality(order[i])
        /\ \A w \in ToSet(t[i]) : Readable(w)
        /\ GroupFromBranch(t[i]) = order[i]
  BY <1>4, <1>6, GroupSurvives DEF Sendable
<1>8. t \in Seq(Seq(WireFilters)) /\ Len(t) = n /\ DOMAIN t = 1..n
  BY <1>6, <1>7
<1>9. t # <<>>
  <2>1. \E i \in 1..n : TRUE
    BY <1>4 DEF Sendable
  <2> QED
    BY <2>1, <1>8
<1>10. \A b : b \in ToSet(t) <=> (\E i \in 1..n : t[i] = b)
  BY <1>8 DEF ToSet
<1>11. {GroupFromBranch(b) : b \in ToSet(t)} = groups
  BY <1>4, <1>7, <1>10
<1>12. Sound(t)
  BY <1>7, <1>9, <1>10 DEF Sound
<1>13. \A b \in ToSet(t) : Cardinality(GroupFromBranch(b)) = Len(b)
  BY <1>7, <1>10
<1>14. Single(t)
  BY <1>3, <1>8, <1>11, <1>13 DEF Single
<1> QED
  BY <1>5, <1>8, <1>9, <1>11, <1>12, <1>14 DEF GroupsFromBranch

\* A predicate that is read at all selects the contacts it selected.
LEMMA ReadAsMeant ==
  ASSUME NEW w \in WireFilters, Readable(w), NEW v
  PROVE  /\ FilterFromWire(w).property = w.property
         /\ Agrees(FilterFromWire(w), v) <=> AgreesOnWire(w, v)
<1>1. PICK t, o : /\ t = w.type /\ t \in DOMAIN Words /\ o \in DOMAIN Words[t]
                  /\ w.operator = Words[t][o]
  BY DEF Readable
<1>2. OperatorFromWire(w) = o
  BY <1>1, WordsOfOperators
<1>3. PICK f : /\ f = FilterFromWire(w) /\ f.property = w.property /\ f.operator = o
               /\ f.value = IF w.values = <<>> THEN Blank ELSE w.values[1]
  <2>1. PICK f : f = FilterFromWire(w)
    OBVIOUS
  <2>2. f = [property |-> w.property, kind |-> Kinds[w.type], operator |-> o,
             value |-> IF w.values = <<>> THEN Blank ELSE w.values[1]]
    BY <2>1, <1>2 DEF FilterFromWire
  <2> QED
    BY <2>1, <2>2
<1>4. CASE t = "ALL_PROPERTY"
  <2>1. \/ o = "is_known" /\ w.operator = "IS_KNOWN"
        \/ o = "is_not_known" /\ w.operator = "IS_UNKNOWN"
    BY <1>1, <1>4, PresenceWords
  <2> QED
    BY <1>3, <2>1 DEF Agrees, AgreesOnWire
<1>5. CASE t # "ALL_PROPERTY"
  <2>1. \/ o = "is_equal_to" /\ w.operator \in {"IS_EQUAL_TO", "IS_ANY_OF"}
        \/ o = "is_not_equal_to" /\ w.operator \in {"IS_NOT_EQUAL_TO", "IS_NONE_OF"}
    BY <1>1, <1>5, WordTable, TextWords, SelectWords
  <2>2. Len(w.values) = 1 /\ w.unset = FALSE
    BY <1>1, <1>5 DEF Readable
  <2>3. ToSet(w.values) = {f.value}
    <3>1. w.values \in {<<>>} \cup {<<x>> : x \in Values}
                       \cup {<<x, y>> : x \in Values, y \in Values}
      BY DEF WireFilters
    <3>2. \/ w.values = <<>>
          \/ \E x \in Values : w.values = <<x>>
          \/ \E x, y \in Values : w.values = <<x, y>>
      BY <3>1
    <3>3. PICK x : w.values = <<x>>
      BY <2>2, <3>2
    <3>4. f.value = x
      BY <1>3, <3>3
    <3> QED
      BY <3>3, <3>4 DEF ToSet
  <2> QED
    BY <1>3, <2>1, <2>2, <2>3 DEF Agrees, AgreesOnWire
<1> QED
  BY <1>4, <1>5

\* A tree, whoever wrote it and however large, is read as what it means or not
\* at all (contactSegmentGroupsFromBranch, contactSegmentFilterFromWire).
THEOREM TreeReadAsMeant ==
  ASSUME NEW tree \in Seq(Seq(WireFilters)), Sound(tree), Single(tree), NEW c
  PROVE  Holds(GroupsFromBranch(tree), c) = HoldsOnWire(tree, c)
<1>1. GroupsFromBranch(tree) = {GroupFromBranch(b) : b \in ToSet(tree)}
  BY DEF GroupsFromBranch
<1>2. ASSUME NEW b \in ToSet(tree)
      PROVE  (\A f \in GroupFromBranch(b) : Agrees(f, c[f.property]))
               <=> (\A w \in ToSet(b) : AgreesOnWire(w, c[w.property]))
  <2>1. b \in Seq(WireFilters)
    BY DEF ToSet
  <2>2. \A w \in ToSet(b) : Readable(w) /\ w \in WireFilters
    BY <2>1 DEF Sound, ToSet
  <2>3. \A w \in ToSet(b) :
          /\ FilterFromWire(w).property = w.property
          /\ Agrees(FilterFromWire(w), c[w.property]) <=> AgreesOnWire(w, c[w.property])
    BY <2>2, ReadAsMeant
  <2> QED
    BY <2>3 DEF GroupFromBranch
<1>3. Holds(GroupsFromBranch(tree), c) <=> HoldsOnWire(tree, c)
  BY <1>1, <1>2 DEF Holds, HoldsOnWire
<1>4. Holds(GroupsFromBranch(tree), c) \in BOOLEAN /\ HoldsOnWire(tree, c) \in BOOLEAN
  BY DEF Holds, HoldsOnWire
<1> QED
  BY <1>3, <1>4

LEMMA PairFinite ==
  ASSUME NEW x, NEW y
  PROVE  {x, y} # {} /\ IsFiniteSet({x, y})
<1>1. IsFiniteSet({} \cup {x})
  BY FS_EmptySet, FS_AddElement
<1>2. IsFiniteSet(({} \cup {x}) \cup {y})
  BY <1>1, FS_AddElement
<1>3. {x, y} = ({} \cup {x}) \cup {y}
  OBVIOUS
<1> QED
  BY <1>2, <1>3

LEMMA Survive == FiltersSurvive
<1> SUFFICES ASSUME NEW p \in Predicates, NEW q \in Predicates,
                    NEW sent, sent = BranchFromGroups({p, q})
             PROVE  /\ GroupsFromBranch(sent) = {p, q}
                    /\ \A c \in Contacts : Holds({p, q}, c) = HoldsOnWire(sent, c)
  BY DEF FiltersSurvive
<1>1. \A g \in Predicates : g # {} /\ g \subseteq Filters /\ IsFiniteSet(g)
  <2>1. ASSUME NEW f \in Filters, NEW g \in Filters
        PROVE  {f, g} # {} /\ {f, g} \subseteq Filters /\ IsFiniteSet({f, g})
    BY PairFinite
  <2> QED
    BY <2>1 DEF Predicates
<1>2. Sendable({p, q})
  BY <1>1, PairFinite DEF Sendable
<1>3. /\ sent \in Seq(Seq(WireFilters)) /\ Sound(sent) /\ Single(sent)
      /\ GroupsFromBranch(sent) = {p, q}
  BY <1>2, GroupsSurvive
<1>4. \A c \in Contacts : Holds({p, q}, c) = HoldsOnWire(sent, c)
  BY <1>3, TreeReadAsMeant
<1> QED
  BY <1>3, <1>4

LEMMA Kept == MeaningKept
<1> SUFFICES ASSUME NEW w \in WireFilters, NEW x \in WireFilters,
                    NEW tree, tree = << <<x>>, <<w, x>> >>,
                    GroupsFromBranch(tree) # Unsupported, NEW c \in Contacts
             PROVE  Holds(GroupsFromBranch(tree), c) = HoldsOnWire(tree, c)
  BY DEF MeaningKept
<1>1. Sound(tree) /\ Single(tree)
  BY DEF GroupsFromBranch
<1>2. <<x>> \in Seq(WireFilters) /\ <<w, x>> \in Seq(WireFilters)
  OBVIOUS
<1>3. tree \in Seq(Seq(WireFilters))
  BY <1>2
<1> QED
  BY <1>1, <1>3, TreeReadAsMeant

\* What would be written is read back as it was and selects the contacts it
\* should; what somebody else writes is read as what it means or not at all
\* (contactSegmentBranchFromGroups, contactSegmentGroupsFromBranch).
THEOREM MeaningSurvives == Spec => []FiltersKeepMeaning
<1>1. FiltersKeepMeaning
  BY Survive, Kept DEF FiltersKeepMeaning
<1> QED
  BY <1>1, PTL

----------------------------------------------------------------------------
(* The invariant says what a request may carry (RequestsValid), what reads  *)
(* may return besides the list (Portal), where a handler stands (Standing), *)
(* and what a run that nobody disturbed has achieved so far (InSync).       *)

\* A request names a known kind and carries what the configuration asked for.
ValidRequest(r) ==
  \/ r.kind \in {"create", "name"} /\ r.name \in Names
  \/ r.kind = "filters" /\ r.branches \in AllTrees
  \/ r.kind \in {"restore", "delete"}

RequestsValid == \A r \in late : ValidRequest(r)

\* What a read may return besides the list is never deleted and never newer.
Portal ==
  /\ list # None => list.name \in Names
  /\ before # None =>
       /\ list # None
       /\ ~before.deleted /\ before.type = list.type /\ before.version <= list.version

\* Which handler stands where.
Standing ==
  /\ phase = "idle" => op = "none"
  /\ op = "none" => pc = "done"
  /\ phase = "refresh" => op \in {"none", "read"}
  /\ phase = "apply" => op # "read"
  /\ op \in {"create", "update"} => config # None
  /\ pc = "get" => op = "read"
  /\ pc = "create" => op = "create"
  /\ pc \in {"restore", "restored", "name", "named", "filters"} => op = "update"
  /\ pc \in {"delete", "tombstone"} => op = "delete"
  /\ pc = "preflight" => op \in {"update", "delete"}
  /\ pc = "await" => op \in {"create", "update"}
  /\ wrote => op = "update" /\ pc \in {"await", "done"}

\* A late request of this very run, that cannot undo what the run is after.
Harmless(r) ==
  \/ r.kind = "delete" /\ (op = "delete" \/ pc = "create")
  \/ r.kind = "restore" /\ op = "update"
  \/ r.kind = "name" /\ op = "update" /\ r.name = config.name
  \/ r.kind = "filters" /\ wrote /\ r = Request("filters")

\* Reads return the list, or one that is being restored.
Clean == before = None \/ before.name = Incomplete
\* An older version is not the one the handler waits for.
Outdated == before = None \/ before.name = Incomplete \/ before.version < least
\* An older version has no more to show than the list.
Overtaken ==
  /\ lagging /\ Active /\ list.branches = Sent[config]
  /\ before # None /\ before.name = config.name => list.name = config.name

Refreshed ==
  phase = "refresh" =>
    /\ late = {}
    /\ ~lagging => before = None
    /\ ~lagging /\ pc = "done" /\ state # None =>
         list # None /\ state = Model(list) /\ marker = list.deleted
Created ==
  op = "create" =>
    /\ pc # "create" => late = {} /\ before = None
    /\ pc = "done" => AsConfigured
Restoring ==
  pc \in {"restore", "restored"} => current # None /\ current.name \in Names /\ Outdated
Filtering ==
  pc = "filters" => Outdated /\ (~lagging => Active /\ least = list.version + 1)
Awaited ==
  pc = "await" /\ op = "update" =>
    /\ Outdated \/ Overtaken
    /\ ~lagging => Active /\ (\A r \in late : r.kind = "filters" => list.version < least)
Updated ==
  op = "update" /\ pc = "done" =>
    /\ ~lagging \/ wrote => AsConfigured
    /\ ~lagging /\ wrote =>
         list.status = "COMPLETE" /\ (\A r \in late : r.kind # "filters")
Untouched == phase = "apply" /\ op = "none" /\ ~lagging => AsConfigured
Deleted == op = "delete" /\ pc = "done" => state = None

InSync ==
  phase # "idle" /\ quiet /\ ~failed =>
    /\ \A r \in late : Harmless(r)
    /\ ~lagging /\ op = "update" /\ pc \notin {"await", "done"} => Clean
    /\ Refreshed /\ Created /\ Restoring /\ Filtering /\ Awaited /\ Updated
    /\ Untouched /\ Deleted

IInv == TypeOK /\ RequestsValid /\ Portal /\ Standing /\ InSync

----------------------------------------------------------------------------
(* What the tables hold.                                                   *)

\* What may be asked for, is sent and comes back.
LEMMA Asked ==
  ASSUME NEW c \in Configs, c # None
  PROVE  /\ c \in Models /\ c \in Stored /\ c.name \in Names /\ c.type \in Types
         /\ c.groups \subseteq SUBSET Filters
         /\ Sent[c] \in AllTrees
         /\ c.type = "manual" => Sent[c] = <<>> /\ c.groups = {}
         /\ c.type # "manual" => Sent[c] \in Seq(Seq(WireFilters)) /\ Meaning[Sent[c]] = c.groups
<1>1. c \in Models
  BY SegmentAssumption
<1>2. /\ c = [name |-> c.name, type |-> c.type, groups |-> c.groups]
      /\ c.name \in Names /\ c.type \in Types /\ c.groups \subseteq SUBSET Filters /\ Writable(c)
  BY <1>1 DEF Models, Types
<1>3. c \in Stored
  BY <1>2 DEF Stored
<1>4. Sent[c] \in AllTrees /\ (c.type = "manual" => Sent[c] = <<>>)
  BY DEF Sent, AllTrees
<1>5. c.type = "manual" => c.groups = {}
  BY <1>2 DEF Writable
<1>6. ASSUME c.type # "manual"
      PROVE  Sent[c] \in Seq(Seq(WireFilters)) /\ Meaning[Sent[c]] = c.groups
  <2>1. Sendable(c.groups)
    BY <1>2, <1>6, SegmentAssumption DEF Writable, Sendable
  <2>2. Sent[c] = BranchFromGroups(c.groups)
    BY <1>6 DEF Sent
  <2>3. Meaning[Sent[c]] = GroupsFromBranch(Sent[c])
    BY <1>4 DEF Meaning
  <2> QED BY <2>1, <2>2, <2>3, GroupsSurvive
<1> QED BY <1>1, <1>2, <1>3, <1>4, <1>5, <1>6

\* A list with the tree that was sent has the groups that were configured.
LEMMA SentGroups ==
  ASSUME NEW c \in Configs, c # None, NEW v, v.type = c.type, v.branches = Sent[c]
  PROVE  Groups(v) = c.groups
  BY Asked DEF Groups

LEMMA PresenceTyped ==
  ASSUME NEW p \in Properties, NEW o \in Presence
  PROVE  [property |-> p, kind |-> "", operator |-> o, value |-> Blank] \in Filters
  BY DEF Filters

\* A predicate that is read is one that might have been configured.
LEMMA FilterTyped ==
  ASSUME NEW w \in WireFilters, Readable(w)
  PROVE  FilterFromWire(w) \in Filters
<1>1. PICK t, o : /\ t = w.type /\ t \in DOMAIN Words /\ o \in DOMAIN Words[t]
                  /\ w.operator = Words[t][o]
  BY DEF Readable
<1>2. OperatorFromWire(w) = o
  BY <1>1, WordsOfOperators
<1>3. PICK val : val = IF w.values = <<>> THEN Blank ELSE w.values[1]
  OBVIOUS
<1>4. FilterFromWire(w) = [property |-> w.property, kind |-> Kinds[t], operator |-> o,
                           value |-> val]
  BY <1>1, <1>2, <1>3 DEF FilterFromWire
<1>5. /\ w.property \in Properties
      /\ \/ w.values = <<>>
         \/ \E x \in Values : w.values = <<x>>
         \/ \E x, y \in Values : w.values = <<x, y>>
  BY DEF WireFilters
<1>6. CASE t = "ALL_PROPERTY"
  <2>1. o \in Presence /\ Kinds[t] = ""
    BY <1>1, <1>6, PresenceWords DEF Presence
  <2>2. val = Blank
    <3>1. Len(w.values) = 0
      BY <1>1, <1>6 DEF Readable
    <3>2. w.values = <<>>
      BY <1>5, <3>1
    <3> QED BY <1>3, <3>2
  <2>3. FilterFromWire(w) = [property |-> w.property, kind |-> "", operator |-> o,
                             value |-> Blank]
    BY <1>4, <2>1, <2>2
  <2> QED BY <1>5, <2>1, <2>3, PresenceTyped
<1>7. CASE t # "ALL_PROPERTY"
  <2>1. o \in Equality /\ Kinds[t] \in {"text", "select"}
    BY <1>1, <1>7, WordTable, TextWords, SelectWords DEF Equality
  <2>2. val \in Values
    <3>1. Len(w.values) = 1
      BY <1>1, <1>7 DEF Readable
    <3>2. PICK x \in Values : w.values = <<x>>
      BY <1>5, <3>1
    <3> QED BY <1>3, <3>2
  <2>3. FilterFromWire(w) \in [property : Properties, operator : Equality,
                               kind : {"text", "select"}, value : Values]
    BY <1>4, <1>5, <2>1, <2>2
  <2> QED BY <2>3 DEF Filters
<1> QED BY <1>6, <1>7

\* What a readable list says may be kept in state.
LEMMA ModelTyped ==
  ASSUME NEW v \in Lists, ~Unreadable(v)
  PROVE  /\ Model(v) \in Stored /\ Model(v) # None /\ v # None
         /\ Model(v).name = v.name /\ Model(v).type = v.type /\ Model(v).groups = Groups(v)
<1>1. v # None /\ v.name \in Names \cup {Incomplete} /\ v.type \in Types /\ v.branches \in AllTrees
  BY SegmentAssumption DEF Lists
<1>2. Groups(v) # Unsupported
  BY <1>1 DEF Unreadable
<1>3. Groups(v) \subseteq SUBSET Filters
  <2>1. CASE v.type = "manual"
    BY <1>2, <2>1 DEF Groups
  <2>2. CASE v.type # "manual"
    <3>1. Groups(v) = GroupsFromBranch(v.branches)
      BY <1>1, <2>2 DEF Groups, Meaning
    <3>2. Sound(v.branches) /\ Groups(v) = {GroupFromBranch(b) : b \in ToSet(v.branches)}
      BY <1>2, <3>1 DEF GroupsFromBranch
    <3>3. v.branches \in Seq(Seq(WireFilters))
      <4>1. CASE v.branches \in Trees
        BY <4>1, SegmentAssumption
      <4>2. CASE v.branches \notin Trees
        <5>1. PICK c \in Configs \ {None} : v.branches = Sent[c]
          BY <1>1, <4>2 DEF AllTrees
        <5>2. v.branches # <<>>
          BY <3>2 DEF Sound
        <5> QED BY <5>1, <5>2, Asked
      <4> QED BY <4>1, <4>2
    <3>4. ASSUME NEW b \in ToSet(v.branches) PROVE GroupFromBranch(b) \subseteq Filters
      <4>1. b \in Seq(WireFilters)
        BY <3>3 DEF ToSet
      <4>2. \A w \in ToSet(b) : w \in WireFilters /\ Readable(w)
        BY <3>2, <4>1 DEF Sound, ToSet
      <4>3. \A w \in ToSet(b) : FilterFromWire(w) \in Filters
        BY <4>2, FilterTyped
      <4> QED BY <4>3 DEF GroupFromBranch
    <3> QED BY <3>2, <3>4
  <2> QED BY <2>1, <2>2
<1>4. Model(v) \in Stored
  BY <1>1, <1>3 DEF Model, Stored
<1> QED BY <1>1, <1>4, SegmentAssumption DEF Model

----------------------------------------------------------------------------
(* What a request does to the list, and what reads show of it.             *)

LEMMA ViewsTyped ==
  ASSUME TypeOK, Portal, NEW v \in Views
  PROVE  /\ v = None <=> list = None
         /\ v # None => /\ v \in Lists /\ list \in Lists
                        /\ v = list \/ (v = before /\ before # None)
                        /\ v.type = list.type /\ v.version <= list.version
                        /\ v.deleted => v = list
<1>1. (list = None => v = None) /\ (list # None => v # None /\ v \in {list, before})
  BY DEF Views
<1>2. list # None => list \in Lists /\ list.version \in Nat
  BY DEF TypeOK, Lists
<1>3. before # None => before \in Lists
  BY DEF TypeOK
<1> QED BY <1>1, <1>2, <1>3 DEF Portal

\* What an accepted request has done.
Took(r) ==
  /\ r.kind = "create" => before' = None
  /\ r.kind \in {"name", "filters", "delete"} => Active
  /\ r.kind = "restore" => list # None /\ list.deleted
  /\ r.kind # "create" => list'.type = list.type /\ taken' = taken
  /\ r.kind \in {"name", "delete"} => before' = before
  /\ r.kind \in {"create", "filters", "restore", "name"} => ~list'.deleted
  /\ r.kind = "name" => /\ list'.name = r.name /\ list'.branches = list.branches
                        /\ list'.version = list.version /\ list'.status = list.status
  /\ r.kind = "filters" => /\ list'.name = list.name /\ list'.branches = r.branches
                           /\ list'.version = list.version + 1
                           /\ before' \in {None, list}
  /\ r.kind = "restore" => /\ list'.version = list.version + 1
                           /\ before' = None \/ before'.name = Incomplete

LEMMA Effect ==
  ASSUME TypeOK, Portal, NEW r, ValidRequest(r), TakeEffect(r),
         r.kind = "create" => r.type \in Types /\ r.branches \in AllTrees
  PROVE  /\ list' \in Lists /\ list' # None /\ before' \in Lists \cup {None}
         /\ taken' \subseteq Names /\ Portal'
         /\ Took(r)
<1>1. /\ Accepts(r) /\ list' \in Results(r) /\ before' \in Remains(r, list')
      /\ taken' = IF r.kind = "create" THEN Others ELSE taken
  BY DEF TakeEffect
<1>2. /\ list # None => list \in Lists /\ list.version \in Nat \ {0} /\ list.name \in Names
      /\ before # None => /\ before \in Lists /\ before.version \in Nat \ {0}
      /\ taken \subseteq Names /\ Others \subseteq Names
  BY DEF TypeOK, Lists, Portal, Others, Active
<1>3. SUFFICES /\ list' \in Lists /\ before' \in Lists \cup {None} /\ Portal' /\ Took(r)
  BY <1>1, <1>2, SegmentAssumption
<1>4. CASE r.kind = "create"
  <2>1. PICK s \in {"PROCESSING", "COMPLETE"} :
          list' = [name |-> r.name, type |-> r.type, branches |-> r.branches, version |-> 1,
                   status |-> s, deleted |-> FALSE]
    BY <1>1, <1>4 DEF Results
  <2>2. before' = None
    BY <1>1, <1>4 DEF Remains
  <2>3. list' \in Lists /\ list'.name \in Names /\ ~list'.deleted
    BY <1>4, <2>1 DEF Lists, Statuses, ValidRequest
  <2> QED BY <1>4, <2>2, <2>3 DEF Portal, Took
<1>5. CASE r.kind = "name"
  <2>1. Active /\ list' = [list EXCEPT !.name = r.name] /\ before' = before
    BY <1>1, <1>5 DEF Results, Remains, Accepts
  <2>2. list # None /\ list \in Lists /\ r.name \in Names
    BY <1>2, <1>5, <2>1 DEF Active, ValidRequest
  <2>3. /\ list' \in Lists /\ list'.name = r.name /\ list'.type = list.type
        /\ list'.branches = list.branches /\ list'.version = list.version
        /\ list'.status = list.status /\ list'.deleted = list.deleted
    BY <2>1, <2>2 DEF Lists
  <2> QED BY <1>1, <1>2, <1>5, <2>1, <2>2, <2>3, SegmentAssumption DEF Portal, Took, Active
<1>6. CASE r.kind = "filters"
  <2>1. /\ Active /\ before' \in {None, list}
        /\ \E s \in {"PROCESSING", "COMPLETE"} :
             list' = [list EXCEPT !.branches = r.branches, !.version = @ + 1, !.status = s]
    BY <1>1, <1>6 DEF Results, Remains, Accepts
  <2>2. list # None /\ list \in Lists /\ r.branches \in AllTrees
    BY <1>2, <1>6, <2>1 DEF Active, ValidRequest
  <2>3. /\ list' \in Lists /\ list'.name = list.name /\ list'.type = list.type
        /\ list'.branches = r.branches /\ list'.version = list.version + 1
        /\ list'.deleted = list.deleted
    <3>1. PICK s \in Statuses :
            list' = [list EXCEPT !.branches = r.branches, !.version = list.version + 1,
                                 !.status = s]
      BY <2>1 DEF Statuses
    <3>2. list.version + 1 \in Nat \ {0}
      BY <1>2, <2>2
    <3> QED BY <2>2, <3>1, <3>2 DEF Lists
  <2> QED BY <1>1, <1>2, <1>6, <2>1, <2>2, <2>3, SegmentAssumption DEF Portal, Took, Active
<1>7. CASE r.kind = "restore"
  <2>1. /\ list # None /\ list.deleted
        /\ list' = [list EXCEPT !.deleted = FALSE, !.version = @ + 1, !.status = "COMPLETE"]
        /\ before' \in {None, [list' EXCEPT !.name = Incomplete]}
    BY <1>1, <1>7 DEF Results, Remains, Accepts
  <2>2. /\ list' \in Lists /\ list'.name = list.name /\ list'.type = list.type
        /\ list'.version = list.version + 1 /\ list'.deleted = FALSE
    <3>1. list.version + 1 \in Nat \ {0} /\ "COMPLETE" \in Statuses
      BY <1>2, <2>1 DEF Statuses
    <3>2. list' = [list EXCEPT !.deleted = FALSE, !.version = list.version + 1,
                               !.status = "COMPLETE"]
      BY <2>1
    <3> QED BY <1>2, <2>1, <3>1, <3>2 DEF Lists
  <2>3. before' # None => /\ before' \in Lists /\ before'.name = Incomplete
                          /\ before'.type = list.type /\ before'.version = list'.version
                          /\ before'.deleted = FALSE
    BY <2>1, <2>2 DEF Lists
  <2> QED BY <1>1, <1>2, <1>7, <2>1, <2>2, <2>3, SegmentAssumption DEF Portal, Took, Active
<1>8. CASE r.kind = "delete"
  <2>1. Active /\ list' = [list EXCEPT !.deleted = TRUE, !.version = @ + 1] /\ before' = before
    BY <1>1, <1>8 DEF Results, Remains, Accepts
  <2>2. list # None /\ list \in Lists
    BY <1>2, <2>1 DEF Active
  <2>3. /\ list' \in Lists /\ list'.name = list.name /\ list'.type = list.type
        /\ list'.version = list.version + 1
    <3>1. list.version + 1 \in Nat \ {0}
      BY <1>2, <2>2
    <3>2. list' = [list EXCEPT !.deleted = TRUE, !.version = list.version + 1]
      BY <2>1
    <3> QED BY <2>2, <3>1, <3>2 DEF Lists
  <2> QED BY <1>1, <1>2, <1>8, <2>1, <2>2, <2>3, SegmentAssumption DEF Portal, Took, Active
<1> QED BY <1>4, <1>5, <1>6, <1>7, <1>8 DEF ValidRequest

----------------------------------------------------------------------------
(* How handlers end.                                                       *)

\* What holds of HubSpot and of the requests, whatever the handlers do.
Service ==
  /\ {list, before} \subseteq Lists \cup {None} /\ taken \subseteq Names
  /\ late \subseteq Requests /\ RequestsValid /\ Portal

Pcs == {"done", "get", "preflight", "create", "await", "restored", "named", "tombstone",
        "restore", "name", "filters", "delete"}

LEMMA Stops ==
  /\ DOMAIN After = {"restore", "name", "filters", "delete"}
  /\ After["restore"] = "restored" /\ After["name"] = "named"
  /\ After["filters"] = "await" /\ After["delete"] = "tombstone"
  BY DEF After

LEMMA Serviced ==
  /\ IInv => Service
  /\ Service /\ UNCHANGED portal => Service'
<1>1. IInv => Service
  BY DEF IInv, TypeOK, Service
<1>2. Service /\ UNCHANGED portal => Service'
  BY DEF Service, portal, RequestsValid, ValidRequest, Portal
<1> QED BY <1>1, <1>2

\* Types, gathered from the parts that an action changes.
LEMMA Typed ==
  ASSUME Service', current' \in Lists \cup {None}, config' \in Configs,
         state' \in Stored \cup {None}, marker' \in BOOLEAN, tainted' \in BOOLEAN,
         state' = None => marker' = FALSE /\ tainted' = FALSE,
         phase' \in {"idle", "refresh", "apply"},
         op' \in {"none", "read", "create", "update", "delete"}, pc' \in Pcs,
         least' \in Nat, count' \in 0..(Polls - 1),
         failed' \in BOOLEAN, wrote' \in BOOLEAN, quiet' \in BOOLEAN, lagging' \in BOOLEAN,
         trouble' \in 0..MaxTrouble
  PROVE  TypeOK'
<1>1. late' \subseteq Requests
  BY DEF Service, Requests
<1>2. {list', before', current'} \subseteq Lists \cup {None} /\ taken' \subseteq Names
  BY DEF Service
<1>3. pc' \in {"done", "get", "preflight", "create", "await", "restored", "named",
              "tombstone"} \cup DOMAIN After
  BY Stops DEF Pcs
<1>4. {failed', wrote', quiet', lagging'} \subseteq BOOLEAN
  OBVIOUS
<1>5. state' = None => ~marker' /\ ~tainted'
  OBVIOUS
<1> QED BY <1>1, <1>2, <1>3, <1>4, <1>5 DEF TypeOK

LEMMA Untyped ==
  ASSUME TypeOK
  PROVE  /\ current \in Lists \cup {None} /\ config \in Configs
         /\ state \in Stored \cup {None} /\ marker \in BOOLEAN /\ tainted \in BOOLEAN
         /\ state = None => marker = FALSE /\ tainted = FALSE
         /\ phase \in {"idle", "refresh", "apply"}
         /\ op \in {"none", "read", "create", "update", "delete"} /\ pc \in Pcs
         /\ least \in Nat /\ count \in 0..(Polls - 1)
         /\ failed \in BOOLEAN /\ wrote \in BOOLEAN /\ quiet \in BOOLEAN /\ lagging \in BOOLEAN
         /\ trouble \in 0..MaxTrouble
  BY Stops DEF TypeOK, Pcs

\* An error ends the handler; nothing more is claimed of the run.
LEMMA FailStep ==
  ASSUME IInv, Service', UNCHANGED <<config, phase, quiet, lagging>>,
         wrote' \in BOOLEAN, wrote' => op = "update", trouble' \in 0..MaxTrouble,
         NEW m, m \in BOOLEAN, m => marker, FailMarked(m)
  PROVE  IInv'
<1>1. /\ pc' = "done" /\ count' = 0 /\ op' = op /\ current' = None /\ least' = 0
      /\ failed' = TRUE /\ marker' = m /\ state' = state /\ tainted' = tainted
  BY DEF FailMarked, Done, Goto
<1>2. state = None => m = FALSE
  BY DEF IInv, TypeOK
<1>3. TypeOK'
  <2>1. count' \in 0..(Polls - 1) /\ least' \in Nat
    BY <1>1, SegmentAssumption
  <2> QED BY <1>1, <1>2, <2>1, Untyped, Typed DEF IInv, Pcs
<1>4. Standing' /\ InSync'
  BY <1>1 DEF IInv, Standing, InSync
<1> QED BY <1>3, <1>4 DEF IInv, Service

LEMMA PlainFail ==
  ASSUME IInv, Service', UNCHANGED <<config, phase, quiet, lagging>>,
         wrote' \in BOOLEAN, wrote' => op = "update", trouble' \in 0..MaxTrouble, Fail
  PROVE  IInv'
<1>1. PICK m \in BOOLEAN : m = (marker /\ (op # "update" \/ pc \in {"preflight", "restore", "restored"}))
  BY Zenon
<1>2. m => marker
  BY <1>1
<1>3. FailMarked(m)
  BY <1>1 DEF Fail
<1> QED BY <1>1, <1>2, <1>3, FailStep

\* What all reads leave alone.
Unread == UNCHANGED <<portal, frame, quiet, trouble>>

LEMMA ReadLeaves ==
  ASSUME IInv, Unread
  PROVE  /\ UNCHANGED <<list, before, taken, late, config, phase, wrote, lagging, quiet, trouble>>
         /\ Service' /\ wrote' \in BOOLEAN /\ (wrote' => op = "update")
         /\ trouble' \in 0..MaxTrouble
<1>1. UNCHANGED <<list, before, taken, late, config, phase, wrote, lagging, quiet, trouble>>
  BY DEF Unread, portal, frame
<1>2. Service'
  BY Serviced DEF Unread
<1> QED BY <1>1, <1>2, Untyped DEF IInv, Standing

LEMMA FailedRead == IInv /\ Unread /\ Fail => IInv'
  BY ReadLeaves, PlainFail

\* A handler goes on.
LEMMA GoesOn ==
  ASSUME IInv, Unread, NEW l \in Pcs, NEW v \in Lists \cup {None}, NEW n \in Nat,
         Continue(l, v, n)
  PROVE  /\ pc' = l /\ current' = v /\ least' = n /\ count' = 0 /\ op' = op
         /\ UNCHANGED <<state, marker, tainted, failed>>
         /\ TypeOK' /\ RequestsValid' /\ Portal'
<1>1. /\ pc' = l /\ current' = v /\ least' = n /\ count' = 0 /\ op' = op
      /\ UNCHANGED <<state, marker, tainted, failed>>
  BY DEF Continue, Goto, files
<1>2. count' \in 0..(Polls - 1)
  BY <1>1, SegmentAssumption
<1>3. TypeOK'
  BY <1>1, <1>2, ReadLeaves, Untyped, Typed DEF IInv
<1> QED BY <1>1, <1>3, ReadLeaves DEF Service

\* What does not move keeps its meaning.
LEMMA Unmoved ==
  ASSUME UNCHANGED config
  PROVE  /\ UNCHANGED list => Model(list)' = Model(list) /\ (Active' <=> Active)
         /\ UNCHANGED <<list, state>> => (AsConfigured' <=> AsConfigured)
         /\ \A r : op' = op /\ pc' = pc /\ wrote' = wrote => (Harmless(r)' <=> Harmless(r))
<1>1. Request("filters")' = Request("filters")
  BY DEF Request
<1>2. UNCHANGED list => Model(list)' = Model(list)
  BY DEF Model, Groups
<1>3. UNCHANGED list => (Active' <=> Active)
  BY DEF Active
<1>4. UNCHANGED <<list, state>> => (AsConfigured' <=> AsConfigured)
  BY <1>3 DEF AsConfigured, Matches, Groups
<1>5. ASSUME NEW r, op' = op, pc' = pc, wrote' = wrote
      PROVE  Harmless(r)' <=> Harmless(r)
  BY <1>1, <1>5 DEF Harmless
<1> QED BY <1>2, <1>3, <1>4, <1>5

\* One more read changes nothing but the count.
LEMMA AgainStep == IInv /\ Unread /\ PollAgain => IInv'
<1> SUFFICES ASSUME IInv, Unread, PollAgain PROVE IInv'
  OBVIOUS
<1>1. /\ count' = count + 1 /\ count + 1 < Polls
      /\ UNCHANGED <<op, pc, current, least, state, marker, tainted, failed>>
  BY DEF PollAgain, files
<1>2. count' \in 0..(Polls - 1)
  BY <1>1, SegmentAssumption, Untyped DEF IInv
<1>3. TypeOK'
  BY <1>1, <1>2, ReadLeaves, Untyped, Typed DEF IInv
<1>4. Standing'
  BY <1>1, ReadLeaves DEF IInv, Standing
<1>5. InSync'
  <2>1. UNCHANGED <<list, before, late, config, state, phase, wrote, lagging, quiet>>
    BY <1>1, ReadLeaves
  <2>2. (AsConfigured' <=> AsConfigured) /\ (\A r : Harmless(r)' <=> Harmless(r))
    BY <1>1, <2>1, Unmoved
  <2>3. Active' <=> Active
    BY <2>1 DEF Active
  <2>4. Model(list)' = Model(list)
    BY <2>1, Unmoved
  <2>5. (Outdated' <=> Outdated) /\ (Overtaken' <=> Overtaken) /\ (Clean' <=> Clean)
    BY <1>1, <2>1, <2>3 DEF Outdated, Overtaken, Clean
  <2>6. (Refreshed => Refreshed') /\ (Created => Created')
    BY <1>1, <2>1, <2>2, <2>4 DEF Refreshed, Created
  <2>7. (Restoring => Restoring') /\ (Filtering => Filtering') /\ (Awaited => Awaited')
    BY <1>1, <2>1, <2>3, <2>5 DEF Restoring, Filtering, Awaited
  <2>8. (Updated => Updated') /\ (Untouched => Untouched') /\ (Deleted => Deleted')
    BY <1>1, <2>1, <2>2 DEF Updated, Untouched, Deleted
  <2> QED BY <1>1, <2>1, <2>2, <2>5, <2>6, <2>7, <2>8 DEF IInv, InSync
<1> QED BY <1>3, <1>4, <1>5, ReadLeaves DEF IInv, Service

Configured == Active /\ Matches(list, config)

\* A handler ends well, with a version of the list that says what it should.
LEMMA RecordStep ==
  ASSUME IInv, Unread, NEW v \in Lists, ~Unreadable(v), Record(v),
         pc \notin {"done", "create"}, op \in {"read", "create", "update"},
         op = "read" /\ quiet /\ ~failed /\ ~lagging => v = list,
         op = "create" /\ quiet /\ ~failed => Configured,
         op = "update" /\ quiet /\ ~failed /\ (~lagging \/ wrote) => Configured,
         op = "update" /\ quiet /\ ~failed /\ ~lagging /\ wrote =>
           list.status = "COMPLETE" /\ (\A r \in late : r.kind # "filters")
  PROVE  IInv'
<1>1. /\ pc' = "done" /\ count' = 0 /\ op' = op /\ current' = None /\ least' = 0
      /\ state' = Model(v) /\ failed' = failed
  BY DEF Record, Done, Goto
<1>2. tainted' \in BOOLEAN
  <2>1. tainted' = (tainted /\ op = "read")
    BY DEF Record
  <2> QED BY <2>1, Zenon
<1>3. marker' \in BOOLEAN /\ (op = "read" => marker' = v.deleted)
  <2>1. marker' = (v.deleted /\ op # "update")
    BY DEF Record
  <2>2. marker' \in BOOLEAN
    BY <2>1, Zenon
  <2>3. v.deleted \in BOOLEAN
    BY DEF Lists
  <2>4. op = "read" => marker' = v.deleted
    <3>1. CASE v.deleted = TRUE
      BY <2>1, <3>1
    <3>2. CASE v.deleted = FALSE
      BY <2>1, <3>2
    <3> QED BY <2>3, <3>1, <3>2
  <2> QED BY <2>2, <2>4
<1>4. state' \in Stored /\ state' # None
  BY <1>1, ModelTyped
<1>5. TypeOK'
  <2>1. count' \in 0..(Polls - 1) /\ least' \in Nat
    BY <1>1, SegmentAssumption
  <2> QED BY <1>1, <1>2, <1>3, <1>4, <2>1, ReadLeaves, Untyped, Typed DEF IInv, Pcs
<1>6. Standing'
  BY <1>1, ReadLeaves DEF IInv, Standing
<1>7. InSync'
  <2>1. SUFFICES ASSUME phase # "idle", quiet, ~failed PROVE InSync'
    BY <1>1, ReadLeaves DEF InSync
  <2>2. UNCHANGED <<list, before, late, config, phase, wrote, lagging, quiet>>
    BY ReadLeaves
  <2>3. op \in {"create", "update"} /\ Configured => AsConfigured'
    <3>1. AsConfigured' <=> IF config = None THEN state' = None
                            ELSE state' # None /\ Active /\ Matches(list, config)
      BY <2>2 DEF AsConfigured, Active, Matches, Groups
    <3>2. op \in {"create", "update"} => config # None
      BY DEF IInv, Standing
    <3> QED BY <1>4, <3>1, <3>2 DEF Configured
  <2>4. ASSUME NEW r \in late PROVE Harmless(r)'
    <3>1. Harmless(r)
      BY <2>1 DEF IInv, InSync
    <3>2. Request("filters")' = Request("filters")
      BY <2>2 DEF Request
    <3> QED BY <1>1, <2>2, <3>1, <3>2 DEF Harmless
  <2>5. Refreshed'
    <3>1. phase = "refresh" => op = "read"
      BY DEF IInv, Standing, Untyped
    <3>2. Model(list)' = Model(list)
      BY <2>2, Unmoved
    <3> QED BY <1>1, <1>3, <2>1, <2>2, <3>1, <3>2, ModelTyped DEF Refreshed, IInv, InSync
  <2>6. Created'
    BY <1>1, <2>1, <2>2, <2>3 DEF Created, IInv, InSync
  <2>7. Updated'
    BY <1>1, <2>1, <2>2, <2>3 DEF Updated
  <2>8. Restoring' /\ Filtering' /\ Awaited' /\ Untouched' /\ Deleted'
    BY <1>1 DEF Restoring, Filtering, Awaited, Untouched, Deleted
  <2> QED BY <1>1, <2>1, <2>2, <2>4, <2>5, <2>6, <2>7, <2>8 DEF InSync
<1> QED BY <1>5, <1>6, <1>7, ReadLeaves DEF IInv, Service

\* State lets go of a list, after a read that did not find it or found it
\* deleted.
LEMMA ForgetStep ==
  ASSUME IInv, Unread, Forget, pc \notin {"done", "create"}, op \in {"read", "delete"}
  PROVE  IInv'
<1>1. /\ pc' = "done" /\ count' = 0 /\ op' = op /\ current' = None /\ least' = 0
      /\ state' = None /\ marker' = FALSE /\ tainted' = FALSE /\ failed' = failed
  BY DEF Forget, Done, Goto
<1>2. TypeOK'
  <2>1. count' \in 0..(Polls - 1) /\ least' \in Nat
    BY <1>1, SegmentAssumption
  <2> QED BY <1>1, <2>1, ReadLeaves, Untyped, Typed DEF IInv, Pcs
<1>3. Standing'
  BY <1>1, ReadLeaves DEF IInv, Standing
<1>4. InSync'
  <2>1. SUFFICES ASSUME phase # "idle", quiet, ~failed PROVE InSync'
    BY <1>1, ReadLeaves DEF InSync
  <2>2. UNCHANGED <<list, before, late, config, phase, wrote, lagging, quiet>>
    BY ReadLeaves
  <2>3. ASSUME NEW r \in late PROVE Harmless(r)'
    <3>1. Harmless(r)
      BY <2>1 DEF IInv, InSync
    <3>2. Request("filters")' = Request("filters")
      BY <2>2 DEF Request
    <3> QED BY <1>1, <2>2, <3>1, <3>2 DEF Harmless
  <2>4. Refreshed' /\ Deleted'
    BY <1>1, <2>1, <2>2 DEF Refreshed, Deleted, IInv, InSync
  <2>5. Created' /\ Updated' /\ Restoring' /\ Filtering' /\ Awaited' /\ Untouched'
    BY <1>1 DEF Created, Updated, Restoring, Filtering, Awaited, Untouched
  <2> QED BY <1>1, <2>1, <2>2, <2>3, <2>4, <2>5 DEF InSync
<1> QED BY <1>2, <1>3, <1>4, ReadLeaves DEF IInv, Service

LEMMA StillHarmless ==
  ASSUME UNCHANGED <<config, op>>, wrote => wrote', pc # "create", NEW r, Harmless(r)
  PROVE  Harmless(r)'
<1>1. Request("filters")' = Request("filters")
  BY DEF Request
<1> QED BY <1>1 DEF Harmless

\* A handler goes on to where it relies on little.
LEMMA GoesOnStep ==
  ASSUME IInv, Unread, NEW l \in Pcs, NEW v \in Lists \cup {None}, NEW n \in Nat,
         Continue(l, v, n),
         pc \in {"preflight", "restored", "named"}, phase # "idle",
         \/ op = "update" /\ l \in {"restore", "name", "filters"}
         \/ op = "delete" /\ l = "delete",
         quiet /\ ~failed /\ l = "restore" =>
           v # None /\ v.name \in Names /\ (before # None => before.version < n),
         quiet /\ ~failed /\ l = "filters" =>
           /\ before # None => before.name = Incomplete \/ before.version < n
           /\ ~lagging => Active /\ n = list.version + 1
  PROVE  IInv'
<1>1. /\ pc' = l /\ current' = v /\ least' = n /\ count' = 0 /\ op' = op
      /\ UNCHANGED <<state, marker, tainted, failed>>
      /\ TypeOK' /\ RequestsValid' /\ Portal'
  BY GoesOn
<1>2. UNCHANGED <<list, before, late, config, phase, wrote, lagging, quiet>>
  BY ReadLeaves
<1>3. Standing'
  BY <1>1, <1>2 DEF IInv, Standing
<1>4. InSync'
  <2>1. SUFFICES ASSUME quiet, ~failed PROVE InSync'
    BY <1>1, <1>2 DEF InSync
  <2>2. ASSUME NEW r \in late PROVE Harmless(r)'
    BY <1>1, <1>2, <2>1, StillHarmless DEF IInv, InSync
  <2>3. ~lagging /\ op = "update" => Clean'
    BY <1>2, <2>1 DEF IInv, InSync, Clean
  <2>4. Active' <=> Active
    BY <1>2 DEF Active
  <2>5. Restoring' /\ Filtering'
    BY <1>1, <1>2, <2>1, <2>4 DEF Restoring, Filtering, Outdated
  <2>6. Refreshed'
    BY <1>1, <1>2 DEF Refreshed, IInv, Standing
  <2>7. Created' /\ Awaited' /\ Updated' /\ Untouched' /\ Deleted'
    BY <1>1 DEF Created, Awaited, Updated, Untouched, Deleted
  <2> QED BY <1>1, <1>2, <2>1, <2>2, <2>3, <2>5, <2>6, <2>7 DEF InSync
<1> QED BY <1>1, <1>3, <1>4 DEF IInv

LEMMA ReadStep == IInv /\ Read /\ Unread => IInv'
<1> SUFFICES ASSUME IInv, Read, Unread PROVE IInv'
  OBVIOUS
<1>1. PICK v \in Views : CASE v = None                   -> Forget
                           [] v # None /\ Unreadable(v) -> Fail
                           [] OTHER                      -> Record(v)
  BY DEF Read
<1>2. op = "read" /\ pc = "get" /\ phase = "refresh" /\ (v # None => v \in Lists)
  BY ViewsTyped, Untyped DEF Read, IInv, Standing
<1>3. CASE v = None
  BY <1>1, <1>2, <1>3, ForgetStep
<1>4. CASE v # None /\ Unreadable(v)
  BY <1>1, <1>4, FailedRead
<1>5. CASE v # None /\ ~Unreadable(v)
  <2>1. Record(v)
    BY <1>1, <1>5
  <2>2. quiet /\ ~failed /\ ~lagging => before = None
    BY <1>2 DEF IInv, InSync, Refreshed
  <2>3. before = None => v = list
    BY <1>5, ViewsTyped DEF IInv
  <2> QED BY <1>2, <1>5, <2>1, <2>2, <2>3, RecordStep
<1> QED BY <1>3, <1>4, <1>5

\* After a look at an active list: the next write, or the end.
LEMMA ProceedStep ==
  ASSUME IInv, Unread, NEW v \in Views, v # None, ~Unreadable(v), ~v.deleted, Proceed(v),
         op = "update", pc \in {"preflight", "restored", "named"}, phase = "apply"
  PROVE  IInv'
<1>1. /\ v \in Lists /\ list \in Lists
      /\ v = list \/ (v = before /\ before # None)
      /\ v.version \in Nat /\ list.version \in Nat /\ v.version <= list.version
      /\ before # None => before.version <= list.version /\ before.version \in Nat
      /\ list # None
  BY ViewsTyped DEF IInv, Portal, Lists, TypeOK
<1>2. quiet /\ ~failed /\ ~lagging /\ v.name = config.name => v = list
  <2>1. quiet /\ ~failed /\ ~lagging => Clean
    BY DEF IInv, InSync
  <2>2. config.name # Incomplete
    BY Asked, SegmentAssumption DEF IInv, Standing, TypeOK
  <2> QED BY <1>1, <2>1, <2>2 DEF Clean
<1>3. CASE v.name # config.name
  <2>1. Continue("name", None, 0)
    BY <1>3 DEF Proceed
  <2>2. "name" \in Pcs /\ None \in Lists \cup {None} /\ 0 \in Nat /\ phase # "idle"
    BY DEF Pcs
  <2> QED BY <2>1, <2>2, GoesOnStep
<1>4. CASE v.name = config.name /\ config.type = "dynamic" /\ Groups(v) # config.groups
  <2>1. Continue("filters", None, v.version + 1) /\ v.version + 1 \in Nat
    BY <1>1, <1>4 DEF Proceed
  <2>2. before # None => before.name = Incomplete \/ before.version < v.version + 1
    <3>1. CASE v = list
      BY <1>1, <3>1
    <3>2. CASE v = before
      BY <1>1, <3>2
    <3> QED BY <1>1, <3>1, <3>2
  <2>3. quiet /\ ~failed /\ ~lagging => Active /\ v.version + 1 = list.version + 1
    BY <1>1, <1>2, <1>4 DEF Active
  <2>4. "filters" \in Pcs /\ None \in Lists \cup {None} /\ phase # "idle"
    BY DEF Pcs
  <2> QED BY <2>1, <2>2, <2>3, <2>4, GoesOnStep
<1>5. CASE ~(v.name # config.name) /\ ~(v.name = config.name /\ config.type = "dynamic" /\ Groups(v) # config.groups)
  <2>1. IF Matches(v, config) THEN Record(v) ELSE FailMarked(FALSE)
    BY <1>5 DEF Proceed
  <2>2. CASE ~Matches(v, config)
    BY <2>1, <2>2, ReadLeaves, FailStep
  <2>3. CASE Matches(v, config)
    <3>1. ~wrote
      BY DEF IInv, Standing
    <3>2. quiet /\ ~failed /\ ~lagging => Configured
      BY <1>1, <1>2, <1>5, <2>3 DEF Configured, Active
    <3>3. Record(v) /\ pc \notin {"done", "create"}
      BY <2>1, <2>3
    <3> QED BY <1>1, <3>1, <3>2, <3>3, RecordStep
  <2> QED BY <2>2, <2>3
<1> QED BY <1>3, <1>4, <1>5

LEMMA PreflightStep == IInv /\ Preflight /\ Unread => IInv'
<1> SUFFICES ASSUME IInv, Preflight, Unread PROVE IInv'
  OBVIOUS
<1>1. pc = "preflight" /\ op \in {"update", "delete"} /\ phase = "apply" /\ phase # "idle"
  BY Untyped DEF Preflight, IInv, Standing
<1>2. PICK v \in Views :
       \/ v = None /\ IF op = "delete" THEN Forget ELSE Fail
       \/ Unreadable(v) /\ Fail
       \/ /\ v # None /\ ~Unreadable(v)
          /\ IF op = "delete"
               THEN IF v.deleted THEN Forget ELSE Continue("delete", None, 0)
               ELSE IF v.type # config.type THEN Fail
               ELSE IF v.deleted THEN Continue("restore", v, v.version + 1)
               ELSE Proceed(v)
  BY DEF Preflight
<1>3. CASE Fail
  BY <1>3, FailedRead
<1>4. CASE Forget /\ op = "delete"
  BY <1>1, <1>4, ForgetStep
<1>5. CASE Continue("delete", None, 0) /\ op = "delete"
  <2>1. "delete" \in Pcs /\ None \in Lists \cup {None} /\ 0 \in Nat
    BY DEF Pcs
  <2> QED BY <1>1, <1>5, <2>1, GoesOnStep
<1>6. CASE v # None /\ v.deleted /\ op = "update" /\ Continue("restore", v, v.version + 1)
  <2>1. /\ v = list /\ v \in Lists /\ v.version \in Nat /\ v.name \in Names
        /\ before # None => before.version <= v.version /\ before.version \in Nat
    BY <1>6, ViewsTyped DEF IInv, Portal, Lists, TypeOK
  <2>2. v.version + 1 \in Nat /\ (before # None => before.version < v.version + 1)
    BY <2>1
  <2>3. "restore" \in Pcs /\ v \in Lists \cup {None}
    BY <2>1 DEF Pcs
  <2> QED BY <1>1, <1>6, <2>1, <2>2, <2>3, GoesOnStep
<1>7. CASE v # None /\ ~Unreadable(v) /\ ~v.deleted /\ op = "update" /\ Proceed(v)
  BY <1>1, <1>7, ProceedStep
<1> QED BY <1>1, <1>2, <1>3, <1>4, <1>5, <1>6, <1>7

\* The version that is waited for is that of the list, as configured.
LEMMA AwaitedList ==
  ASSUME IInv, NEW v \in Views, v # None, pc = "await", Ready(v), quiet, ~failed
  PROVE  /\ op = "create" => Configured
         /\ op = "update" => Configured
         /\ op = "update" /\ ~lagging => v = list /\ (\A r \in late : r.kind # "filters")
<1>1. /\ phase # "idle" /\ config # None /\ config \in Configs /\ config.name # Incomplete
      /\ op \in {"create", "update"}
  BY Asked, SegmentAssumption DEF IInv, Standing, TypeOK
<1>2. ~v.deleted /\ v.version >= least /\ Matches(v, config)
  BY DEF Ready
<1>3. /\ v \in Lists /\ list \in Lists /\ list # None /\ v.type = list.type
      /\ v = list \/ (v = before /\ before # None)
      /\ v.version \in Nat /\ list.version \in Nat /\ least \in Nat
  BY ViewsTyped, Untyped DEF IInv, Lists
<1>4. v = list => Configured
  BY <1>2, <1>3 DEF Configured, Active
<1>5. CASE op = "create"
  <2>1. before = None
    BY <1>1, <1>5 DEF IInv, InSync, Created
  <2> QED BY <1>3, <1>4, <1>5, <2>1
<1>6. CASE op = "update"
  <2>1. /\ Outdated \/ Overtaken
        /\ ~lagging => \A r \in late : r.kind = "filters" => list.version < least
    BY <1>1, <1>6 DEF IInv, InSync, Awaited
  <2>2. v = list \/ Overtaken
    BY <1>1, <1>2, <1>3, <2>1 DEF Outdated, Matches
  <2>3. Overtaken /\ v # list => Configured
    <3>1. SUFFICES ASSUME Overtaken, v # list PROVE Configured
      OBVIOUS
    <3>2. /\ Active /\ list.branches = Sent[config] /\ list.name = config.name
          /\ list.type = config.type
      BY <1>2, <1>3, <3>1 DEF Overtaken, Matches
    <3> QED BY <1>1, <3>2, SentGroups DEF Configured, Matches
  <2>4. ~lagging => v = list
    BY <2>2 DEF Overtaken
  <2>5. ~lagging => \A r \in late : r.kind # "filters"
    BY <1>2, <1>3, <2>1, <2>4
  <2> QED BY <1>4, <1>6, <2>2, <2>3, <2>4, <2>5
<1> QED BY <1>1, <1>5, <1>6

LEMMA AwaitStep == IInv /\ Await /\ Unread => IInv'
<1> SUFFICES ASSUME IInv, Await, Unread PROVE IInv'
  OBVIOUS
<1>1. /\ pc \in {"await", "restored", "tombstone"} /\ phase = "apply" /\ phase # "idle"
      /\ pc = "await" => op \in {"create", "update"}
      /\ pc = "restored" => op = "update"
      /\ pc = "tombstone" => op = "delete"
  BY Untyped DEF Await, IInv, Standing
<1>2. PICK v \in Views :
       \/ v = None /\ IF pc = "tombstone" THEN Forget ELSE PollAgain \/ Fail
       \/ Unreadable(v) /\ Fail
       \/ /\ v # None /\ ~Unreadable(v)
          /\ LET done == pc = "tombstone" \/ v.status = "COMPLETE"
             IN  IF Ready(v) /\ done THEN Seen(v)
                 ELSE IF v.status = "FAILED" THEN Fail
                 ELSE PollAgain \/ Fail
  BY DEF Await
<1>3. CASE Fail
  BY <1>3, FailedRead
<1>4. CASE PollAgain
  BY <1>4, AgainStep
<1>5. CASE pc = "tombstone" /\ Forget
  BY <1>1, <1>5, ForgetStep
<1>6. CASE /\ v # None /\ ~Unreadable(v) /\ Ready(v) /\ Seen(v) /\ pc # "tombstone"
           /\ v.status = "COMPLETE"
  <2>1. CASE pc = "restored"
    <3>1. Proceed(v) /\ ~v.deleted
      BY <1>6, <2>1 DEF Seen, Ready
    <3> QED BY <1>1, <1>6, <2>1, <3>1, ProceedStep
  <2>2. CASE pc = "await"
    <3>1. Record(v) /\ v \in Lists /\ pc \notin {"done", "create"} /\ op # "read"
      BY <1>1, <1>6, <2>2, ViewsTyped DEF Seen, IInv
    <3>2. quiet /\ ~failed /\ op = "create" => Configured
      BY <1>6, <2>2, AwaitedList
    <3>3. quiet /\ ~failed /\ op = "update" => Configured
      BY <1>6, <2>2, AwaitedList
    <3>4. quiet /\ ~failed /\ op = "update" /\ ~lagging =>
            list.status = "COMPLETE" /\ \A r \in late : r.kind # "filters"
      BY <1>6, <2>2, AwaitedList
    <3> QED BY <1>1, <1>6, <2>2, <3>1, <3>2, <3>3, <3>4, RecordStep
  <2> QED BY <1>1, <1>6, <2>1, <2>2
<1> QED
  <2>1. CASE v # None /\ ~Unreadable(v) /\ Ready(v) /\ pc = "tombstone"
    BY <1>2, <1>3, <1>5, <2>1 DEF Seen
  <2> QED BY <1>1, <1>2, <1>3, <1>4, <1>5, <1>6, <2>1

LEMMA CheckNameStep == IInv /\ CheckName /\ Unread => IInv'
<1> SUFFICES ASSUME IInv, CheckName, Unread PROVE IInv'
  OBVIOUS
<1>1. pc = "named" /\ op = "update" /\ phase = "apply"
  BY Untyped DEF CheckName, IInv, Standing
<1>2. PICK v \in Views :
        \/ Fail
        \/ v # None /\ ~Unreadable(v) /\ ~v.deleted /\ Proceed(v)
  BY DEF CheckName
<1> QED BY <1>1, <1>2, FailedRead, ProceedStep

LEMMA ReadFailsStep == IInv /\ ReadFails => IInv'
<1> SUFFICES ASSUME IInv, ReadFails PROVE IInv'
  OBVIOUS
<1>1. Fail /\ UNCHANGED <<portal, config, phase, wrote, lagging, quiet>>
  BY DEF ReadFails, frame
<1>2. trouble' \in 0..MaxTrouble
  BY SegmentAssumption, Untyped DEF ReadFails, Disturb, IInv
<1>3. Service' /\ wrote' \in BOOLEAN /\ (wrote' => op = "update")
  BY <1>1, Serviced, Untyped DEF IInv, Standing
<1> QED BY <1>1, <1>2, <1>3, PlainFail

----------------------------------------------------------------------------
(* The writes.                                                             *)

\* The request of a handler that is about to write.
LEMMA RequestMade ==
  ASSUME IInv, pc \in DOMAIN After \cup {"create"}, NEW r, r = Request(pc)
  PROVE  /\ r \in Requests /\ ValidRequest(r) /\ r.kind = pc
         /\ pc # "delete" => /\ config # None /\ config \in Configs /\ r.name = config.name
                             /\ r.type \in Types /\ r.branches \in AllTrees
                             /\ r.branches = Sent[config]
<1>1. pc \in {"restore", "name", "filters", "delete", "create"}
  BY Stops
<1>2. pc # "delete" => config # None
  BY <1>1 DEF IInv, Standing
<1>3. config \in Configs
  BY Untyped DEF IInv
<1>4. CASE config = None
  <2>1. r = [kind |-> pc, name |-> None, type |-> None, branches |-> <<>>] /\ pc = "delete"
    BY <1>2, <1>4 DEF Request
  <2>2. PICK e \in AllTrees \cup {<<>>} : e = <<>>
    OBVIOUS
  <2>3. r = [kind |-> pc, name |-> None, type |-> None, branches |-> e]
    BY <2>1, <2>2
  <2>4. r \in Requests
    BY <2>2, <2>3 DEF Requests
  <2> QED BY <2>1, <2>4 DEF ValidRequest
<1>5. CASE config # None
  <2>1. r = [kind |-> pc, name |-> config.name, type |-> config.type, branches |-> Sent[config]]
    BY <1>5 DEF Request
  <2>2. config.name \in Names /\ config.type \in Types /\ Sent[config] \in AllTrees
    BY <1>3, <1>5, Asked
  <2>3. r \in Requests
    BY <2>1, <2>2 DEF Requests
  <2> QED BY <1>1, <1>3, <1>5, <2>1, <2>2, <2>3 DEF ValidRequest
<1> QED BY <1>4, <1>5

\* What HubSpot and the network may do with a request.
LEMMA Received ==
  ASSUME IInv, NEW r \in Requests, ValidRequest(r),
         r.kind = "create" => r.type \in Types /\ r.branches \in AllTrees,
         \/ TakeEffect(r) /\ late' = late
         \/ r.kind = "create" /\ TakeName(r) /\ late' = late
         \/ late' \in {late, late \cup {r}} /\ UNCHANGED service
  PROVE  Service'
<1>1. Service
  BY Serviced
<1>2. CASE TakeEffect(r) /\ late' = late
  <2>1. /\ list' \in Lists /\ before' \in Lists \cup {None} /\ taken' \subseteq Names /\ Portal'
    BY <1>2, Effect DEF IInv
  <2>2. RequestsValid'
    BY <1>1, <1>2 DEF Service, RequestsValid, ValidRequest
  <2> QED BY <1>1, <1>2, <2>1, <2>2 DEF Service
<1>3. CASE r.kind = "create" /\ TakeName(r) /\ late' = late
  <2>1. /\ list' = list /\ before' = before /\ taken' = taken \cup {r.name} /\ r.name \in Names
    BY <1>3 DEF TakeName, ValidRequest
  <2> QED BY <1>1, <1>3, <2>1 DEF Service, RequestsValid, ValidRequest, Portal
<1>4. CASE late' \in {late, late \cup {r}} /\ UNCHANGED service
  <2>1. RequestsValid'
    BY <1>1, <1>4 DEF Service, RequestsValid, ValidRequest
  <2> QED BY <1>1, <1>4, <2>1 DEF Service, service, Portal
<1> QED BY <1>2, <1>3, <1>4

\* A change has been sent: answered or not, done or not.
SentOut ==
  /\ pc \in DOMAIN After
  /\ \/ TakeEffect(Request(pc)) /\ late' = late
     \/ late' \in {late, late \cup {Request(pc)}} /\ UNCHANGED service
  /\ Written(pc)
  /\ wrote' = (wrote \/ pc = "filters")
  /\ UNCHANGED <<config, phase, lagging, quiet>>

LEMMA SentStep ==
  ASSUME IInv, SentOut, trouble' \in 0..MaxTrouble
  PROVE  IInv'
<1>1. PICK r : r = Request(pc)
  OBVIOUS
<1>2. /\ pc \in {"restore", "name", "filters", "delete"} /\ phase = "apply"
      /\ op \in {"update", "delete"} /\ (op = "update" <=> pc # "delete")
  BY Stops, Untyped DEF SentOut, IInv, Standing
<1>3. /\ r \in Requests /\ ValidRequest(r) /\ r.kind = pc
      /\ pc # "delete" => /\ config # None /\ r.name = config.name
                          /\ r.branches = Sent[config]
  BY <1>1, RequestMade DEF SentOut
<1>4. \/ TakeEffect(r) /\ late' = late
      \/ late' \in {late, late \cup {r}} /\ UNCHANGED service
  BY <1>1 DEF SentOut
<1>5. Service'
  BY <1>2, <1>3, <1>4, Received
<1>6. /\ pc' = After[pc] /\ count' = 0 /\ op' = op
      /\ UNCHANGED <<current, least, state, marker, tainted, failed, config, phase, lagging, quiet>>
  BY DEF SentOut, Written, Goto, files
<1>7. wrote' \in BOOLEAN /\ (wrote' <=> (wrote \/ pc = "filters"))
  <2>1. wrote' = (wrote \/ pc = "filters")
    BY DEF SentOut
  <2> QED BY <2>1, Zenon
<1>8. ~wrote
  BY <1>2 DEF IInv, Standing
<1>9. pc' \in {"restored", "named", "await", "tombstone"}
  BY <1>2, <1>6, Stops
<1>10. TypeOK'
  <2>1. count' \in 0..(Polls - 1) /\ pc' \in Pcs
    BY <1>6, <1>9, SegmentAssumption DEF Pcs
  <2> QED BY <1>5, <1>6, <1>7, <2>1, Untyped, Typed DEF IInv
<1>11. Standing'
  BY <1>2, <1>6, <1>7, <1>8, Stops DEF IInv, Standing
<1>12. InSync'
  <2>1. SUFFICES ASSUME quiet, ~failed PROVE InSync'
    BY <1>6 DEF InSync
  <2>2. InSync /\ phase # "idle"
    BY <1>2 DEF IInv
  <2>3. ASSUME NEW q \in late PROVE Harmless(q)'
    BY <1>2, <1>6, <1>8, <2>1, <2>2, StillHarmless DEF InSync
  <2>4. r.kind = "filters" => r = Request("filters")'
    BY <1>1, <1>3, <1>6 DEF Request
  <2>5. Harmless(r)'
    BY <1>2, <1>3, <1>6, <1>7, <2>4 DEF Harmless
  <2>6. \A q \in late' : Harmless(q)'
    BY <1>4, <2>3, <2>5
  <2>7. TakeEffect(r) => Took(r)
    BY <1>2, <1>3, Effect DEF IInv
  <2>8. UNCHANGED service => UNCHANGED <<list, before>>
    BY DEF service
  <2>9. ~lagging /\ op = "update" /\ pc # "filters" => Clean'
    BY <1>2, <1>3, <1>4, <2>1, <2>2, <2>7, <2>8 DEF InSync, Clean, Took
  <2>10. Restoring'
    <3>1. SUFFICES ASSUME pc = "restore" PROVE Restoring'
      BY <1>2, <1>6, Stops DEF Restoring
    <3>2. current # None /\ current.name \in Names /\ Outdated
      BY <2>1, <2>2, <3>1 DEF InSync, Restoring
    <3> QED BY <1>3, <1>4, <1>6, <2>7, <2>8, <3>1, <3>2 DEF Restoring, Outdated, Took
  <2>11. Awaited'
    <3>1. SUFFICES ASSUME pc = "filters" PROVE Awaited'
      BY <1>2, <1>6, Stops DEF Awaited
    <3>2. Outdated /\ (~lagging => Active /\ least = list.version + 1)
      BY <2>1, <2>2, <3>1 DEF InSync, Filtering
    <3>3. \A q \in late : q.kind # "filters"
      BY <1>8, <2>1, <2>2 DEF InSync, Harmless
    <3>4. list # None => list.version \in Nat
      BY DEF IInv, TypeOK, Lists
    <3>5. CASE TakeEffect(r) /\ late' = late
      <4>1. /\ Active /\ list # None /\ ~list'.deleted /\ list'.name = list.name
            /\ list'.branches = Sent[config] /\ before' \in {None, list}
        BY <1>3, <2>7, <3>1, <3>5 DEF Took, Active
      <4>2. list' # None
        BY <1>2, <1>3, <3>5, Effect DEF IInv
      <4>3. ~lagging => Outdated'
        BY <1>6, <3>2, <3>4, <4>1 DEF Outdated
      <4>4. lagging => Overtaken'
        BY <1>6, <4>1, <4>2 DEF Overtaken, Active
      <4>5. Active'
        BY <4>1, <4>2 DEF Active
      <4> QED BY <3>3, <3>5, <4>3, <4>4, <4>5 DEF Awaited
    <3>6. CASE late' \in {late, late \cup {r}} /\ UNCHANGED service
      <4>1. Outdated' /\ (Active' <=> Active)
        BY <1>6, <2>8, <3>2, <3>6 DEF Outdated, Active
      <4>2. ~lagging => list'.version < least'
        BY <1>6, <2>8, <3>2, <3>4, <3>6 DEF Active
      <4> QED BY <1>6, <3>2, <4>1, <4>2 DEF Awaited
    <3> QED BY <1>4, <3>5, <3>6
  <2>12. Refreshed' /\ Created' /\ Filtering' /\ Updated' /\ Untouched' /\ Deleted'
    BY <1>2, <1>6, <1>9 DEF Refreshed, Created, Filtering, Updated, Untouched, Deleted
  <2> QED BY <1>2, <1>6, <1>9, <2>6, <2>9, <2>10, <2>11, <2>12, Stops DEF InSync
<1> QED BY <1>5, <1>10, <1>11, <1>12 DEF IInv, Service

LEMMA WriteStep == IInv /\ Write => IInv'
<1> SUFFICES ASSUME IInv, Write PROVE IInv'
  OBVIOUS
<1>1. /\ pc \in DOMAIN After /\ wrote' = (wrote \/ pc = "filters")
      /\ UNCHANGED <<late, config, phase, lagging, quiet, trouble>>
      /\ \/ TakeEffect(Request(pc)) /\ Written(pc)
         \/ /\ ~Accepts(Request(pc)) /\ UNCHANGED service
            /\ IF pc = "delete" THEN Forget ELSE Fail
  BY DEF Write
<1>2. trouble' \in 0..MaxTrouble
  BY <1>1, Untyped DEF IInv
<1>3. CASE TakeEffect(Request(pc)) /\ Written(pc)
  <2>1. SentOut
    BY <1>1, <1>3 DEF SentOut
  <2> QED BY <1>2, <2>1, SentStep
<1>4. CASE UNCHANGED service /\ pc = "delete" /\ Forget
  <2>1. ~wrote /\ op = "delete"
    BY <1>4 DEF IInv, Standing
  <2>2. wrote \in BOOLEAN
    BY Untyped DEF IInv
  <2>3. wrote' = wrote
    BY <1>1, <1>4, <2>1, <2>2
  <2>4. Unread
    BY <1>1, <1>4, <2>3 DEF Unread, portal, service, frame
  <2> QED BY <1>4, <2>1, <2>4, ForgetStep
<1>5. CASE UNCHANGED service /\ pc # "delete" /\ Fail
  <2>1. UNCHANGED portal
    BY <1>1, <1>5 DEF portal, service
  <2>2. Service'
    BY <2>1, Serviced
  <2>3. wrote' \in BOOLEAN
    BY <1>1, Zenon
  <2>4. wrote' => op = "update"
    BY <1>1 DEF IInv, Standing
  <2> QED BY <1>1, <1>2, <1>5, <2>2, <2>3, <2>4, PlainFail
<1> QED BY <1>1, <1>3, <1>4, <1>5

LEMMA WriteFailsStep == IInv /\ WriteFails => IInv'
<1> SUFFICES ASSUME IInv, WriteFails PROVE IInv'
  OBVIOUS
<1>1. /\ pc \in DOMAIN After /\ wrote' = (wrote \/ pc = "filters")
      /\ UNCHANGED <<config, phase, lagging, quiet>>
      /\ \/ TakeEffect(Request(pc)) /\ UNCHANGED late /\ Written(pc)
         \/ late' = late \cup {Request(pc)} /\ UNCHANGED service /\ Written(pc)
         \/ UNCHANGED portal /\ (Written(pc) \/ Fail)
  BY DEF WriteFails
<1>2. trouble' \in 0..MaxTrouble
  BY SegmentAssumption, Untyped DEF WriteFails, Disturb, IInv
<1>3. UNCHANGED portal => UNCHANGED late /\ UNCHANGED service
  BY DEF portal, service
<1>4. CASE Written(pc)
  <2>1. SentOut
    <3>1. \/ TakeEffect(Request(pc)) /\ late' = late
          \/ late' \in {late, late \cup {Request(pc)}} /\ UNCHANGED service
          \/ UNCHANGED portal
      BY <1>1
    <3>2. \/ TakeEffect(Request(pc)) /\ late' = late
          \/ late' \in {late, late \cup {Request(pc)}} /\ UNCHANGED service
      BY <1>3, <3>1
    <3> QED BY <1>1, <1>4, <3>2 DEF SentOut
  <2> QED BY <1>2, <2>1, SentStep
<1>5. CASE UNCHANGED portal /\ Fail
  <2>1. Service'
    BY <1>5, Serviced
  <2>2. wrote' \in BOOLEAN
    BY <1>1, Zenon
  <2>3. wrote' => op = "update"
    BY <1>1, Stops DEF IInv, Standing
  <2> QED BY <1>1, <1>2, <1>5, <2>1, <2>2, <2>3, PlainFail
<1> QED BY <1>1, <1>4, <1>5

LEMMA CreateUnknownStep == IInv /\ CreateUnknown => IInv'
<1> SUFFICES ASSUME IInv, CreateUnknown PROVE IInv'
  OBVIOUS
<1>1. PICK r : r = Request("create")
  OBVIOUS
<1>2. /\ pc = "create" /\ op = "create" /\ Fail
      /\ UNCHANGED <<config, phase, wrote, lagging, quiet>>
      /\ \/ TakeName(r) /\ UNCHANGED late
         \/ UNCHANGED portal
         \/ late' = late \cup {r} /\ UNCHANGED service
  BY <1>1 DEF CreateUnknown, frame
<1>3. trouble' \in 0..MaxTrouble
  BY SegmentAssumption, Untyped DEF CreateUnknown, Disturb, IInv
<1>4. r \in Requests /\ ValidRequest(r) /\ r.kind = "create" /\ r.type \in Types /\ r.branches \in AllTrees
  BY <1>1, <1>2, RequestMade
<1>5. UNCHANGED portal => UNCHANGED late /\ UNCHANGED service
  BY DEF portal, service
<1>6. \/ r.kind = "create" /\ TakeName(r) /\ late' = late
      \/ late' \in {late, late \cup {r}} /\ UNCHANGED service
  BY <1>2, <1>4, <1>5
<1>7. Service'
  BY <1>4, <1>6, Received
<1>8. wrote' \in BOOLEAN /\ (wrote' => op = "update")
  BY <1>2, Untyped DEF IInv, Standing
<1> QED BY <1>2, <1>3, <1>7, <1>8, PlainFail

\* A create that is answered: the list is new, and nothing else is under way.
LEMMA CreateStep == IInv /\ Create => IInv'
<1> SUFFICES ASSUME IInv, Create PROVE IInv'
  OBVIOUS
<1>1. PICK r : r = Request("create")
  OBVIOUS
<1>2. PICK back : back = {[q EXCEPT !.kind = "create", !.name = list.name] :
                            q \in {x \in late : x.kind = "restore" /\ list # None}}
  OBVIOUS
<1>3. /\ op = "create" /\ pc = "create"
      /\ UNCHANGED <<config, phase, wrote, lagging, quiet, trouble>>
      /\ \/ /\ TakeEffect(r)
            /\ late' = {q \in late : q.kind = "create"} \cup back
            /\ state' = config /\ tainted' = TRUE
            /\ Goto("await")
            /\ current' = None /\ least' = 1
            /\ UNCHANGED <<marker, failed>>
         \/ Fail /\ UNCHANGED portal
  BY <1>1, <1>2 DEF Create, frame
<1>4. trouble' \in 0..MaxTrouble /\ wrote' \in BOOLEAN /\ ~wrote' /\ ~wrote
  BY <1>3, Untyped DEF IInv, Standing
<1>5. CASE Fail /\ UNCHANGED portal
  BY <1>3, <1>4, <1>5, Serviced, PlainFail
<1>6. CASE /\ TakeEffect(r)
           /\ late' = {q \in late : q.kind = "create"} \cup back
           /\ state' = config /\ tainted' = TRUE
           /\ Goto("await")
           /\ current' = None /\ least' = 1
           /\ UNCHANGED <<marker, failed>>
  <2>1. /\ ValidRequest(r) /\ r.kind = "create" /\ r.type \in Types /\ r.branches \in AllTrees
        /\ config # None /\ config \in Configs
    BY <1>1, <1>3, RequestMade
  <2>2. /\ list' \in Lists /\ before' \in Lists \cup {None} /\ taken' \subseteq Names /\ Portal'
        /\ before' = None
    BY <1>6, <2>1, Effect DEF IInv, Took
  <2>3. late \subseteq Requests /\ (list # None => list.name \in Names)
    BY DEF IInv, TypeOK, Portal
  <2>4. \A q \in back : q \in Requests /\ ValidRequest(q)
    <3>1. SUFFICES ASSUME NEW q \in back PROVE q \in Requests /\ ValidRequest(q)
      OBVIOUS
    <3>2. PICK x \in late : list # None /\ q = [x EXCEPT !.kind = "create", !.name = list.name]
      BY <1>2
    <3>3. x \in Requests /\ list.name \in Names
      BY <2>3, <3>2
    <3>4. q \in Requests
      BY <3>2, <3>3 DEF Requests
    <3>5. q.kind = "create" /\ q.name = list.name
      BY <3>2, <3>3 DEF Requests
    <3> QED BY <3>3, <3>4, <3>5 DEF ValidRequest
  <2>5. late' \subseteq Requests /\ RequestsValid'
    <3>1. \A q \in late' : q \in Requests /\ ValidRequest(q)
      BY <1>6, <2>3, <2>4 DEF IInv, RequestsValid
    <3> QED BY <3>1 DEF RequestsValid, ValidRequest
  <2>6. Service'
    BY <2>2, <2>5 DEF Service
  <2>7. /\ pc' = "await" /\ count' = 0 /\ op' = "create" /\ current' = None /\ least' = 1
        /\ state' = config /\ tainted' = TRUE /\ marker' = marker /\ failed' = failed
    BY <1>3, <1>6 DEF Goto
  <2>8. TypeOK'
    <3>1. count' \in 0..(Polls - 1) /\ least' \in Nat /\ pc' \in Pcs
      BY <2>7, SegmentAssumption DEF Pcs
    <3>2. state' \in Stored /\ state' # None
      BY <2>1, <2>7, Asked
    <3> QED BY <1>3, <1>4, <2>6, <2>7, <3>1, <3>2, Untyped, Typed DEF IInv
  <2>9. Standing'
    BY <1>3, <1>4, <2>1, <2>7 DEF IInv, Standing
  <2>10. InSync'
    <3>1. SUFFICES ASSUME phase # "idle", quiet, ~failed PROVE InSync'
      BY <1>3, <2>7 DEF InSync
    <3>2. \A q \in late : q.kind = "delete"
      BY <1>3, <1>4, <3>1 DEF IInv, InSync, Harmless
    <3>3. late' = {}
      BY <1>2, <1>6, <3>2
    <3>4. phase = "apply"
      BY <1>3, <3>1, Untyped DEF IInv, Standing
    <3> QED BY <1>3, <2>2, <2>7, <3>3, <3>4 DEF InSync, Refreshed, Created, Restoring,
            Filtering, Awaited, Updated, Untouched, Deleted
  <2> QED BY <2>6, <2>8, <2>9, <2>10 DEF IInv, Service
<1> QED BY <1>3, <1>5, <1>6

----------------------------------------------------------------------------
(* Terraform.                                                              *)

LEMMA Numbered ==
  ASSUME NEW v \in Lists, NEW n \in Nat \ {0}, NEW x, x = [v EXCEPT !.version = n]
  PROVE  /\ x \in Lists /\ x # None /\ x.name = v.name /\ x.type = v.type /\ x.deleted = v.deleted
         /\ x.version = n
  BY SegmentAssumption DEF Lists

\* Counting the versions anew keeps their order.
LEMMA Anew ==
  ASSUME Service, CountAnew
  PROVE  /\ {list', before'} \subseteq Lists \cup {None} /\ Portal'
         /\ before' = None <=> before = None
<1>1. CASE list = None
  <2>1. before = None
    BY <1>1 DEF Service, Portal
  <2> QED BY <1>1, <2>1 DEF CountAnew, Renumbered, Portal
<1>2. CASE list # None
  <2>1. list' = [list EXCEPT !.version = 2]
    BY <1>2 DEF CountAnew, Renumbered
  <2>2. list \in Lists /\ list.name \in Names /\ 2 \in Nat \ {0} /\ 1 \in Nat \ {0}
    BY <1>2 DEF Service, Portal
  <2>3. /\ list' \in Lists /\ list' # None /\ list'.name = list.name /\ list'.type = list.type
        /\ list'.version = 2
    BY <2>1, <2>2, Numbered
  <2>4. CASE before = None
    BY <2>2, <2>3, <2>4 DEF CountAnew, Renumbered, Portal
  <2>5. CASE before # None
    <3>1. PICK n \in {1, 2} : before' = [before EXCEPT !.version = n]
      BY <2>5 DEF CountAnew, Renumbered
    <3>2. before \in Lists /\ ~before.deleted /\ before.type = list.type /\ n \in Nat \ {0}
      BY <2>5 DEF Service, Portal
    <3>3. /\ before' \in Lists /\ before' # None /\ before'.type = before.type
          /\ before'.deleted = before.deleted /\ before'.version = n
      BY <3>1, <3>2, Numbered
    <3> QED BY <2>2, <2>3, <2>5, <3>2, <3>3 DEF Portal
  <2> QED BY <2>4, <2>5
<1> QED BY <1>1, <1>2

LEMMA StartRunStep == IInv /\ StartRun => IInv'
<1> SUFFICES ASSUME IInv, StartRun PROVE IInv'
  OBVIOUS
<1>1. /\ phase' = "refresh" /\ config' \in Configs /\ CountAnew /\ op = "none"
      /\ op' \in {"none", "read"} /\ (op' = "none" => pc' = "done") /\ (op' = "read" => pc' = "get")
      /\ (pc' = "done" => state = None)
      /\ current' = None /\ least' = 0 /\ count' = 0
      /\ quiet' = (late = {}) /\ lagging' = (before # None)
      /\ UNCHANGED <<taken, late, state, marker, tainted, failed, wrote, trouble>>
  BY DEF StartRun, Begin, files, IInv, Standing
<1>2. ~wrote /\ ~wrote'
  BY <1>1 DEF IInv, Standing
<1>3. Service
  BY Serviced
<1>4. /\ {list', before'} \subseteq Lists \cup {None} /\ Portal'
      /\ before' = None <=> before = None
  BY <1>1, <1>3, Anew
<1>5. Service'
  BY <1>1, <1>3, <1>4 DEF Service, RequestsValid, ValidRequest
<1>6. quiet' \in BOOLEAN /\ lagging' \in BOOLEAN
  <2>1. quiet' = (late = {}) /\ lagging' = (before # None)
    BY <1>1
  <2> QED BY <2>1, Zenon
<1>7. TypeOK'
  <2>1. count' \in 0..(Polls - 1) /\ least' \in Nat /\ pc' \in Pcs
    BY <1>1, SegmentAssumption DEF Pcs
  <2> QED BY <1>1, <1>5, <1>6, <2>1, Untyped, Typed DEF IInv
<1>8. Standing'
  BY <1>1, <1>2 DEF Standing
<1>9. InSync'
  <2>1. quiet' => late' = {}
    BY <1>1
  <2>2. ~lagging' => before' = None
    BY <1>1, <1>4
  <2> QED BY <1>1, <2>1, <2>2 DEF InSync, Refreshed, Created, Restoring, Filtering, Awaited,
          Updated, Untouched, Deleted
<1> QED BY <1>5, <1>7, <1>8, <1>9 DEF IInv, Service

\* What is planned follows from a state that says what the list is.
LEMMA PlanStep == IInv /\ Plan => IInv'
<1> SUFFICES ASSUME IInv, Plan PROVE IInv'
  OBVIOUS
<1>1. /\ phase = "refresh" /\ pc = "done" /\ ~failed /\ phase' = "apply"
      /\ UNCHANGED <<portal, config, state, marker, tainted, failed, wrote, quiet, lagging, trouble>>
  BY DEF Plan, files
<1>2. /\ current' = None /\ least' = 0 /\ count' = 0
      /\ \/ op' = "create" /\ pc' = "create" /\ config # None
         \/ op' = "delete" /\ pc' = "preflight"
         \/ op' = "update" /\ pc' = "preflight" /\ config # None
         \/ /\ op' = "none" /\ pc' = "done"
            /\ \/ state = None /\ config = None
               \/ state # None /\ config # None /\ ~Differs
  BY DEF Plan, Begin
<1>3. UNCHANGED <<list, before, late>>
  BY <1>1 DEF portal
<1>4. Service'
  BY <1>1, Serviced
<1>5. ~wrote /\ ~wrote'
  BY <1>1 DEF IInv, Standing
<1>6. TypeOK'
  <2>1. count' \in 0..(Polls - 1) /\ least' \in Nat /\ pc' \in Pcs
    BY <1>2, SegmentAssumption DEF Pcs
  <2> QED BY <1>1, <1>2, <1>4, <2>1, Untyped, Typed DEF IInv
<1>7. Standing'
  BY <1>1, <1>2, <1>5 DEF Standing
<1>8. InSync'
  <2>1. SUFFICES ASSUME quiet PROVE InSync'
    BY <1>1 DEF InSync
  <2>2. /\ late = {} /\ (~lagging => before = None)
        /\ ~lagging /\ state # None => list # None /\ state = Model(list) /\ marker = list.deleted
    BY <1>1, <2>1 DEF IInv, InSync, Refreshed
  <2>3. Untouched'
    <3>1. SUFFICES ASSUME op' = "none", ~lagging PROVE AsConfigured'
      BY <1>1 DEF Untouched
    <3>2. CASE state = None /\ config = None
      BY <1>1, <3>2 DEF AsConfigured
    <3>3. CASE state # None /\ config # None /\ ~Differs
      <4>1. list # None /\ ~list.deleted /\ Model(list) = config
        BY <2>2, <3>1, <3>3 DEF Differs
      <4>2. Active /\ Matches(list, config)
        BY <4>1 DEF Active, Matches, Model
      <4>3. AsConfigured
        BY <3>3, <4>2 DEF AsConfigured
      <4> QED BY <1>1, <1>3, <4>3, Unmoved
    <3> QED BY <1>2, <3>1, <3>2, <3>3
  <2> QED BY <1>1, <1>2, <1>3, <2>2, <2>3 DEF InSync, Clean, Refreshed, Created, Restoring,
          Filtering, Awaited, Updated, Deleted
<1> QED BY <1>4, <1>6, <1>7, <1>8 DEF IInv, Service

\* What a delete leaves under way does not disturb the create after it.
LEMMA ReplaceStep == IInv /\ Replace => IInv'
<1> SUFFICES ASSUME IInv, Replace PROVE IInv'
  OBVIOUS
<1>1. /\ phase = "apply" /\ op = "delete" /\ config # None
      /\ op' = "create" /\ pc' = "create" /\ current' = None /\ least' = 0 /\ count' = 0
      /\ UNCHANGED <<portal, config, phase, wrote, lagging, state, marker, tainted, failed, quiet,
                     trouble>>
  BY DEF Replace, Replacing, Begin, frame, files
<1>2. UNCHANGED late /\ Service'
  BY <1>1, Serviced DEF portal
<1>3. ~wrote /\ ~wrote'
  BY <1>1 DEF IInv, Standing
<1>4. TypeOK'
  <2>1. count' \in 0..(Polls - 1) /\ least' \in Nat /\ pc' \in Pcs
    BY <1>1, SegmentAssumption DEF Pcs
  <2> QED BY <1>1, <1>2, <2>1, Untyped, Typed DEF IInv
<1>5. Standing'
  BY <1>1, <1>3 DEF Standing
<1>6. InSync'
  <2>1. quiet /\ ~failed => \A r \in late : r.kind = "delete"
    BY <1>1, <1>3 DEF IInv, InSync, Harmless
  <2>2. quiet /\ ~failed => \A r \in late : Harmless(r)'
    BY <1>1, <2>1 DEF Harmless
  <2> QED BY <1>1, <1>2, <2>2 DEF InSync, Refreshed, Created, Restoring, Filtering, Awaited,
          Updated, Untouched, Deleted
<1> QED BY <1>2, <1>4, <1>5, <1>6 DEF IInv, Service

LEMMA StopStep ==
  ASSUME IInv, Stop, late' \subseteq Requests, RequestsValid', trouble' \in 0..MaxTrouble
  PROVE  IInv'
<1>1. /\ phase' = "idle" /\ op' = "none" /\ pc' = "done" /\ current' = None /\ least' = 0
      /\ count' = 0 /\ CountAnew
      /\ failed' = FALSE /\ wrote' = FALSE /\ quiet' = TRUE /\ lagging' = FALSE
      /\ UNCHANGED <<taken, config, state, marker, tainted>>
  BY DEF Stop, Begin, files
<1>2. Service'
  BY <1>1, Serviced, Anew DEF Service
<1>3. TypeOK'
  <2>1. count' \in 0..(Polls - 1) /\ least' \in Nat /\ pc' \in Pcs
    BY <1>1, SegmentAssumption DEF Pcs
  <2> QED BY <1>1, <1>2, <2>1, Untyped, Typed DEF IInv
<1>4. Standing' /\ InSync'
  BY <1>1 DEF Standing, InSync
<1> QED BY <1>2, <1>3, <1>4 DEF IInv, Service

LEMMA EndRunStep == IInv /\ EndRun => IInv'
<1> SUFFICES ASSUME IInv, EndRun PROVE IInv'
  OBVIOUS
<1>1. Stop /\ UNCHANGED <<late, trouble>>
  BY DEF EndRun
<1>2. late' \subseteq Requests /\ RequestsValid' /\ trouble' \in 0..MaxTrouble
  BY <1>1, Untyped DEF IInv, TypeOK, RequestsValid, ValidRequest
<1> QED BY <1>1, <1>2, StopStep

LEMMA CrashStep == IInv /\ Crash => IInv'
<1> SUFFICES ASSUME IInv, Crash PROVE IInv'
  OBVIOUS
<1>1. trouble' \in 0..MaxTrouble
  BY SegmentAssumption, Untyped DEF Crash, Disturb, IInv
<1>2. late \subseteq Requests /\ RequestsValid
  BY DEF IInv, TypeOK
<1>3. CASE late' = late
  BY <1>1, <1>2, <1>3, StopStep DEF Crash, RequestsValid, ValidRequest
<1>4. CASE pc \in DOMAIN After \cup {"create"} /\ late' = late \cup {Request(pc)}
  <2>1. PICK r : r = Request(pc)
    OBVIOUS
  <2>2. r \in Requests /\ ValidRequest(r)
    BY <1>4, <2>1, RequestMade
  <2>3. late' \subseteq Requests /\ RequestsValid'
    BY <1>2, <1>4, <2>1, <2>2 DEF RequestsValid, ValidRequest
  <2> QED BY <1>1, <2>3, StopStep DEF Crash
<1> QED BY <1>3, <1>4 DEF Crash

\* What is imported is a list that can be read; nothing is claimed of a run.
LEMMA ImportStep == IInv /\ Import => IInv'
<1> SUFFICES ASSUME IInv, Import PROVE IInv'
  OBVIOUS
<1>1. /\ phase = "idle" /\ state = None
      /\ UNCHANGED <<config, phase, op, pc, current, least, count, tainted, failed, wrote, quiet,
                     lagging, trouble>>
  BY DEF Import, handler
<1>2. Service
  BY Serviced
<1>3. Standing' /\ InSync'
  BY <1>1 DEF IInv, Standing, InSync
<1>4. CASE /\ \E v \in Views \ {None} : ~Unreadable(v) /\ state' = Model(v) /\ marker' = v.deleted
           /\ UNCHANGED portal
  <2>1. PICK v \in Views \ {None} : ~Unreadable(v) /\ state' = Model(v) /\ marker' = v.deleted
    BY <1>4
  <2>2. v \in Lists
    BY <2>1, ViewsTyped DEF IInv
  <2>3. state' \in Stored /\ state' # None /\ marker' \in BOOLEAN
    BY <2>1, <2>2, ModelTyped DEF Lists
  <2>4. Service'
    BY <1>2, <1>4, Serviced
  <2>5. TypeOK'
    BY <1>1, <2>3, <2>4, Untyped, Typed DEF IInv
  <2> QED BY <1>3, <2>4, <2>5 DEF IInv, Service
<1>5. ASSUME NEW c \in Configs \ {None},
             list' = [name |-> c.name, type |-> c.type, version |-> 1, deleted |-> FALSE,
                      branches |-> Sent[c], status |-> "COMPLETE"],
             before' = None, taken' = Others \ {c.name}, state' = c, marker' = FALSE,
             late' = {q \in late : q.kind = "create"}
      PROVE  IInv'
  <2>1. c \in Stored /\ c # None /\ c.name \in Names /\ c.type \in Types /\ Sent[c] \in AllTrees
    BY Asked
  <2>2. list' \in Lists /\ list'.name \in Names
    BY <1>5, <2>1 DEF Lists, Statuses
  <2>3. taken' \subseteq Names
    BY <1>2, <1>5 DEF Service, Others, Portal, Active
  <2>4. Service'
    BY <1>2, <1>5, <2>2, <2>3 DEF Service, Portal, RequestsValid, ValidRequest
  <2>5. TypeOK'
    BY <1>1, <1>5, <2>1, <2>4, Untyped, Typed DEF IInv
  <2> QED BY <1>3, <2>4, <2>5 DEF IInv, Service
<1> QED BY <1>4, <1>5 DEF Import

----------------------------------------------------------------------------
(* Everybody else.                                                         *)

\* Somebody who changes the list or a name leaves nothing to claim of a run.
LEMMA ForeignStep == IInv /\ Foreign => IInv'
<1> SUFFICES ASSUME IInv, Foreign PROVE IInv'
  OBVIOUS
<1>1. /\ quiet' = (phase = "idle") /\ late' = late
      /\ UNCHANGED <<config, state, marker, tainted, phase, op, pc, current, least, count, failed,
                     wrote, lagging>>
  BY DEF Foreign, files, handler
<1>2. trouble' \in 0..MaxTrouble
  BY SegmentAssumption, Untyped DEF Foreign, Disturb, IInv
<1>3. quiet' \in BOOLEAN
  BY <1>1, Zenon
<1>4. Service
  BY Serviced
<1>5. ASSUME NEW r, TakeEffect(r), r.kind # "create", ValidRequest(r) PROVE Service'
  <2>1. /\ list' \in Lists /\ before' \in Lists \cup {None} /\ taken' \subseteq Names /\ Portal'
    BY <1>5, Effect DEF IInv
  <2> QED BY <1>1, <1>4, <2>1 DEF Service, RequestsValid, ValidRequest
<1>6. Service'
  <2>1. ASSUME NEW n \in Names, TakeEffect([kind |-> "name", name |-> n]) PROVE Service'
    BY <1>5, <2>1 DEF ValidRequest
  <2>2. ASSUME NEW t \in Trees, TakeEffect([kind |-> "filters", branches |-> t]) PROVE Service'
    BY <1>5, <2>2 DEF ValidRequest, AllTrees
  <2>3. ASSUME NEW k \in {"delete", "restore"}, TakeEffect([kind |-> k]) PROVE Service'
    BY <1>5, <2>3 DEF ValidRequest
  <2>4. CASE list' = None /\ before' = None /\ UNCHANGED taken
    BY <1>1, <1>4, <2>4 DEF Service, RequestsValid, ValidRequest, Portal
  <2>5. ASSUME NEW n \in Names, taken' \in {taken \ {n}, taken \cup {n}}, UNCHANGED <<list, before>>
        PROVE  Service'
    BY <1>1, <1>4, <2>5 DEF Service, RequestsValid, ValidRequest, Portal
  <2> QED BY <2>1, <2>2, <2>3, <2>4, <2>5 DEF Foreign
<1>7. TypeOK'
  BY <1>1, <1>2, <1>3, <1>6, Untyped, Typed DEF IInv
<1>8. Standing' /\ InSync'
  BY <1>1 DEF IInv, Standing, InSync
<1> QED BY <1>6, <1>7, <1>8 DEF IInv, Service

\* Processing ends, or reads catch up: no handler relies on the contrary.
LEMMA ProcessStep == IInv /\ Process => IInv'
<1> SUFFICES ASSUME IInv, Process PROVE IInv'
  OBVIOUS
<1>1. /\ late' = late /\ taken' = taken
      /\ UNCHANGED <<config, state, marker, tainted, phase, op, pc, current, least, count, failed,
                     wrote, quiet, lagging>>
  BY DEF Process, files, handler
<1>2. trouble' \in 0..MaxTrouble
  BY SegmentAssumption, Untyped DEF Process, Disturb, IInv
<1>3. Service
  BY Serviced
<1>4. Standing'
  BY <1>1 DEF IInv, Standing
<1>5. ASSUME NEW r, Harmless(r) PROVE Harmless(r)'
  BY <1>1, <1>5, Unmoved
<1>6. CASE list # None /\ list.status = "PROCESSING" /\ before' = before
           /\ \E s \in Statuses : list' = [list EXCEPT !.status = s]
  <2>1. /\ list' \in Lists /\ list' # None /\ list'.name = list.name /\ list'.type = list.type
        /\ list'.branches = list.branches /\ list'.version = list.version
        /\ list'.deleted = list.deleted /\ list \in Lists
    BY <1>3, <1>6, SegmentAssumption DEF Service, Lists
  <2>2. Service'
    BY <1>1, <1>3, <1>6, <2>1 DEF Service, Portal, RequestsValid, ValidRequest
  <2>3. TypeOK'
    BY <1>1, <1>2, <2>2, Untyped, Typed DEF IInv
  <2>4. Groups(list') = Groups(list)
    BY <2>1 DEF Groups
  <2>5. Model(list') = Model(list) /\ (Active' <=> Active)
    BY <1>6, <2>1, <2>4 DEF Model, Active
  <2>6. AsConfigured => AsConfigured'
    <3>1. Matches(list', config) <=> Matches(list, config)
      BY <2>1, <2>4 DEF Matches
    <3>2. Matches(list, config)' <=> Matches(list', config)
      BY <1>1 DEF Matches, Groups
    <3> QED BY <1>1, <2>5, <3>1, <3>2 DEF AsConfigured
  <2>7. InSync'
    <3>1. SUFFICES ASSUME phase # "idle", quiet, ~failed PROVE InSync'
      BY <1>1 DEF InSync
    <3>2. InSync
      BY DEF IInv
    <3>3. (Outdated' <=> Outdated) /\ (Overtaken' <=> Overtaken) /\ (Clean' <=> Clean)
      BY <1>1, <1>6, <2>1, <2>5 DEF Outdated, Overtaken, Clean
    <3>4. Refreshed'
      <4>1. Model(list)' = Model(list')
        BY DEF Model, Groups
      <4> QED BY <1>1, <1>6, <2>1, <2>5, <3>1, <3>2, <4>1 DEF InSync, Refreshed
    <3>5. Created' /\ Untouched' /\ Deleted'
      BY <1>1, <1>6, <2>6, <3>1, <3>2 DEF InSync, Created, Untouched, Deleted
    <3>6. Restoring' /\ Filtering' /\ Awaited'
      BY <1>1, <1>6, <2>1, <2>5, <3>1, <3>2, <3>3 DEF InSync, Restoring, Filtering, Awaited
    <3>7. Updated'
      BY <1>1, <1>6, <2>6, <3>1, <3>2 DEF InSync, Updated
    <3> QED BY <1>1, <1>5, <3>1, <3>2, <3>3, <3>4, <3>5, <3>6, <3>7 DEF InSync
  <2> QED BY <1>4, <2>2, <2>3, <2>7 DEF IInv, Service
<1>7. CASE before' = None /\ UNCHANGED list
  <2>1. Service'
    BY <1>1, <1>3, <1>7 DEF Service, Portal, RequestsValid, ValidRequest
  <2>2. TypeOK'
    BY <1>1, <1>2, <2>1, Untyped, Typed DEF IInv
  <2>3. /\ AsConfigured' <=> AsConfigured
        /\ Active' <=> Active
        /\ Model(list)' = Model(list)
    BY <1>1, <1>7, Unmoved
  <2>4. InSync'
    <3>1. SUFFICES ASSUME phase # "idle", quiet, ~failed PROVE InSync'
      BY <1>1 DEF InSync
    <3>2. InSync /\ Outdated' /\ Clean'
      BY <1>7 DEF IInv, Outdated, Clean
    <3>3. Refreshed' /\ Created' /\ Untouched' /\ Deleted' /\ Updated'
      BY <1>1, <1>7, <2>3, <3>1, <3>2 DEF InSync, Refreshed, Created, Untouched, Deleted, Updated
    <3>4. Restoring' /\ Filtering' /\ Awaited'
      BY <1>1, <1>7, <2>3, <3>1, <3>2 DEF InSync, Restoring, Filtering, Awaited
    <3> QED BY <1>1, <1>5, <3>1, <3>2, <3>3, <3>4 DEF InSync
  <2> QED BY <1>4, <2>1, <2>2, <2>4 DEF IInv, Service
<1> QED BY <1>6, <1>7 DEF Process, Statuses

\* A request that arrives after its caller gave up does to this run what the
\* run wants, or comes when nothing is claimed.
LEMMA LateInSync ==
  ASSUME IInv, NEW r \in late, late' = late \ {r}, TakeEffect(r), Took(r), Portal', list' \in Lists,
         list' # None,
         UNCHANGED <<config, state, marker, tainted, phase, op, pc, current, least, count, failed,
                     wrote, quiet, lagging>>
  PROVE  InSync'
<1>1. SUFFICES ASSUME phase # "idle", quiet, ~failed PROVE InSync'
  BY DEF InSync
<1>2. InSync /\ Harmless(r)
  BY <1>1 DEF IInv, InSync
<1>3. \A q \in late' : Harmless(q)'
  BY <1>1, <1>2, Unmoved DEF InSync
<1>4. Refreshed'
  BY <1>1, <1>2 DEF InSync, Refreshed
<1>5. phase = "apply" /\ op \in {"create", "update", "delete"}
  BY <1>1, <1>2, Untyped DEF InSync, Refreshed, Harmless, IInv, Standing
<1>6. Untouched' /\ Deleted'
  BY <1>1, <1>2, <1>5 DEF InSync, Untouched, Deleted
<1>7. list # None => list \in Lists /\ list.version \in Nat
  BY DEF IInv, TypeOK, Lists
<1>8. CASE r.kind = "delete" /\ (op = "delete" \/ pc = "create")
  <2>1. op = "delete" \/ (op = "create" /\ pc = "create")
    BY <1>8 DEF IInv, Standing
  <2>2. Created' /\ Updated'
    BY <2>1 DEF Created, Updated
  <2>3. Restoring' /\ Filtering' /\ Awaited'
    BY <2>1 DEF IInv, Standing, Restoring, Filtering, Awaited
  <2> QED BY <1>1, <1>3, <1>4, <1>6, <2>1, <2>2, <2>3 DEF InSync
<1>9. CASE op = "update"
  <2>1. config # None /\ config \in Configs
    BY <1>9, Untyped DEF IInv, Standing
  <2>2. Created'
    BY <1>9 DEF Created
  <2>3. CASE r.kind = "restore"
    <3>1. ~Active /\ ~AsConfigured
      BY <2>1, <2>3 DEF Took, Active, AsConfigured
    <3>2. Clean' /\ Outdated'
      BY <2>3 DEF Took, Clean, Outdated
    <3>3. Restoring' /\ Filtering' /\ Awaited' /\ Updated'
      BY <1>1, <1>2, <1>9, <3>1, <3>2 DEF InSync, Restoring, Filtering, Awaited, Updated
    <3> QED BY <1>1, <1>3, <1>4, <1>6, <2>2, <3>2, <3>3 DEF InSync
  <2>4. CASE r.kind = "name" /\ r.name = config.name
    <3>1. /\ Active /\ Active' /\ before' = before /\ list'.name = config.name
          /\ list'.branches = list.branches /\ list'.version = list.version
          /\ list'.status = list.status /\ list'.type = list.type
      BY <2>4 DEF Took, Active
    <3>2. (Clean' <=> Clean) /\ (Outdated' <=> Outdated)
      BY <3>1 DEF Clean, Outdated
    <3>3. Overtaken => Overtaken'
      BY <3>1 DEF Overtaken
    <3>4. AsConfigured => AsConfigured'
      <4>1. Groups(list') = Groups(list)
        BY <3>1 DEF Groups
      <4>2. Groups(list)' = Groups(list')
        BY DEF Groups
      <4> QED BY <2>1, <3>1, <4>1, <4>2 DEF AsConfigured, Matches
    <3>5. Restoring' /\ Filtering' /\ Awaited' /\ Updated'
      BY <1>1, <1>2, <1>9, <3>1, <3>2, <3>3, <3>4
         DEF InSync, Restoring, Filtering, Awaited, Updated
    <3> QED BY <1>1, <1>2, <1>3, <1>4, <1>6, <2>2, <3>2, <3>5 DEF InSync
  <2>5. CASE r.kind = "filters" /\ wrote /\ r = Request("filters")
    <3>1. pc \in {"await", "done"}
      BY <2>5 DEF IInv, Standing
    <3>2. \A q \in late' : q.kind # "filters"
      BY <1>1, <1>2, <2>5 DEF InSync, Harmless
    <3>3. /\ Active /\ Active' /\ list # None /\ list'.name = list.name /\ list'.type = list.type
          /\ list'.branches = Sent[config] /\ before' \in {None, list}
      <4>1. r.branches = Sent[config]
        BY <2>1, <2>5 DEF Request
      <4> QED BY <2>5, <4>1 DEF Took, Active
    <3>4. Restoring' /\ Filtering'
      BY <3>1 DEF Restoring, Filtering
    <3>5. CASE pc = "await"
      <4>1. ~lagging => list.version < least
        BY <1>1, <1>2, <1>9, <2>5, <3>5 DEF InSync, Awaited
      <4>2. ~lagging => Outdated'
        BY <3>3, <4>1 DEF Outdated
      <4>3. lagging => Overtaken'
        BY <3>3 DEF Overtaken
      <4>4. Awaited' /\ Updated'
        BY <3>2, <3>3, <3>5, <4>2, <4>3 DEF Awaited, Updated
      <4> QED BY <1>1, <1>3, <1>4, <1>6, <2>2, <3>4, <3>5, <4>4 DEF InSync
    <3>6. CASE pc = "done"
      <4>1. lagging /\ AsConfigured
        BY <1>1, <1>2, <1>9, <2>5, <3>6 DEF InSync, Updated
      <4>2. AsConfigured'
        <5>1. state # None /\ Matches(list, config)
          BY <2>1, <4>1 DEF AsConfigured
        <5>2. Groups(list') = config.groups
          BY <2>1, <3>3, <5>1, SentGroups DEF Matches
        <5>3. Groups(list)' = Groups(list')
          BY DEF Groups
        <5> QED BY <2>1, <3>3, <5>1, <5>2, <5>3 DEF AsConfigured, Matches
      <4>3. Awaited' /\ Updated'
        BY <3>6, <4>1, <4>2 DEF Awaited, Updated
      <4> QED BY <1>1, <1>3, <1>4, <1>6, <2>2, <3>4, <3>6, <4>3 DEF InSync
    <3> QED BY <3>1, <3>5, <3>6
  <2> QED BY <1>2, <1>8, <2>3, <2>4, <2>5 DEF Harmless
<1> QED BY <1>2, <1>8, <1>9, Stops DEF Harmless, IInv, Standing

LEMMA ArriveLateStep == IInv /\ ArriveLate => IInv'
<1> SUFFICES ASSUME IInv, ArriveLate PROVE IInv'
  OBVIOUS
<1>1. PICK r \in late :
        /\ late' = late \ {r}
        /\ \/ IF r.kind = "create" THEN TakeName(r) ELSE TakeEffect(r)
           \/ UNCHANGED service
        /\ UNCHANGED <<config, files, phase, handler, failed, wrote, quiet, lagging, trouble>>
  BY DEF ArriveLate
<1>2. UNCHANGED <<config, state, marker, tainted, phase, op, pc, current, least, count, failed,
                  wrote, quiet, lagging, trouble>>
  BY <1>1 DEF files, handler
<1>3. Service /\ ValidRequest(r)
  BY <1>1, Serviced DEF Service, RequestsValid
<1>4. late' \subseteq Requests /\ RequestsValid'
  BY <1>1, <1>3 DEF Service, RequestsValid, ValidRequest
<1>5. Standing'
  BY <1>2 DEF IInv, Standing
<1>6. SUFFICES ASSUME TRUE
               PROVE  /\ {list', before'} \subseteq Lists \cup {None} /\ taken' \subseteq Names
                      /\ Portal' /\ InSync'
  <2>1. ASSUME {list', before'} \subseteq Lists \cup {None}, taken' \subseteq Names, Portal'
        PROVE  TypeOK'
    <3>1. Service'
      BY <1>4, <2>1 DEF Service
    <3> QED BY <1>2, <3>1, Untyped, Typed DEF IInv
  <2> QED BY <1>4, <1>5, <2>1 DEF IInv
<1>7. CASE UNCHANGED <<list, before>> /\ taken' \subseteq Names
  <2>1. Portal' /\ {list', before'} \subseteq Lists \cup {None}
    BY <1>3, <1>7 DEF Service, Portal
  <2>2. InSync'
    <3>1. SUFFICES ASSUME phase # "idle", quiet, ~failed PROVE InSync'
      BY <1>2 DEF InSync
    <3>2. /\ AsConfigured' <=> AsConfigured
          /\ Active' <=> Active
          /\ Model(list)' = Model(list)
          /\ \A q : Harmless(q)' <=> Harmless(q)
      BY <1>2, <1>7, Unmoved
    <3>3. (Outdated' <=> Outdated) /\ (Overtaken' <=> Overtaken) /\ (Clean' <=> Clean)
      BY <1>2, <1>7, <3>2 DEF Outdated, Overtaken, Clean
    <3>4. InSync
      BY DEF IInv
    <3>5. Refreshed' /\ Created' /\ Untouched' /\ Deleted'
      BY <1>1, <1>2, <1>7, <3>1, <3>2, <3>4 DEF InSync, Refreshed, Created, Untouched, Deleted
    <3>6. Restoring' /\ Filtering' /\ Awaited' /\ Updated'
      BY <1>1, <1>2, <1>7, <3>1, <3>2, <3>3, <3>4
         DEF InSync, Restoring, Filtering, Awaited, Updated
    <3> QED BY <1>1, <1>2, <3>1, <3>2, <3>3, <3>4, <3>5, <3>6 DEF InSync
  <2> QED BY <1>7, <2>1, <2>2
<1>8. CASE r.kind # "create" /\ TakeEffect(r)
  <2>1. /\ list' \in Lists /\ list' # None /\ before' \in Lists \cup {None} /\ taken' \subseteq Names
        /\ Portal' /\ Took(r)
    BY <1>3, <1>8, Effect DEF IInv
  <2>2. InSync'
    BY <1>1, <1>2, <1>8, <2>1, LateInSync
  <2> QED BY <2>1, <2>2
<1>9. CASE r.kind = "create" /\ TakeName(r)
  BY <1>3, <1>7, <1>9 DEF TakeName, ValidRequest, Service
<1> QED BY <1>1, <1>3, <1>7, <1>8, <1>9 DEF service, Service

----------------------------------------------------------------------------
(* The theorems.                                                           *)

LEMMA Initially == Init => IInv
<1> SUFFICES ASSUME Init PROVE IInv
  OBVIOUS
<1>1. /\ list = None /\ before = None /\ taken = {} /\ late = {} /\ config \in Configs
      /\ state = None /\ marker = FALSE /\ tainted = FALSE
      /\ phase = "idle" /\ op = "none" /\ pc = "done" /\ current = None /\ least = 0 /\ count = 0
      /\ failed = FALSE /\ wrote = FALSE /\ quiet = TRUE /\ lagging = FALSE /\ trouble = 0
  BY DEF Init
<1>2. 0 \in 0..(Polls - 1) /\ 0 \in 0..MaxTrouble
  BY SegmentAssumption
<1>3. TypeOK
  BY <1>1, <1>2 DEF TypeOK
<1>4. RequestsValid /\ Portal /\ Standing /\ InSync
  BY <1>1 DEF RequestsValid, Portal, Standing, InSync
<1> QED BY <1>3, <1>4 DEF IInv

LEMMA Stutters == IInv /\ UNCHANGED vars => IInv'
<1> SUFFICES ASSUME IInv, UNCHANGED vars PROVE IInv'
  OBVIOUS
<1>1. UNCHANGED <<list, before, taken, late, config, state, marker, tainted, phase, op, pc, current,
                  least, count, failed, wrote, quiet, lagging, trouble>>
  BY DEF vars, portal, files, handler
<1>2. UNCHANGED portal
  BY DEF vars
<1>3. Service'
  BY <1>2, Serviced
<1>4. TypeOK'
  BY <1>1, <1>3, Untyped, Typed DEF IInv
<1>5. Standing'
  BY <1>1 DEF IInv, Standing
<1>6. InSync'
  <2>1. SUFFICES ASSUME phase # "idle", quiet, ~failed PROVE InSync'
    BY <1>1 DEF InSync
  <2>2. /\ AsConfigured' <=> AsConfigured
        /\ Active' <=> Active
        /\ Model(list)' = Model(list)
        /\ \A q : Harmless(q)' <=> Harmless(q)
    BY <1>1, Unmoved
  <2>3. (Outdated' <=> Outdated) /\ (Overtaken' <=> Overtaken) /\ (Clean' <=> Clean)
    BY <1>1, <2>2 DEF Outdated, Overtaken, Clean
  <2>4. InSync
    BY DEF IInv
  <2>5. Refreshed' /\ Created' /\ Untouched' /\ Deleted'
    BY <1>1, <2>1, <2>2, <2>4 DEF InSync, Refreshed, Created, Untouched, Deleted
  <2>6. Restoring' /\ Filtering' /\ Awaited' /\ Updated'
    BY <1>1, <2>1, <2>2, <2>3, <2>4 DEF InSync, Restoring, Filtering, Awaited, Updated
  <2> QED BY <1>1, <2>1, <2>2, <2>3, <2>4, <2>5, <2>6 DEF InSync
<1> QED BY <1>3, <1>4, <1>5, <1>6 DEF IInv, Service

LEMMA Inductive == IInv /\ [Next]_vars => IInv'
<1> SUFFICES ASSUME IInv, [Next]_vars PROVE IInv'
  OBVIOUS
<1>1. CASE UNCHANGED vars
  BY <1>1, Stutters
<1>2. CASE Read \/ Preflight \/ Await \/ CheckName
  <2>1. Unread
    BY <1>2 DEF Read, Preflight, Await, CheckName, Unread
  <2> QED BY <1>2, <2>1, ReadStep, PreflightStep, AwaitStep, CheckNameStep
<1>3. CASE ReadFails \/ Create \/ CreateUnknown \/ Write \/ WriteFails
  BY <1>3, ReadFailsStep, CreateStep, CreateUnknownStep, WriteStep, WriteFailsStep
<1>4. CASE StartRun \/ Plan \/ Replace \/ EndRun \/ Crash \/ Import
  BY <1>4, StartRunStep, PlanStep, ReplaceStep, EndRunStep, CrashStep, ImportStep
<1>5. CASE Foreign \/ ArriveLate \/ Process
  BY <1>5, ForeignStep, ArriveLateStep, ProcessStep
<1> QED BY <1>1, <1>2, <1>3, <1>4, <1>5 DEF Next, Handle

\* The inductive invariant holds in every reachable state: what reads may
\* return besides the list is neither deleted nor newer, and what a handler
\* waits for is something only the list it changed can show.
THEOREM Invariance == Spec => []IInv
<1>1. Init => IInv
  BY Initially
<1>2. IInv /\ [Next]_vars => IInv'
  BY Inductive
<1> QED BY <1>1, <1>2, PTL DEF Spec

\* Every variable of the segment resource stays in its domain.
THEOREM TypeCorrect == Spec => []TypeOK
<1>1. IInv => TypeOK
  BY DEF IInv
<1> QED BY <1>1, Invariance, PTL

\* A run of the segment resource that ends without an error has left the list
\* active and as configured, its filters processed, whatever the network lost
\* and however old a version a read returned (pollSegment, Update).
THEOREM SuccessVerified == Spec => []SuccessIsVerified
<1>1. IInv => SuccessIsVerified
  <2> SUFFICES ASSUME IInv, Applied, quiet, ~failed
               PROVE  /\ ~lagging \/ (op = "update" /\ wrote) => AsConfigured
                      /\ ~lagging /\ op = "update" /\ wrote => list.status = "COMPLETE"
    BY DEF SuccessIsVerified
  <2>1. phase = "apply" /\ pc = "done" /\ ~Replacing
    BY DEF Applied
  <2>2. Created /\ Updated /\ Untouched /\ Deleted
    BY <2>1 DEF IInv, InSync
  <2>3. CASE op = "delete"
    <3>1. state = None /\ config = None
      BY <2>1, <2>2, <2>3 DEF Deleted, Replacing
    <3> QED BY <2>3, <3>1 DEF AsConfigured
  <2>4. CASE op \in {"none", "create", "update"}
    BY <2>1, <2>2, <2>4 DEF Created, Updated, Untouched
  <2> QED BY <2>1, <2>3, <2>4, Untyped DEF IInv, Standing
<1> QED BY <1>1, Invariance, PTL

\* How handlers treat what is in state.
LEMMA KeepState ==
  /\ Fail => state' = state
  /\ PollAgain => state' = state
  /\ \A l : Written(l) => state' = state
  /\ \A l, v, n : Continue(l, v, n) => state' = state
  /\ \A v \in Lists : ~Unreadable(v) /\ Record(v) => state' # None
  /\ \A v \in Lists : ~Unreadable(v) /\ Proceed(v) => state' = state \/ state' # None
<1>1. Fail => state' = state
  BY DEF Fail, FailMarked
<1>2. PollAgain => state' = state
  BY DEF PollAgain, files
<1>3. ASSUME NEW l, Written(l) PROVE state' = state
  BY <1>3 DEF Written, files
<1>4. ASSUME NEW l, NEW v, NEW n, Continue(l, v, n) PROVE state' = state
  BY <1>4 DEF Continue, files
<1>5. ASSUME NEW v \in Lists, ~Unreadable(v), Record(v) PROVE state' # None
  BY <1>5, ModelTyped DEF Record
<1>6. ASSUME NEW v \in Lists, ~Unreadable(v), Proceed(v) PROVE state' = state \/ state' # None
  <2>1. \/ Continue("name", None, 0)
        \/ Continue("filters", None, v.version + 1)
        \/ Record(v)
        \/ FailMarked(FALSE)
    BY <1>6 DEF Proceed
  <2>2. FailMarked(FALSE) => state' = state
    BY DEF FailMarked
  <2> QED BY <1>4, <1>5, <1>6, <2>1, <2>2
<1> QED BY <1>1, <1>2, <1>3, <1>4, <1>5, <1>6

\* State lets go of a list only when it is deleted or gone: a failed read, a
\* delete whose answer is lost and a filter that cannot be expressed keep it
\* (Read, Delete and waitForTombstone).
THEOREM LetsGoWhenDead == Spec => LetGoOnlyWhenDead
<1>1. IInv /\ [Next]_vars => [state # None /\ state' = None => ~Active]_vars
  <2> SUFFICES ASSUME IInv, Next, state # None, state' = None PROVE ~Active
    OBVIOUS
  <2>1. ASSUME NEW v \in Views PROVE /\ v = None \/ v.deleted => ~Active
                                     /\ v # None => v \in Lists
    BY ViewsTyped DEF IInv, Active
  <2>2. state' # state
    OBVIOUS
  <2>3. CASE Read
    BY <2>1, <2>2, <2>3, KeepState DEF Read
  <2>4. CASE Preflight
    BY <2>1, <2>2, <2>4, KeepState DEF Preflight
  <2>5. CASE Await
    <3>1. PICK v \in Views :
             \/ v = None
             \/ Fail \/ PollAgain
             \/ v # None /\ ~Unreadable(v) /\ Ready(v) /\ Seen(v)
      BY <2>5 DEF Await
    <3>2. CASE v # None /\ ~Unreadable(v) /\ Ready(v) /\ Seen(v)
      <4>1. v \in Lists
        BY <2>1, <3>2
      <4>2. pc = "tombstone"
        BY <2>2, <3>2, <4>1, KeepState DEF Seen
      <4>3. v.deleted
        BY <3>2, <4>2 DEF Ready
      <4> QED BY <2>1, <4>3
    <3> QED BY <2>1, <2>2, <3>1, <3>2, KeepState
  <2>6. CASE CheckName
    BY <2>1, <2>2, <2>6, KeepState DEF CheckName
  <2>7. CASE ReadFails \/ CreateUnknown \/ WriteFails
    BY <2>2, <2>7, KeepState DEF ReadFails, CreateUnknown, WriteFails
  <2>8. CASE Create
    <3>1. config # None
      BY <2>8 DEF Create, IInv, Standing
    <3>2. state' = config \/ Fail
      BY <2>8 DEF Create
    <3> QED BY <2>2, <3>1, <3>2, KeepState
  <2>9. CASE Write
    <3>1. pc = "delete" /\ ~Accepts(Request("delete"))
      BY <2>2, <2>9, KeepState DEF Write
    <3>2. Request("delete").kind = "delete"
      BY DEF Request
    <3> QED BY <3>1, <3>2 DEF Accepts
  <2>10. CASE StartRun \/ Plan \/ Replace \/ EndRun \/ Crash
    BY <2>2, <2>10 DEF StartRun, Plan, Replace, EndRun, Crash, Stop, files
  <2>11. CASE Import
    BY <2>11 DEF Import
  <2>12. CASE Foreign \/ ArriveLate \/ Process
    BY <2>2, <2>12 DEF Foreign, ArriveLate, Process, files
  <2> QED BY <2>3, <2>4, <2>5, <2>6, <2>7, <2>8, <2>9, <2>10, <2>11, <2>12 DEF Next, Handle
<1> QED BY <1>1, Invariance, PTL DEF Spec, LetGoOnlyWhenDead
=============================================================================
