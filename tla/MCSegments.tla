----------------------------- MODULE MCSegments -----------------------------
(* One list, as the author may define it, with the filters somebody else   *)
(* may give it: the same in another order and as MULTISTRING, others, and  *)
(* filters that the provider cannot express.                               *)
EXTENDS Segments

CONSTANTS red, blue, prop, v1, v2

Colours == {red, blue}
OneProperty == {prop}
TwoValues == {v1, v2}

Equals(k, v) == [property |-> prop, operator |-> "is_equal_to", kind |-> k, value |-> v]
Known == [property |-> prop, operator |-> "is_known", kind |-> "", value |-> Blank]

Narrow == {{Equals("text", v1)}}
Wide == {{Equals("select", v1), Known}, {Equals("text", v1)}}

Def(n, t, g) == [name |-> n, type |-> t, groups |-> g]
Definitions ==
  {None, Def(red, "dynamic", Narrow), Def(blue, "dynamic", Wide),
   Def(red, "snapshot", Narrow), Def(red, "snapshot", Wide), Def(blue, "manual", {})}

Multi == [FilterFromSemantic(Equals("text", v1)) EXCEPT !.type = "MULTISTRING"]
Number == [Multi EXCEPT !.type = "NUMBER", !.operator = "IS_GREATER_THAN"]
ForeignTrees ==
  {Reverse(BranchFromGroups(Wide)), << <<Multi, Number>> >>}
=============================================================================
