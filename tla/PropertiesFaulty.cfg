\* A property with options beside another one, in a portal that fails and that
\* others edit.
CONSTANTS
  p1 = p1
  p2 = p2
  ga = ga
  gb = gb
  None = None
  Names <- TwoNames
  PropGroups <- TwoGroups
  Values <- TwoValues
  Configs <- Wishes
  Foreigners <- Others
  MaxOrder = 2
  MaxTrouble = 1
SPECIFICATION Spec
INVARIANTS TypeOK EmptyPlanHidesNoDrift SettledPlanEmpty
