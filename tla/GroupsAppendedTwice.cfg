\* Two groups with the default display order, and nothing goes wrong.
CONSTANTS
  g1 = g1
  g2 = g2
  red = red
  blue = blue
  None = None
  Names <- TwoNames
  Labels <- OneLabel
  Configs <- AppendedBoth
  MaxOrder = 4
  MaxTrouble = 0
SPECIFICATION Spec
INVARIANTS SecondPlanEmpty
