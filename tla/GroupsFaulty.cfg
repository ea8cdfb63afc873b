\* Two groups that compete for the last place, in a portal that fails and that
\* others edit.
CONSTANTS
  g1 = g1
  g2 = g2
  red = red
  blue = blue
  None = None
  Names <- TwoNames
  Labels <- TwoLabels
  Configs <- TwoGroups
  MaxOrder = 2
  MaxTrouble = 1
SPECIFICATION Spec
INVARIANTS TypeOK EmptyPlanHidesNoDrift SuccessIsVerified
PROPERTIES ForgottenOnlyWhenGone
