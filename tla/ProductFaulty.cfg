\* One product address against a failing portal that others edit.
CONSTANTS
  chair = chair
  table = table
  None = None
  Ids <- TwoIds
  Texts <- ChairsAndTables
  Amounts <- Sums
  Configs <- Authored
  Edits <- Elsewhere
  Attempts = 2
  MaxTrouble = 2
SPECIFICATION Spec
INVARIANTS TypeOK NothingLostSilently SuccessIsVerified SecondPlanEmpty
PROPERTIES IdentityKept
