\* A folder in a folder: renames, moves and removals, reads that return an older
\* folder for any time after a task, and one thing that goes wrong at any step.
CONSTANTS
  upper = upper
  lower = lower
  red = red
  blue = blue
  None = None
  Addresses <- UpperAndLower
  Ids <- ThreeIds
  Names <- Colours
  Configs <- Nested
  Attempts = 2
  Matches = 2
  Lag = TRUE
  MaxTrouble = 1
SPECIFICATION Spec
INVARIANTS TypeOK SuccessIsVerified
PROPERTIES IdentityKept RefreshKeepsNewest PatchOnlyLeaves
