\* A rename is lost while reads still return a revision with the planned name.
CONSTANTS
  upper = upper
  lower = lower
  red = red
  blue = blue
  None = None
  Addresses <- UpperAndLower
  Ids <- TwoIds
  Names <- Colours
  Configs <- RenamedOrAlone
  Attempts = 3
  Matches = 2
  Lag = TRUE
  MaxTrouble = 1
SPECIFICATION Spec
INVARIANT ChangesAreVerified

