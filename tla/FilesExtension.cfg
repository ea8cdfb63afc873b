\* A file whose name is changed to one with another extension.
CONSTANTS
  a = a
  b = b
  one = one
  two = two
  old = old
  new = new
  None = None
  Ids <- TwoIds
  Stems <- Words
  Extensions <- Kinds
  Folders <- Places
  Contents <- Bytes
  Configs <- Renames
  Polls = 2
  Lags = FALSE
  MaxTrouble = 0
SPECIFICATION Spec
INVARIANT NameIsMutable
