\* One file and a stranger's, and one thing that goes wrong.
CONSTANTS
  a = a
  b = b
  one = one
  two = two
  old = old
  new = new
  None = None
  Ids <- TwoIds
  Stems <- Words
  Extensions <- Text
  Folders <- Places
  Contents <- Bytes
  Configs <- Wishes
  Polls = 2
  Lags = TRUE
  MaxTrouble = 1
SPECIFICATION Spec
INVARIANTS TypeOK SuccessIsVerified
PROPERTIES OwnFilesReviewedBytes LetGoOnlyWhenGone
