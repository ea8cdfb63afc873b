\* One list, reads of older versions, and one thing that goes wrong.
CONSTANTS
  red = red
  blue = blue
  prop = prop
  v1 = v1
  v2 = v2
  None = None
  Blank = Blank
  Unsupported = Unsupported
  Properties <- OneProperty
  Values <- TwoValues
  Names <- Colours
  Configs <- Definitions
  Trees <- ForeignTrees
  Polls = 2
  MaxTrouble = 1
SPECIFICATION FairSpec
INVARIANTS TypeOK FiltersKeepMeaning SuccessIsVerified
PROPERTIES LetGoOnlyWhenDead EveryRunEnds
