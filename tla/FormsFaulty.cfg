\* One form of four subtrees, and two things that go wrong.
CONSTANTS
  old = old
  new = new
  None = None
  Ids <- ThreeIds
  Texts <- OldAndNew
  Configs <- Wishes
  Polls = 2
  MaxTrouble = 2
SPECIFICATION Spec
INVARIANTS TypeOK SuccessIsVerified UndisturbedRunsSucceed
PROPERTIES OwnSubtreesOnly
