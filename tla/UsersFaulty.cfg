\* A member and its profile, and one thing that goes wrong.
CONSTANTS
  ann = ann
  bob = bob
  x = x
  y = y
  None = None
  Blank = Blank
  Garbled = Garbled
  Ids <- Both
  CrmIds <- Both
  Emails <- Addresses
  Texts <- Writings
  Configs <- Definitions
  Intervals <- Spans
  Most = 3
  Polls = 2
  MaxTrouble = 1
SPECIFICATION Spec
INVARIANTS TypeOK HoursAreSets SuccessIsVerified
PROPERTIES RemovalIsGuarded NothingElseTouched
