SPECIFICATION FairSpec
CONSTANTS
  NJobs = 2
  Kinds <- MCKinds
  MaxTries = 2
  MaxBreaks = 2
  SequenceSize = 4
  MaxRows = 1
  BigRows = "yes"
  MoreResults = "yes"
  AllowOldPasswords = TRUE
INVARIANTS TypeOK AnswersMatch NothingLeft StoredAsReported
PROPERTIES BillsAreRetried CallReturns
CHECK_DEADLOCK FALSE
