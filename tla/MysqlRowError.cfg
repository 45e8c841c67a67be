SPECIFICATION Spec
CONSTANTS
  NJobs = 1
  Kinds <- MCKinds
  MaxTries = 2
  MaxBreaks = 1
  SequenceSize = 4
  MaxRows = 2
  BigRows = "yes"
  MoreResults = "no"
  AllowOldPasswords = TRUE
INVARIANT NeverWaitsForNothing
CHECK_DEADLOCK FALSE
