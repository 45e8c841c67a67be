SPECIFICATION Spec
CONSTANTS
  m = m
  f = f
  NoCall = NoCall
  Calls = {f}
  Mobile = {}
  MaxThreads = 1
  MaxKills = 0
  MaxTries = 2
  Faulty = {}
  Reasons = {"TP_ERROR", "REJECT"}
INVARIANT AnsweredRowHasRecord
CHECK_DEADLOCK FALSE
