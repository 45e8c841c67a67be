SPECIFICATION Spec
CONSTANTS
  m = m
  f = f
  NoCall = NoCall
  Calls = {f}
  Mobile = {}
  MaxThreads = 1
  MaxKills = 1
  MaxTries = 2
  Faulty = {"post", "request", "detail", "store", "lost", "lookup"}
  Reasons = {"TP_ERROR"}
INVARIANTS TypeOK BillsAgree BillInv AnsweredMeansTalked ReasonIsTrue
PROPERTIES KeepsBillingPromise DeleteOnlyWhenSettled FirstResultStays
CHECK_DEADLOCK FALSE
