SPECIFICATION Spec
CONSTANTS
  m = m
  f = f
  NoCall = NoCall
  Calls = {m,f}
  Mobile = {m}
  MaxThreads = 0
  MaxKills = 0
  MaxTries = 2
  Faulty = {"request", "record", "bind", "store", "lost"}
  Reasons = {"TP_ERROR", "REJECT"}
INVARIANTS RowComplete AnsweredMeansTalked ReasonIsTrue
CHECK_DEADLOCK FALSE
