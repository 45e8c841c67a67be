SPECIFICATION FairSpec
CONSTANTS
  m = m
  f = f
  NoCall = NoCall
  Calls = {f}
  Mobile = {}
  MaxThreads = 0
  MaxKills = 0
  MaxTries = 2
  Faulty = {"request", "post", "lost", "bind"}
  Reasons = {"TP_ERROR", "TP_NO_BINDING", "REJECT", "BUSY"}
PROPERTY EveryRecordRetired
CHECK_DEADLOCK FALSE
