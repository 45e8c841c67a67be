SPECIFICATION Spec
CONSTANTS
  m = m
  f = f
  NoCall = NoCall
  Calls = {m}
  Mobile = {m}
  MaxThreads = 0
  MaxKills = 0
  MaxTries = 2
  Faulty = {"lookup"}
  Reasons = {"TP_ERROR", "REJECT"}
PROPERTY LookupIsFollowedUp
CHECK_DEADLOCK FALSE
