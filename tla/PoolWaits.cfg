SPECIFICATION FairSpec
CONSTANTS
  u1 = u1
  u2 = u2
  c1 = c1
  c2 = c2
  Users = {u1, u2}
  Conns = {c1, c2}
  NoConn = NoConn
  Pools <- MCPools
  Commands = {"watch", "unwatch", "multi", "exec", "subscribe"}
  MaxGets <- MCGets
  MaxSends <- MCSends
  MaxBreaks = 1
INVARIANTS TypeOK ActiveCounts NotShared IdleIsClean NoWakeupLost NoLeak
PROPERTIES GetReturns CloseReturns
CHECK_DEADLOCK FALSE
