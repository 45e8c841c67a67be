SPECIFICATION FairSpec
CONSTANTS
  main = main
  h = h
  Goroutines = {main, h}
  Main = main
  NRecords <- MCRecords
  LevelOf <- MCLevelOf
  Bytes <- MCBytes
  LogBufferLength = 1
  FilterLevel <- MCFilterLevel
  MaxLines = 2
  MaxSize = 3
  Rotate = TRUE
  Daily = TRUE
  MaxNumber = 1
  DiskFails = "yes"
INVARIANTS TypeOK OrderKept LoggedEverywhere DiskHolds FileLimit
PROPERTIES WritersAreQueues LogReturns
