SPECIFICATION Spec
CONSTANTS
  n = n
  k = k
  x = x
  y = y
  Nbrs = {n, k}
  Numbers = {x, y}
  Unbound = Unbound
  Commands = {c1, c2}
  NoCommand = NoCommand
  BadLine = BadLine
  Files <- SameNumbers
  MaxTries = 2
  Lookups = {}
  Modes = {"live", "debug"}
  Broken = {"select", "write", "lost", "dial", "hget", "hset"}
  Old <- FirstBindings
  OldNbrs <- FirstNbrs
INVARIANTS OneRowPerNumber RoutedIsBound
PROPERTIES BoundAsWritten EntryKeepsNumbers
SYMMETRY Alike
CHECK_DEADLOCK FALSE
