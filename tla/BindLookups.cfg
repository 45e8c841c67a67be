SPECIFICATION Spec
CONSTANTS
  n = n
  k = k
  x = x
  y = y
  Nbrs = {n, k}
  Numbers = {x, y}
  Unbound = Unbound
  Commands = {c1}
  NoCommand = NoCommand
  BadLine = BadLine
  Files <- BindFiles
  MaxTries = 2
  Lookups = {g1, g2}
  Modes = {"live", "debug"}
  Broken = {"query", "lost"}
  Old <- FirstBindings
  OldNbrs <- FirstNbrs
INVARIANTS TypeOK CacheIsAsked FoundIfBound
SYMMETRY Alike
CHECK_DEADLOCK FALSE
