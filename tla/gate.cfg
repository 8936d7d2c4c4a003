SPECIFICATION GateSpec
CONSTANTS
  Client = {a, b, c}
  Proxy = proxy
  Trusted = {proxy}
  Garbage = garbage
  Limit = 2
  Window = 2
  SweepThreshold = 1
  MaxTime = 4
SYMMETRY Symmetry
INVARIANTS TwiceAtMost RefusedOnlyWhenSpent
CHECK_DEADLOCK FALSE
