SPECIFICATION AccSpec
CONSTANTS
  Person = {p1, p2}
  Setup = {s1, s2}
  Session = {i1, i2}
  Link = {l1}
  Request = {r1, r2}
  LinkTTL = 1
  SessionTTL = 2
  MaxTime = 2
SYMMETRY Symmetry
INVARIANTS LinkOpensOnce OnePasswordEach
PROPERTIES NoSessionRevives LockedOutByOthersOnly
CHECK_DEADLOCK FALSE
