SPECIFICATION PanelSpec
CONSTANTS
  e1 = e1
  s1 = s1
  s2 = s2
  c1 = c1
  p1 = p1
  p2 = p2
  g1 = g1
  Event = {e1, e2}
  Slot = {s1, s2}
  Group = {g1}
  MaxOutbox = 2
  Channel = {c1}
  Key <- Keys
  Parish = parish
  Person = {p1, p2}
  Self = p1
  MaxOthers = 1
  Nothing = nothing
  MonthOf <- TwoMonths
  Months = {1, 2}
  ThisMonth = 1
  MaxPresses = 3
  MaxCalls = 2
  MaxSlips = 1
  Opening <- Openings
INVARIANTS PanelTypeOK QuietIsFresh OneEventPerForm SavedIsListed LoginRemembersNothing
PROPERTIES NoSilentDeletion NothingTypedIsLost ComesToRest QueuedIsFollowed
CHECK_DEADLOCK FALSE
