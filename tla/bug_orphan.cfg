SPECIFICATION DifSpec
CONSTANTS
  Event = {e1}
  Slot = {s1}
  Group = {g1}
  MaxOutbox = 2
  Channel = {c1}
  Opening = {c1}
  ChannelKind = {"email", "whatsapp"}
  g1 = g1
  Parish = parish
  ChannelEdits <- AlwaysOn
  Relay = {w1}
  RelayBatch = 20
  FanTask = {f1, f2}
  DelTask = {d1}
  FanoutMaxRetry = 1
  DeliverMaxRetry = 1
  MailConcurrency = 4
  WAConcurrency = 1
  MaxFaults = 1
  MaxManual = 0
SYMMETRY Symmetry
INVARIANTS QueuedIsOnItsWay
CHECK_DEADLOCK FALSE
