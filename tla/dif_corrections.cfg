SPECIFICATION DifSpec
CONSTANTS
  Event = {e1}
  Slot = {s1, s2}
  Group = {g1, g2}
  MaxOutbox = 3
  Channel = {c1}
  Opening = {c1}
  ChannelKind = {"email", "whatsapp"}
  g1 = g1
  Parish = parish
  ChannelEdits <- OneGroup
  Relay = {w1}
  RelayBatch = 20
  FanTask = {f1, f2, f3}
  DelTask = {d1, d2}
  FanoutMaxRetry = 0
  DeliverMaxRetry = 0
  MailConcurrency = 4
  WAConcurrency = 1
  MaxFaults = 0
  MaxManual = 0
SYMMETRY Symmetry
INVARIANTS LogTellsTheTruth StoryIsCoherent CurrentIsAnnounced OnlyItsGroupHears
CHECK_DEADLOCK FALSE
