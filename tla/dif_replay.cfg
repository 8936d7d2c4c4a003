SPECIFICATION ReplaySpec
CONSTANTS
  Event = {e1}
  Slot = {s1}
  Group = {g1}
  MaxOutbox = 2
  Channel = {c1}
  Opening = {c1}
  ChannelKind = {"email", "whatsapp"}
  g1 = g1
  Parish = parish
  ChannelEdits <- AlwaysOn
  Relay = {w1, w2}
  RelayBatch = 20
  FanTask = {f1, f2}
  DelTask = {d1, d2}
  FanoutMaxRetry = 1
  DeliverMaxRetry = 1
  MailConcurrency = 4
  WAConcurrency = 1
  MaxFaults = 2
  MaxManual = 1
SYMMETRY Symmetry
INVARIANTS DifTypeOK NoAnnouncementLost HeardOnce PanelTellsTheTruth
PROPERTIES KeepsTheLedger
CHECK_DEADLOCK FALSE
