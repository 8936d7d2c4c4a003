SPECIFICATION DifFairSpec
CONSTANTS
  Event = {e1}
  Slot = {s1}
  Group = {g1}
  MaxOutbox = 2
  Channel = {c1}
  Opening = {}
  ChannelKind = {"email", "whatsapp"}
  g1 = g1
  Parish = parish
  ChannelEdits <- OnOrOff
  Relay = {w1}
  RelayBatch = 1
  FanTask = {f1, f2}
  DelTask = {d1, d2}
  FanoutMaxRetry = 1
  DeliverMaxRetry = 1
  MailConcurrency = 4
  WAConcurrency = 1
  MaxFaults = 0
  MaxManual = 0
INVARIANTS RetractionOnlyToTheTold QueuedIsOnItsWay
PROPERTIES EveryDeliverySettles RetractionArrives EveryRowProcessed
CHECK_DEADLOCK FALSE
