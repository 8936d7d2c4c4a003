SPECIFICATION CalendarSpec
CONSTANTS
  Event = {e1}
  Opening = {}
  Slot <- Slots
  FirstOf <- Months
  Season <- Seeded
  Ordinary = "verde"
  Today <- Advent
  MaxMoves = 1
  MaxEdits = 0
INVARIANTS TintIsTheSeason
CHECK_DEADLOCK FALSE
