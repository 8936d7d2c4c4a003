SPECIFICATION VisitorSpec
CONSTANTS
  Event = {e1, e2, e3}
  Opening = {e1, e2}
  Slot <- Slots
  FirstOf <- Months
  Season <- Seeded
  Ordinary = "verde"
  Today <- Advent
  MaxMoves = 2
  MaxEdits = 1
  Parroquial = 3
  Groups = {"liturgia", "coro"}
  Widths = {390, 1280}
  Closed = closed
  MaxTaps = 2
SYMMETRY Symmetry
INVARIANTS HeldOnce NothingMissing LanesFit TintedOnceBegun CellsHideTheLeast BoxesApart
CHECK_DEADLOCK FALSE
