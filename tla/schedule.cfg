SPECIFICATION ClockSpec
CONSTANTS
  Winter <- PST
  Summer <- PDT
  Spring = 68
  Autumn = 162
  Ticks = 2
  MaxJitter = 1
  Base = 3
  Starts <- FiveDays
  Hours <- SomeHours
  Recipients = 3
  Opened <- Events
  Typed <- AroundChanges
  Durations = {1, 2, 4}
  MaxSaves = 2
INVARIANTS DueAsSoonAsAllowed Staggered
PROPERTIES UntouchedStays SavedAsTyped
CHECK_DEADLOCK FALSE
