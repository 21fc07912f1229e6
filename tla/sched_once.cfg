SPECIFICATION ScheduleSpec
CONSTANTS
  Interval = 3
  Second = 2
  Period = 6
  Skew = 1
  Horizon = 24
INVARIANTS NextIsCreated
PROPERTIES OccurrenceOnce
CHECK_DEADLOCK FALSE
