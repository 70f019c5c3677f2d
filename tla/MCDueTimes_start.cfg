SPECIFICATION Spec
CONSTANTS
  Zones <- Utc
  ChangeAt = 5
  Schedules <- UtcCrontabs
  Starts <- StartOrNot
  NoStart = NoStart
  Day = 4
  SyncMax = 3
  LongBack = 50
  Never = 90
  MaxTime = 12
  MaxChanges = 2
PROPERTIES StartWaitsForMatch
CHECK_DEADLOCK FALSE
