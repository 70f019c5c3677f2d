SPECIFICATION Spec
CONSTANTS
  Zones <- EastAndWest
  ChangeAt = 5
  Schedules <- AllKinds
  Starts <- StartOrNot
  NoStart = NoStart
  Day = 4
  SyncMax = 4
  LongBack = 50
  Never = 90
  MaxTime = 12
  MaxChanges = 2
INVARIANTS TypeOK LastRunReadRight NotLate
PROPERTIES SentWhenDue
CHECK_DEADLOCK FALSE
