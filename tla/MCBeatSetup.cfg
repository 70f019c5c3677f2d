CONSTANTS
  a = a
  b = b
  Names = {a, b}
  Configs <- SolarOrCleanup
  Values = {0, 1}
  ClientOps = {"saveTask", "deleteTask", "addSchedule", "editSchedule", "deleteSchedule"}
  MaxId = 6
  MaxEvents = 2
  NoName = NoName
SPECIFICATION FairSpec
INVARIANTS TypeOK RowsConsistent SetupInstalls SetupIsIdempotent
PROPERTIES ScheduleHeals
