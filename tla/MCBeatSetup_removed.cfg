CONSTANTS
  a = a
  b = b
  Names = {a, b}
  Configs <- OnlySolar
  Values = {0, 1}
  ClientOps = {"deleteSchedule"}
  MaxId = 6
  MaxEvents = 1
  NoName = NoName
SPECIFICATION Spec
INVARIANTS RemovedIsDisabled
