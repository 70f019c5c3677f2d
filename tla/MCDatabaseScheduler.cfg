CONSTANTS
  a = a
  b = b
  Expiring = {}
  Starting = {}
  Tasks = {a}
  NoTask = NoTask
  Every <- EveryDef
  OneOff = {a}
  StartAt <- StartAtDef
  ExpiresAt <- ExpiresAtDef
  SyncMax = 99
  SyncEvery = 3
  RetryDelay = 1
  Never = 99
  LongBack = 30
  Requeue = TRUE
  ClientOps = {"edit", "create", "delete", "disable"}
  FaultKinds = {"poll", "sync", "load", "save", "send", "stop", "kill"}
  QuietTicks = FALSE
  MaxTime = 3
  MaxEdits = 2
  MaxFaults = 1
SPECIFICATION Spec
INVARIANTS TypeOK HeapMatchesSchedule MemoryMatchesRows
