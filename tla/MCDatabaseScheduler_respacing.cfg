CONSTANTS
  a = a
  b = b
  Expiring = {}
  Starting = {}
  Tasks = {a, b}
  NoTask = NoTask
  Every <- EveryDef
  OneOff = {b}
  StartAt <- StartAtDef
  ExpiresAt <- ExpiresAtDef
  SyncMax = 99
  SyncEvery = 3
  RetryDelay = 1
  Never = 99
  LongBack = 30
  Requeue = TRUE
  ClientOps = {}
  FaultKinds = {}
  QuietTicks = TRUE
  MaxTime = 8
  MaxEdits = 0
  MaxFaults = 0
SPECIFICATION Spec
PROPERTIES Spacing
