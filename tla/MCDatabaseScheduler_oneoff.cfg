CONSTANTS
  a = a
  b = b
  Expiring = {}
  Starting = {}
  Tasks = {a}
  NoTask = NoTask
  Every <- EveryDef
  OneOff = {a}
  StartAt <- StartAtDef
  ExpiresAt <- ExpiresAtDef
  SyncMax = 99
  SyncEvery = 1
  RetryDelay = 1
  Never = 99
  LongBack = 30
  Requeue = TRUE
  ClientOps = {"disable", "enable", "toggle"}
  FaultKinds = {"poll", "load", "stop"}
  QuietTicks = FALSE
  MaxTime = 5
  MaxEdits = 2
  MaxFaults = 1
SPECIFICATION Spec
INVARIANTS StopSavesRuns
PROPERTIES OneOffRunsOnce OnlyFaultsEndBeat
