CONSTANTS
  a = a
  b = b
  Expiring = {a}
  Starting = {a}
  Tasks = {a, b}
  NoTask = NoTask
  Every <- EveryDef
  OneOff = {}
  StartAt <- StartAtDef
  ExpiresAt <- ExpiresAtDef
  SyncMax = 99
  SyncEvery = 3
  RetryDelay = 1
  Never = 99
  LongBack = 30
  Requeue = TRUE
  ClientOps = {"disable", "enable", "create", "delete"}
  FaultKinds = {"poll", "sync", "load", "send", "stop"}
  QuietTicks = TRUE
  MaxTime = 5
  MaxEdits = 1
  MaxFaults = 1
SPECIFICATION FairSpec
INVARIANTS DirtyCoversRuns
PROPERTIES Spacing DueIsSent KeepsLedger
