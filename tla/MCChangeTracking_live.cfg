CONSTANTS
  w1 = w1
  w2 = w2
  Writers = {w1, w2}
  TaskTable = TaskTable
  ScheduleTables = {Intervals}
  NoWriter = NoWriter
  SyncMax = 3
  Drift = {0}
  FallBack = 0
  MaxTime = 2
  MaxWrites = 2
  MaxFaults = 1
SPECIFICATION FairSpec
INVARIANTS NoOtherLoss
PROPERTIES ChangeIsLoaded
