CONSTANTS
  w1 = w1
  w2 = w2
  Writers = {w1, w2}
  TaskTable = TaskTable
  ScheduleTables = {}
  NoWriter = NoWriter
  SyncMax = 1
  Drift = {0}
  FallBack = 1
  MaxTime = 3
  MaxWrites = 2
  MaxFaults = 1
SYMMETRY Symmetry
SPECIFICATION Spec
INVARIANTS TypeOK NoOtherLoss StalenessBound
PROPERTIES AtomicSaveNeverRegresses MirrorsTables
