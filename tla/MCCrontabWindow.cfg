CONSTANTS
  ServerZones <- NearZones
  TaskZones <- NearZones
  Crontabs <- CrontabsDef
  FirstSlot = 288
  LastSlot = 600
SPECIFICATION Spec
INVARIANTS TypeOK SentInTime
