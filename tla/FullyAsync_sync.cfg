SPECIFICATION Spec
CONSTANTS
  None = None
  MaxQueueSize = 3
  Required = 1
  Trigger = 3
  ThrNum = 0
  ThrDen = 1
  Slots = 2
  Total = 7
  PendingCap = 1
  MaxFailures = 1
  SaveFreq = 2
  TestFreq = 0
  MayExpire = TRUE
INVARIANTS OnPolicy SyncNeverDrops OverBudgetByOneAtMost SamplesAccounted
