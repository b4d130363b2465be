SPECIFICATION Spec
CONSTANTS
  None = None
  MaxQueueSize = 4
  Required = 1
  Trigger = 2
  ThrNum = 1
  ThrDen = 1
  Slots = 2
  Total = 3
  PendingCap = 1
  MaxFailures = 0
  SaveFreq = 1
  TestFreq = 2
  MayExpire = FALSE
INVARIANT LastStepSaved
