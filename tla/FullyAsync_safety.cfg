SPECIFICATION FairSpec
CONSTANTS
  None = None
  MaxQueueSize = 4
  Required = 1
  Trigger = 2
  ThrNum = 1
  ThrDen = 1
  Slots = 2
  Total = 7
  PendingCap = 1
  MaxFailures = 1
  SaveFreq = 1
  TestFreq = 2
  MayExpire = FALSE
INVARIANTS TypeOK AccountingInv PauseLeavesEnough DropsBounded ConcurrencyBounded FreshSamples CheckpointMatchesName
PROPERTIES ImplementsStream TrainingEnds
