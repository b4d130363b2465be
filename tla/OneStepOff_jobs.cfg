SPECIFICATION JobSpec
CONSTANTS
  BatchSize = 1
  Sessions = 2
  Threshold = 2
  SyncStep = 1
  MaxMishaps = 1
  TotalSteps = 3
  MaxStep = 4
  MaxKeep = 2
  Absent = Absent
  Torn = Torn
  Ranks = 2
  MiniBatch = 6
  Warmup = 1
  SaveFreq = 1
  Lengths = {1, 4}
  MaxCrashes = 1
INVARIANTS JobTypeOK JobNamesWhole DiskBounded JobPromptsOnce SkipsBounded AgeBounded WholeGroups V1SharesBalanced
PROPERTY JobEnds
CHECK_DEADLOCK FALSE
