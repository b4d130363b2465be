SPECIFICATION Spec
CONSTANTS
  BatchSize = 1
  Sessions = 2
  Threshold = 2
  SyncStep = 1
  MaxMishaps = 1
  TotalSteps = 3
  MaxStep = 3
  MaxKeep = 1
  Absent = Absent
  Torn = Torn
  Ranks = 2
  MiniBatch = 2
  Warmup = 1
  SaveFreq = 1
  Lengths = {1, 4}
  MaxCrashes = 1
INVARIANT TrackerNamesWhole
CHECK_DEADLOCK FALSE
