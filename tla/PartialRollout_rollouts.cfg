SPECIFICATION FairSpec
CONSTANTS
  Modes = {"standalone", "validating", "separate", "colocated"}
  Servers = {s1, h1}
  Standalone = {s1}
  Hybrid = {h1}
  Requests = {r1, v}
  Validation = {v}
  NoServer = NoServer
  Torn = Torn
  NoLabel = NoLabel
  CacheSize = 1
  MaxVersion = 2
  TestFreq = 1
  PromptLength = 2
  ResponseLength = 2
  MaxModelLen = 4
  PromptTokens = 1
  Limited = {r1}
  CallerLimit = 2
INVARIANTS TypeOK LoadExact LabelsEncloseTokens QuietTransfer WithinCallerLimit PoolInSync
PROPERTIES RequestsEnd UpdatesEnd
