SPECIFICATION FairSpec
CONSTANTS
  Calls = {c1, c2}
  None = None
  NArtifacts = 2
  Optional = {2}
  Blocks = 3
  MinBlocks = 1
  MaxAttempts = 2
  MaxFaults = 3
CHECK_DEADLOCK FALSE
CONSTRAINT CalmOverrun
INVARIANTS
  DownloadInv
  InstalledIsWhole
PROPERTIES
  CompletedHasAll
  CallsEnd
