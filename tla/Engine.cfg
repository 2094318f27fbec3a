SPECIFICATION Spec
CONSTANTS
  NStarts = 2
  Stops = {s1}
  SessionEvents = 2
  Loaders = {t1, t2}
  Models = {k1, k2, k3}
  MaxModels = 2
  Asks = 5
  NPreloads = 3
  CacheModels = {m1, m2}
  NChunks = 3
  QueueLimit = 1
  NRuns = 2
  Faults = 2
  DeskCallers = {d1, d2}
  NDeskCalls = 3
  NRecordings = 2
  DeskBuffer = 2
  TooShort = 1
  DeskLate = 1
  NSystemStarts = 2
  NSegments = 1
  SystemExports = {e1}
  NSwitches = 3
  NOffers = 3
  EngineQueue = 2
  WindowChunks = 2
CHECK_DEADLOCK FALSE
INVARIANTS
  SessionInv
  PoolInv
  TranscriberInv
  RecordersInv
  ModeInv
PROPERTIES
  EngineProgress
