SPECIFICATION Spec
CONSTANTS
  NConns = 2
  MaxPerIp = 1
  MaxRevision = 2
  MaxBoots = 2
  MaxGlitches = 1
  MaxTries = 2
  QueueSize = 1
  NSpawns = 5
  MaxBackendRestarts = 2
  RecoveryCallers = {"q1", "q2"}
  NErrors = 3
  MaxRetries = 1
  MaxAttempts = 2
  LastBatch = 2
  LastModel = 1
  MaxHistory = 3
  PipeCallers = {"w1", "w2"}
  NPipeCalls = 4
  NOpens = 3
  NFaults = 2
  MaxPipeErrors = 2
  PipeDevices = {"d1", "d2"}
  HistoryIds = {i1}
  WordIds = {w1}
  HistoryThreads = {t1, t2}
  RetryWorkers = {k1, k2}
  StylesAreSeeded = FALSE
  NIngests = 2
  NHistoryCalls = 3
  NRestarts = 1
  CaptureBackends <- Backends
  CaptureDevices = 2
  MaxQueueItems = 2
  MaxErrorsInRow = 2
  NBlocks = 3
  NGiveUps = 2
  NProbes = 1
CHECK_DEADLOCK FALSE
INVARIANTS
  ClientsInv
  SupervisorInv
  FaultsInv
  KeepingInv
PROPERTIES
  ServerProgress
