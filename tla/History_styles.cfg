\* The service as server.py makes it: the StyleService writes first.
SPECIFICATION HistorySpec
CONSTANTS
  HistoryIds = {i1}
  WordIds = {w1}
  HistoryThreads = {t1, t2}
  RetryWorkers = {k1, k2}
  StylesAreSeeded = TRUE
  NIngests = 2
  NHistoryCalls = 3
  NRestarts = 1
CHECK_DEADLOCK FALSE
INVARIANT FinishedIsInHistory
