SPECIFICATION FairSpec
CONSTANTS
  Starts = {s1, s2}
  Stops = {p1}
  None = None
  MaxChunks = 1
  QueueCap = 1
  MaxFaults = 1
  Serialised = TRUE
CHECK_DEADLOCK FALSE
PROPERTIES
  ImplementsDictation
  StopsAnswered
  StoppedIsReleased
