SPECIFICATION FairSpec
CONSTANTS
  Starts = {s1, s2}
  Stops = {p1}
  None = None
  MaxChunks = 0
  QueueCap = 2
  MaxFaults = 0
  Serialised = FALSE
CHECK_DEADLOCK FALSE
PROPERTY StartsReturn
