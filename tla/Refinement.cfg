SPECIFICATION FairSpec
CONSTANTS
  Sessions = {s1, s2}
  MaxSegments = 3
CHECK_DEADLOCK FALSE
INVARIANTS
  JobsInv
PROPERTIES
  TakesNewest
  ShownInOrder
  ShutdownEndsRefining
  JobsEnd
