SPECIFICATION Spec
CONSTANTS
  Starts = {s1, s2}
  Stops = {p1, p2}
  None = None
  MaxChunks = 3
  QueueCap = 2
  MaxFaults = 1
  Serialised = FALSE
CONSTRAINT HearsAlone
SYMMETRY Symmetry
CHECK_DEADLOCK FALSE
INVARIANTS
  RecordingInv
  SettledAnswer
  LateCommitsBounded
  CancelDiscardsText
  QuietMeansIdle
PROPERTIES
  AnswerOnce
  NonEmptyAnswer
  RestartNeverReturns
