\* The profile "balanced" with the limits of fast_chunker.py: a unit is 50 ms.
SPECIFICATION ChunkingSpec
CONSTANTS
  Base = 20
  Overlap = 4
  MinSize = 2
  MaxSize = 8
  HysteresisSize = 3
  DensityWindow = 4
  Blocks = {2}
  NBlocks = 8
CHECK_DEADLOCK FALSE
INVARIANT EverySampleIsKept
