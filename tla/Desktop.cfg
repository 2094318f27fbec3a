SPECIFICATION Spec
CONSTANTS
  NConfigs = 2
  NPresses = 2
  HookWorks = TRUE
  NOverlays = 2
  NWords = 1
  OverlayChannel = 0
  SettingKeys = {k1, k2}
  NEdits = 2
  StoreDeaths = 1
  Base = 4
  Overlap = 1
  MinSize = 2
  MaxSize = 8
  HysteresisSize = 3
  DensityWindow = 4
  Blocks = {2, 7, 13}
  NBlocks = 4
  NFrames = 7
  Hysteresis = 2
  MinSilence = 1
  PreFrames = 2
  EarlyFrames = 3
  Boundary = 2
  MinSegment = 2
  MaxSegment = 4
  RingSize = 3
  OutputSize = 2
CHECK_DEADLOCK FALSE
INVARIANTS
  ShownInv
  SettingsInv
  CuttingInv
