SPECIFICATION Spec
CONSTANTS
  \* voice detection
  NVadFrames = 5
  FrameSizes = {1, 2}
  FramePauses = {0, 2}
  VadHysteresis <- VadHysteresisOf
  VadSilence <- VadSilenceOf
  VadPeakHold <- VadPeakHoldOf
  HoldStep = 2
  PreBuffer = 2
  MinSpeech = 3
  MinSpan = 2
  MaxSpan = 6
  MergeGap = 2
  \* the streaming engine
  NPushed = 6
  Pushes = {1, 3}
  NStreamResets = 1
  BufferSize = 4
  Window = 2
  WindowOverlap = 1
  MinChunk = 1
  MinFlush = 2
  Texts = {a, b}
  Complete = {a}
  Latencies = {1, 7}
  Target = 5
  MinBeam = 1
  MaxBeam = 2
  LatencyHistory = 3
  Stabilization = 2
  Trusted <- TrustedOf
  \* the whisper transcriber
  NSubmits = 5
  MaxQueue = 2
  NWhisperStarts = 2
  \* the refiner and the coach
  LongWords = {w}
  ShortWords = {s}
  ForeignWords = {f}
  Sign = sign
  RefinerTexts <- RefinerTextsOf
  Answers = 4
  LanguageModels = {m1, m2}
  NRefines = 2
  NCoachings = 2
  CoachTexts = {t1, t2}
  CacheLimit = 2
  NCalls = 3
  NWriteFailures = 1
  NServiceRestarts = 1
  \* the settings file
  FileNames = {"theme", "default_asr_model_id", "coach_provider_base_url", "unknown"}
  NGiven = 1
  OldVersions = {0, 4, 6}
  NChanges = 2
  NSaveFailures = 1
CHECK_DEADLOCK FALSE
INVARIANTS
  VadInv
  StreamingInv
  WhisperInv
  TextInv
  SettingsFileInv
