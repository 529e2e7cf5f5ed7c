SPECIFICATION Spec
CONSTANTS
  None = None
  Instruments = {guitar}
  WindowSamples = 2
  Hops = {1, 3}
  FrameRetention = 3
  AuditRetention = 2
  AuditsPerWindow = {0, 2}
  PcmLimit = 7
  MaxTakes = 4
CHECK_DEADLOCK FALSE
INVARIANTS
  OneHistory
  ContextIsOfItsAudio
  CoverageIsExact
  EvictionEnds
