SPECIFICATION FairSpec
CONSTANTS
  Kinds = {"live_microphone", "uploaded_file"}
  LiveReference = FALSE
  MaxFaults = 1
  MaxBlocks = 5
  RingCapacity = 1
  QueueCapacity = 1
  WindowSize = 2
  Hop = 1
INVARIANTS
  TypeOK
  WindowsAreWhole
  AcquisitionGoesOn
PROPERTIES
  LossIsTold
  EndsForAll
CHECK_DEADLOCK FALSE
