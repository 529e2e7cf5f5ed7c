SPECIFICATION Spec
CONSTANTS
  Instruments = {g}
  g = g
  Levels <- MCTwoLevels
  Unobservable = Unobservable
  RequiredFrames = 2
  LiveReference = TRUE
  WindowLength = 1
  Settling = 0
  Uncertainty = 0
  ResultMaxAge = 1
  MaxTime = 4
  MaxVersion = 7
INVARIANTS
  OwnSourceEvidence
CHECK_DEADLOCK FALSE
