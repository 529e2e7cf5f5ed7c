SPECIFICATION Spec
CONSTANTS
  Instruments = {g}
  g = g
  Levels <- MCLevels
  Unobservable = Unobservable
  RequiredFrames = 2
  LiveReference = FALSE
  WindowLength = 1
  Settling = 1
  Uncertainty = 0
  ResultMaxAge = 1
  MaxTime = 5
  MaxVersion = 7
INVARIANTS
  WindowsAreHandled
CHECK_DEADLOCK FALSE
