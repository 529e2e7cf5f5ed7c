SPECIFICATION Spec
CONSTANTS
  Instruments = {g}
  g = g
  Levels <- MCSigned
  Unobservable = Unobservable
  RequiredFrames = 2
  LiveReference = FALSE
  WindowLength = 2
  Settling = 1
  Uncertainty = 0
  ResultMaxAge = 2
  MaxTime = 6
  MaxVersion = 6
INVARIANTS
  TypeOK
  SnapshotAccepted
  PartsAgree
PROPERTIES
  IncidentsEndInOrder
  ChangesAreVersioned
  TargetChangesClean
  OpensOnUnbrokenRun
CHECK_DEADLOCK FALSE
