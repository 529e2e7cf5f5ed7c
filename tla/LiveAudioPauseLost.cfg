SPECIFICATION Spec
CONSTANTS
  MaxCommands = 1
  MaxRestarts = 0
  Candidates = 1
  Faults = {}
  Deletions = {}
  MaxGeneration = 5
INVARIANTS
  PauseHolds
CHECK_DEADLOCK FALSE
