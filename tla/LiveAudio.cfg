SPECIFICATION Spec
CONSTANTS
  MaxCommands = 2
  MaxRestarts = 1
  Candidates = 1
  Faults = {}
  Deletions = {"refused"}
  MaxGeneration = 5
INVARIANTS
  TypeOK
  FreshIsCurrent
  Ownership
  PendingIsServed
PROPERTIES
  HaltsForGood
  Fenced
CHECK_DEADLOCK FALSE
