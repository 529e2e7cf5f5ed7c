SPECIFICATION FairSpec
CONSTANTS
  MaxCommands = 1
  MaxRestarts = 0
  Candidates = 1
  Faults = {"eof", "model"}
  Deletions = {"done", "refused"}
  MaxGeneration = 4
PROPERTIES
  ComesToRest
  SwitchSettles
CHECK_DEADLOCK FALSE
