SPECIFICATION Spec
CONSTANTS
  s1 = s1
  s2 = s2
  none = none
  None = none
  Sessions <- MCSessions
  Existing <- MCExisting
  Retention = 1
  Asks = {"open", "leave", "command", "delete", "create"}
  Losable = {"open", "openProbe", "event", "recover", "recoverProbe", "command", "delete", "create", "stop"}
  MaxAsks = 2
  MaxCalls = 3
  MaxFaults = 1
  MaxSequence = 2
INVARIANTS
  TypeOK
  RepairInHand
PROPERTIES
  Follows
  UnusedIsStopped
  CatchesUp
\* The operator may leave, and the sessions may end.
CHECK_DEADLOCK FALSE
