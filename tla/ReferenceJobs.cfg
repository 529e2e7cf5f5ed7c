SPECIFICATION Spec
CONSTANTS
  MaxSongs = 2
  MaxJobs = 3
  MaxFaults = 1
INVARIANTS
  TypeOK
  PreparedBeforeTold
PROPERTY
  JobsEnd
\* The bounds on songs and jobs end it.
CHECK_DEADLOCK FALSE
