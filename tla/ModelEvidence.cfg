SPECIFICATION Spec
CONSTANTS
  Datasets <- MCDatasets
  Scores <- MCScores
  NoScore = NoScore
  EdgeLists <- MCEdgeLists
  Versions = 2
  MinimumCount = 2
  Score <- MCScore
  Room <- MCRoom
INVARIANTS
  NumbersAreBacked
  RowsAreFound
\* A directory whose records are all written may be left alone.
CHECK_DEADLOCK FALSE
