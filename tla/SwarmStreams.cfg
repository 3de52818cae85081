SPECIFICATION StreamsSpec
CONSTANTS
  Runs = {r1, r2}
  Watched = {r1}
  Cancels = {c1}
  Streams = {s1, s2}
  MaxRuns = 1
  MaxEvents = 3
  MaxLines = 1
INVARIANT
  SoleViewerComplete
PROPERTY
  ViewerSeesDone
CHECK_DEADLOCK FALSE
