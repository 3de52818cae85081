SPECIFICATION SafetySpec
CONSTANTS
  Runs = {r1}
  Cancels = {c1}
  Streams = {}
  MaxRuns = 1
  MaxEvents = 3
  MaxLines = 1
INVARIANT
  CancelledRecorded
CHECK_DEADLOCK FALSE
