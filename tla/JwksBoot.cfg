SPECIFICATION Spec
CONSTANTS
  Tasks = {t1}
  Kids = {k1, k2}
  TTL = 3
  Start = 0
  Latency = 1
  MaxTime = 5
  MaxRotations = 2
INVARIANT
  RejectedOnlyUnknown
