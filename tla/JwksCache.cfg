SPECIFICATION Spec
CONSTANTS
  Tasks = {t1, t2}
  Kids = {k1, k2}
  TTL = 2
  Start = 2
  Latency = 1
  MaxTime = 6
  MaxRotations = 2
INVARIANTS
  OneFetch
  RetiredKeysExpire
  RejectedOnlyUnknown
PROPERTIES
  RefillOnlyWhenStale
  ValidationsEnd
