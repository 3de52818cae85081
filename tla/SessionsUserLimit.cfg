SPECIFICATION Spec
CONSTANTS
  t1 = t1  t2 = t2
  u1 = u1  u2 = u2
  s1 = s1  s2 = s2  s3 = s3
  w1 = w1  w2 = w2  w3 = w3
  i1 = i1  i2 = i2
  Tasks = {t1, t2}
  Users = {u1}
  LowLatency = {u1}
  SessionIds = {s1, s2}
  WarmPods = {w1, w2}
  Images = {i1}
  Curated = {}
  TagOf <- OneTag
  PodTag <- SamePool
  PerUserLimit = 1
  PlatformLimit = 2
  MaxRestarts = 0
INVARIANT
  UserLimitHolds
