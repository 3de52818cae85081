SPECIFICATION Spec
CONSTANTS
  Tasks = {t1, t2, t3}
  Users = {u1, u2}
  Margin = 1
  Lives = {0, 3}
  MaxTime = 3
INVARIANTS
  OwnToken
  CachedTokenLives
PROPERTIES
  ReplacedOnlyWhenOver
  RequestsEnd
