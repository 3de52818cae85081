SPECIFICATION SwarmSpec
CONSTANTS
  Runs = {r1, r2}
  Watched = {r1}
  Cancels = {c1, c2}
  Streams = {}
  MaxRuns = 1
  MaxEvents = 2
  MaxLines = 2
  N = 2
  Models = 2
  Posts = 2
  Answers <- SmallAnswers
  MaxClock = 2
  Patches = {q1, q2}
  Bodies <- SmallBodies
  ChartPool <- SmallPool
  Capacity = 2
  Tolerations = {"kata", "other"}
  Labels = {"runtime", "zone"}
  NodeLabel = "runtime"
  LabelValues = {"kata", "vm"}
  MaxTolerations = 2
  SessionIds = {s1, s2}
  Users = {u1, u2}
  Pods = {p1, p2}
  Requests = {a1, a2}
SYMMETRY Interchangeable
INVARIANTS
  EventsBounded
  CompletedMeansOk
  CancelledIsDying
  ReplayEndsWithDone
  RowsSettled
  WinnerRepairs
  ConsistentUnlessStale
  AdmittedAsMeant
  RequestsAccounted
CHECK_DEADLOCK FALSE
