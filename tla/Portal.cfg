SPECIFICATION PortalSpec
CONSTANTS
  ClusterOps = {o1, o2}
  MaxPolls = 2
  MaxBoots = 1
  MaxLost = 1
  Sandboxes = {b1, b2}
  Limit = 1
  Chats = {c1, c2}
  Tokens = {t1, t2}
  NoToken = NoToken
  Deployments = 1
  Attempts = 2
  Execs = {e1, e2}
  Drains = {d1}
  Workers = 1
  Groups = {g1, g2}
  NoGroup = NoGroup
  Replies <- SmallReplies
  MaxTurns = 3
  Tries = 2
INVARIANTS
  InProgressAttended
  HostClean
  OnlyLostRemain
PROPERTIES
  ActionSettles
  AutoExpiredIsGone
  FirstReasonStands
  EndedIsClosed
  RetriesRenewed
  ChatsEnd
  ExecEnds
  AgentEnds
