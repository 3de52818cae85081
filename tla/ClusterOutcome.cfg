SPECIFICATION ClusterSpec
CONSTANTS
  ClusterOps = {o1, o2}
  MaxPolls = 2
  MaxBoots = 0
  MaxLost = 0
PROPERTY
  OutcomeStands
