CONSTANTS
  n1 = n1
  n2 = n2
  Node = {n1, n2}
  Grants <- MCGrants
  NodeCap = 2
  EdgeCap = 1
  Kernel = k
  Writer = {k, w}
  MaxRecords = 6
  FirstOps <- MCFirstOps
  Asked <- MCAsked
  Torn = Torn
  NoSeal = NoSeal
  BadSeal = BadSeal
  MaxBoots = 3
  MaxFaults = 1
  MaxAsks = 2
SPECIFICATION Spec
INVARIANTS TypeOK GraphIsFold FreshGeneration RevokeSticks NothingLostSilently VerdictExplained
CHECK_DEADLOCK FALSE
