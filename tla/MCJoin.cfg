CONSTANTS
  t1 = t1
  t2 = t2
  Thread = {t1, t2, t3, t4}
  p1 = p1
  p2 = p2
  Space = {p1}
  space <- OneSpace
  b1 = b1
  b2 = b2
  Lock = Lock
  CondSeq = CondSeq
  Addr <- MCAddr
  Bucket = {b1, b2}
  hash <- MCHash
  NoBucket = NoBucket
  NULL = NULL
  Nobody = Nobody
  Bits = {x}
  PoolSize = 2
  MaxVal = 2
  Kind = "NORMAL"
  Born = {t1}
  Ops = {"create", "join", "detach"}
  MaxSeq = 0
  MaxDepth = 0
SPECIFICATION PthreadSpec
INVARIANTS NoLostJoin NoFreeWhileRunning
PROPERTY JoinReturns
CHECK_DEADLOCK FALSE
