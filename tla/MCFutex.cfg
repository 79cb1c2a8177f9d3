CONSTANTS
  Thread = {t1, t2, t3}
  p1 = p1
  Space = {p1}
  space <- MCSpace
  a1 = a1
  a2 = a2
  a3 = a3
  b1 = b1
  b2 = b2
  Addr = {a1, a2, a3}
  Bucket = {b1, b2}
  hash <- MCHash
  NoBucket = NoBucket
  NULL = NULL
  Bits = {x}
  PoolSize = 2
  MaxVal = 1
SPECIFICATION FutexSpec
INVARIANTS FutexTypeOK LinkedSound NoLostWakeup
PROPERTY TimedWaitEnds
