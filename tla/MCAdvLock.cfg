CONSTANTS
  p1 = p1
  p2 = p2
  s1 = s1
  s2 = s2
  Proc = {p1, p2}
  Slot = {s1, s2}
  slotOf <- MCSlotOf
  fileOf <- MCFileOf
  File = {f}
  Eof = 3
  Ranges <- MCRanges
  MaxLocks = 3
  MaxEdges = 2
  NoSlot = NoSlot
  NoReq = NoReq
SPECIFICATION Spec
SYMMETRY Symmetry
INVARIANTS TypeOK Exclusive Coalesced EdgesAcyclic NoLostWakeup
PROPERTIES ImplementsPosix ImplementsFlock
