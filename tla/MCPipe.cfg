CONSTANTS
  Reader = {r1}
  Writer = {w1}
  Size = 2
  CountMod = 16
  MaxReq = 3
  MaxBytes = 4
  MaxSignals = 1
  WindowPreempt = TRUE
  None = None
SPECIFICATION Spec
INVARIANTS TypeOK Fifo CountInRing
PROPERTIES Woken ImplementsChannel
CHECK_DEADLOCK FALSE
