CONSTANTS
  Reader = {r1}
  Writer = {w1}
  Size = 2
  CountMod = 16
  MaxReq = 2
  MaxBytes = 2
  MaxSignals = 0
  WindowPreempt = FALSE
  None = None
SPECIFICATION Spec
INVARIANT NoUseAfterFree
CHECK_DEADLOCK FALSE
