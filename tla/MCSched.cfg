CONSTANTS
  Task = {t1, t2}
  Cpu = {c1, c2}
  Bsp = c1
  Idle = Idle
  NoCpu = NoCpu
  DeferMax = 1
  IrqWakes = FALSE
  Signalled = {t2}
SPECIFICATION Spec
INVARIANTS TypeOK  NoTaskLost 
PROPERTY NoResurrection
