CONSTANTS
  Task = {t1, t2}
  Cpu = {c1}
  Bsp = c1
  Idle = Idle
  NoCpu = NoCpu
  DeferMax = 4
  IrqWakes = TRUE
  Signalled = {}
SPECIFICATION Spec
PROPERTY NoResurrection
