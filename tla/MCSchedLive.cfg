CONSTANTS
  Task = {t1}
  Cpu = {c1, c2}
  Bsp = c1
  Idle = Idle
  NoCpu = NoCpu
  DeferMax = 1
  IrqWakes = TRUE
  Signalled = {t1}
SPECIFICATION FairSpec
PROPERTY OwedIsPaid
