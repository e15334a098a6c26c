SPECIFICATION VirtioFairSpec
CONSTANTS
  t1 = t1
  t2 = t2
  Irq = Irq
  None = None
  Task = {t1, t2, Irq}
  Sem <- MCSem
  MaxStale = 2
INVARIANTS
  BuffersLive
PROPERTIES
  RequestReturns
