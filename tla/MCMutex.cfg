SPECIFICATION MutexFairSpec
CONSTANTS
  t1 = t1
  t2 = t2
  t3 = t3
  t4 = t4
  m = m
  None = None
  Task = {t1, t2, t3, t4}
  Sem <- MCSem
INVARIANTS
  MutualExclusion
  FreeIsNoticed
PROPERTIES
  LockReturns
