SPECIFICATION HeapSpec
CONSTANTS
  MaxFrame = 6
  MaxRegions = 4
  MaxCount = 4
  MaxAdds = 3
  Task = {t1, t2}
  Page = 2
  GrowPages = 2
  Layouts <- MCLayouts
  MaxLive = 3
  HeapMemory <- MCHeapMemory
SYMMETRY MCSymmetry
INVARIANTS
  BootSucceeds
  MemoryExact
  Exclusive
  ScanFindsFirst
  HeapSound
\* a machine without free memory stops after its boot
CHECK_DEADLOCK FALSE
