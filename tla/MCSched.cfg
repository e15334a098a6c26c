CONSTANTS
  Cpu = {c1, c2}
  Boot = c1
  Thread = {t1, t2}
  Queue = {q1}
  None = None
  Root <- MCRoot
  TimeSlice = 2
  MaxSleep = 2
SPECIFICATION FairSpec
INVARIANTS
  NoSharedStack
  ParkedIsSaved
PROPERTIES
  ReadyRuns
  SleeperWakes
