CONSTANTS
  MaxFrame = 12
  MaxPid = 2
  Levels = 2
  Fanout = 4
  Arch = "x86_64"
  Stack = {7}
  BrkBase = 1
  MmapBase = 4
  Images <- MCImages
  Ranges <- MCRanges
  Flags <- MCFlags
  Programs <- MCPrograms
SPECIFICATION Spec
INVARIANTS
  NoFrameShared
  HardwareIsKnown
  PagesKeepBytes
CHECK_DEADLOCK FALSE
