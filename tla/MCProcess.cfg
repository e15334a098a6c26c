SPECIFICATION FairSpec
CONSTANTS
  MaxPid = 3
  Signal = {9, 17}
  Handlers <- MCHandlers
  Masks = {{}, {9, 17}}
  Programs <- MCPrograms
  MaxTokens = 1
  MaxFrames = 1
  Arch = "x86_64"
INVARIANTS
  NoLostWakeup
  TableIsSound
PROPERTIES
  MaskIsKept
  ZombieIsReaped
CHECK_DEADLOCK FALSE
