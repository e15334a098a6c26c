SPECIFICATION MountSpec
CONSTANTS
  Block <- MCBlock
  Value <- MCValue
  Zero <- MCZero
  Supers <- MCSupers
  Descs <- MCDescs
  Unit <- MCUnit
  BitmapOf <- MCBitmapOf
  MaxBlocks = 3
  MaxFaults = 2
CHECK_DEADLOCK FALSE
INVARIANTS
  UnmountIsDurable
  CleanIsConsistent
