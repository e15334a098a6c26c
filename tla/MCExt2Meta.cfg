SPECIFICATION Spec
SYMMETRY Symmetry
CONSTANTS
  DirBlock = 14
  Name = {"a", "b", "long"}
  NameLength <- MCLength
  MaxBlock = 10
  BlocksPerGroup = 5
  MaxInode = 4
  InodesPerGroup = 2
  Direct = 1
  Ptrs = 2
  Levels = 2
  Handle = {h1, h2}
  MaxFaults = 1
  MaxSize = 5
  Device = 2
  Plans <- MCPlans
  Faulty <- MCFaulty
  UseDetached = FALSE
INVARIANTS
  Accounted
  LinksMatch
  DirectoriesFormTree
  DirectoriesSound
CHECK_DEADLOCK FALSE
