CONSTANTS
  MaxNode = 6
  Name = {"a", "b", "f", "m", "tmp"}
  MaxSymlinkDepth = 2
  MaxSocket = 2
  MaxQueue = 1
  MaxPid = 2
  MaxFd = 5
  MaxOpen = 2
  MaxBytes = 3
  OpenedNode = 3
  Paths <- MCPaths
  Tree <- MCTree
  OpenedPath <- MCOpenedPath
  Mounts <- MCMounts
  OpenFlags <- MCOpenFlags
  Programs <- MCPrograms
SPECIFICATION Spec
INVARIANTS
  DescriptorsSound
  ExclusiveCreate
  SharedWrites
PROPERTIES
  NameIsKept
  RecvEnds
CHECK_DEADLOCK FALSE
