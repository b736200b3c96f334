SPECIFICATION Spec
CONSTANTS
  c1 = c1
  p1 = p1
  p2 = p2
  Nfiles = 3
  Clients <- MCClients
  Pids <- MCPids
  CgiLimit = 2
  OccasionalTime = 1
  CgiTimeLimit = 1
  HardKillTime = 1
  MaxStarts = 2
SYMMETRY Symmetry
INVARIANTS
  TypeOK
  ArraysExact
  ChildrenCounted
  KillArmed
  WatchdogExact
PROPERTIES
  IsFdSet
