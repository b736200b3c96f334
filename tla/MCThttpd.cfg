SPECIFICATION Spec
CONSTANTS
  fd1 = fd1
  fd2 = fd2
  t1 = t1
  t2 = t2
  NoFd = NoFd
  NoTimer = NoTimer
  MaxConnects = 2
  Fds <- MCFds
  TimerIds <- MCTimerIds
  ListenFds = {4, 6}
  MaxBacklog = 1
  MaxIO = 2
  IdleReadLimit = 1
  IdleSendLimit = 2
  IdlePeriod = 1
  LingerTime = 1
  WakeDelays <- MCWakeDelays
SYMMETRY Symmetry
INVARIANTS
  TypeOK
  FreeListExact
  CountExact
  WatchExact
  TimersExact
  FileHeld
  SendingNotCut
PROPERTIES
  PoolSafety
