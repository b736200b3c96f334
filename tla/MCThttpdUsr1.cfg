SPECIFICATION FairSpec
CONSTANTS
  fd1 = fd1
  fd2 = fd2
  t1 = t1
  t2 = t2
  NoFd = NoFd
  NoTimer = NoTimer
  MaxConnects = 2
  Fds <- MCFds
  TimerIds <- MCTimerIds
  ListenFds = {4}
  MaxBacklog = 1
  MaxIO = 1
  IdleReadLimit = 1
  IdleSendLimit = 1
  IdlePeriod = 1
  LingerTime = 1
  WakeDelays <- MCWakeDelays
PROPERTY
  Usr1Exits
