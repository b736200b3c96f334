SPECIFICATION FairSpec
CONSTANTS
  a = a
  b = b
  c = c
  Nil = Nil
  TimerIds <- MCTwoTimers
  HashSize = 2
  Delays <- MCDelays
  TicksPerMs = 2
  MsPerSec = 2
  MaxNow = 5
  CancelSaved = FALSE
PROPERTIES
  DueTimersRun
