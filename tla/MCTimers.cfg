SPECIFICATION Spec
CONSTANTS
  a = a
  b = b
  c = c
  Nil = Nil
  TimerIds <- MCTimerIds
  HashSize = 2
  Delays <- MCDelays
  TicksPerMs = 2
  MsPerSec = 2
  MaxNow = 4
  CancelSaved = FALSE
SYMMETRY Symmetry
INVARIANTS
  TypeOK
  ListsExact
  TimeoutExact
PROPERTIES
  RunFiresAll
  QueueSafety
