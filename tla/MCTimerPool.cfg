SPECIFICATION Spec
CONSTANTS
  a1 = a1
  a2 = a2
  main = main
  other = other
  System = System
  Nanoapps = {a2}
  Loops = {main, other}
  MainLoop = main
  LoopOf <- MCLoopOf
  Durations = {1, 2}
  kMaxTimerRequests = 3
  kNumReservedNanoappTimers = 2
  kMaxNanoappTimers = 2
  CHRE_TIMER_INVALID = 4
  AlreadyFired = 99
  MaxTime = 1
  AllowWrap = TRUE
INVARIANTS
  TypeOK
  CountsExact
  UniqueHandles
  NoTimerForgotten
  FiredAwaitsCallback
  NoEarlyTimerEvent
