CONSTANTS
  Hubs = {h1, h2}
  Threads = {t}
  kMaxMessageHubs = 2
  kMaxSessions = 2
  kReservedSessionId = 2
  kMaxIterations = 1
  MaxCalls = 4
  MaxOpens = 3
SPECIFICATION Spec
INVARIANT HubGoneTold
CHECK_DEADLOCK FALSE
