CONSTANTS
  e1 = e1
  e2 = e2
  e3 = e3
  l1 = l1
  a1 = a1
  a2 = a2
  p = p
  System = System
  Broadcast = Broadcast
  Nowhere = Nowhere
  Null = Null
  Events = {e1, e2, e3}
  kMaxEventCount = 3
  Posters = {p}
  Nanoapps = {a1, a2}
  Targets = {a1, a2, Broadcast}
  MaxPosts = 3
  MemoryRunsOut = FALSE
  StartMayFail = TRUE
  LoopSeq <- OneLoop
  LoopOf <- BothOnOne
  InitNanoapps <- FirstRunning
  HostRequests <- StartOther
SYMMETRY Slots
SPECIFICATION Spec
INVARIANT UnloadLeavesNoEvents
CHECK_DEADLOCK FALSE
