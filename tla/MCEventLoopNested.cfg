CONSTANTS
  e1 = e1
  e2 = e2
  e3 = e3
  l1 = l1
  a1 = a1
  a2 = a2
  p = p
  System = System
  Broadcast = Broadcast
  Nowhere = Nowhere
  Null = Null
  Events = {e1, e2, e3}
  kMaxEventCount = 3
  Posters = {p}
  Nanoapps = {a1, a2}
  Targets = {a1, a2, Broadcast}
  MaxPosts = 3
  MemoryRunsOut = FALSE
  StartMayFail = FALSE
  LoopSeq <- OneLoop
  LoopOf <- BothOnOne
  InitNanoapps <- BothRunning
  HostRequests <- UnloadBoth
SYMMETRY Slots
SPECIFICATION Spec
INVARIANT StoppingNanoappIsSilent
CHECK_DEADLOCK FALSE
