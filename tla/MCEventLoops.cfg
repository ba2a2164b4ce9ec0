CONSTANTS
  e1 = e1
  e2 = e2
  e3 = e3
  l1 = l1
  l2 = l2
  a1 = a1
  a2 = a2
  p = p
  System = System
  Broadcast = Broadcast
  Nowhere = Nowhere
  Null = Null
SYMMETRY Slots
SPECIFICATION Spec
INVARIANT TypeOK
INVARIANT RefCountsExact
INVARIANT QueueHasRoom
INVARIANT UnloadLeavesNoEvents
INVARIANT StoppingNanoappIsSilent
PROPERTY NoLeakedEvent
PROPERTY FreeCallbackOnce
CHECK_DEADLOCK FALSE
