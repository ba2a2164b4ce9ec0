CONSTANTS
  App1 = App1
  App2 = App2
  Item1 = Item1
  Loop1 = Loop1
  System = System
  Broadcast = Broadcast
  Nowhere = Nowhere
  NoPointer = NoPointer
SPECIFICATION FairSpec
PROPERTY EveryTimerIsHandled
PROPERTY EveryMessageAnswered
PROPERTY EveryRequestEnds
PROPERTY EveryBufferReleased
PROPERTY EveryDatagramSettles
PROPERTY EveryResetEnds
PROPERTY EveryEventIsFreed
CHECK_DEADLOCK FALSE
