CONSTANTS
  App1 = App1
  App2 = App2
  App3 = App3
  Item1 = Item1
  Item2 = Item2
  System = System
SYMMETRY Symmetry
SPECIFICATION Spec
INVARIANT TypesOK
INVARIANT RequestsAnsweredOnce
INVARIANT AnswersMeetTheirRequests
INVARIANT NoRequestStranded
INVARIANT PlatformFollowsRequests
INVARIANT ReceiversAreRegistered
 
INVARIANT BuffersReleasedOnce
INVARIANT RecordsTellOutcomes
INVARIANT NanoappsKnowTheState
INVARIANT SessionsConsistent
INVARIANT ConsumersGetWhatWasPushed
PROPERTY ImplementsTimerBag
PROPERTY ImplementsService
PROPERTY AtMostOncePerWindow
PROPERTY ImplementsFifo
CHECK_DEADLOCK FALSE
