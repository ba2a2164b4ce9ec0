SPECIFICATION Spec
CONSTANTS
  System = System
  Owners = {System, o1}
  Times = {1, 2}
  MaxSize = 6
INVARIANT
  CancelAllCancelsAll
