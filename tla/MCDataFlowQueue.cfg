CONSTANTS
  kBlockCapacity = 2
  MinBlocks = 2
  MaxBlocks = 2
  Consumers = {c1}
  Overwritables = {TRUE}
  Features = {}
  Counts = {1}
  MaxWrites = 9
  NoBlock = NoBlock
SPECIFICATION Spec
INVARIANT OverwrittenIsTold
CHECK_DEADLOCK FALSE
