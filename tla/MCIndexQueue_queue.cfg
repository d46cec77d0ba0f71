CONSTANTS
  Producers = {p1, p2}
  Capacity = 1
  MaxCalls = 2
  NoBatch = NoBatch
SPECIFICATION FairSpec
INVARIANT TypeOK
INVARIANT DepthBounds
INVARIANT DropGaugeBound
PROPERTY FifoSafety
PROPERTY FifoLiveness
PROPERTY AcceptedIsIndexed
CHECK_DEADLOCK FALSE
