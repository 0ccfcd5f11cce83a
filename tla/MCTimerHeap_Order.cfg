\* The heap is not ordered by deadline.
SPECIFICATION Spec
CONSTANTS
  Nodes = {1, 2}
  Requests <- OneShotRequests
  ClockSteps <- Forward
  MaxId = 2
  IntLimit = 8
  MaxTime = 2
  LastAdd = 2
INVARIANT SmallerUp
