\* Three addresses: a heap of two levels that is rebuilt under re-entrant calls,
\* ids that collide, finite timers with and without an endless one beside them.
SPECIFICATION FairSpec
CONSTANTS
  Nodes = {1, 2, 3}
  Requests <- MixedRequests
  ClockSteps <- Forward
  MaxId = 1
  IntLimit = 8
  MaxTime = 2
  LastAdd = 0
INVARIANTS
  TypeOK
  PositionsAgree
  HeapMapAgree
PROPERTIES
  TimerServiceSpec
  CheckTimeoutReturns
  TimersDrain
