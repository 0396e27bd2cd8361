CONSTANTS
  RxDepth = 3
  MaxStalls = 5
SPECIFICATION FairSpec
INVARIANTS QueueFull EndsWithNotice
PROPERTIES EndpointContract HaltCleared StopEndsThread
CHECK_DEADLOCK FALSE
