SPECIFICATION FairSpec
CONSTANTS
  Order <- MixOrder
  Interval <- EachSecond
  Offset <- NoOffset
  FlowOf <- MCFlowOf
  FlowLimit <- NoFlowLimit
  Groups <- FlowGroups
  Critical = {"ads"}
  AllowOverlap = {}
  Retryable = {}
  MaxDispatch = 2
  DepthHigh = 2
  DepthLow = 1
  ReloadEvery = 2
  Legacy = TRUE
  Holds = FALSE
  MaxManual = 0
  MaxRetrying = 1
  MaxToggles = 3
  MaxRestarts = 1
  MaxMinute = 1
  None = None
INVARIANTS MemoryBounded
PROPERTIES PressureReleased 
