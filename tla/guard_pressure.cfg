SPECIFICATION FairSpec
CONSTANTS
  Order <- PairOrder
  Interval <- EachSecond
  Offset <- NoOffset
  FlowOf <- MCFlowOf
  FlowLimit <- NoFlowLimit
  Groups <- FlowGroups
  Critical = {"ads"}
  AllowOverlap = {}
  Retryable = {}
  MaxDispatch = 2
  DepthHigh = 2
  DepthLow = 1
  ReloadEvery = 2
  Legacy = FALSE
  Holds = FALSE
  MaxManual = 1
  MaxRetrying = 1
  MaxToggles = 0
  MaxRestarts = 0
  MaxMinute = 0
  None = None
PROPERTY PressureReleased
