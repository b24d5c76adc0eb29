SPECIFICATION Spec
CONSTANTS
  Order <- PairOrder
  Interval <- MCInterval
  Offset <- MCOffset
  FlowOf <- MCFlowOf
  FlowLimit <- TwoPerFlow
  Groups <- FlowGroups
  Critical = {"ads"}
  AllowOverlap = {"ads"}
  Retryable = {"ads"}
  MaxDispatch = 1
  DepthHigh = 3
  DepthLow = 1
  ReloadEvery = 2
  Legacy = TRUE
  Holds = TRUE
  MaxManual = 1
  MaxRetrying = 1
  MaxToggles = 0
  MaxRestarts = 0
  MaxMinute = 0
  None = None
INVARIANTS LimitsRespected
