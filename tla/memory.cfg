SPECIFICATION MemoryFairSpec
CONSTANTS
  w1 = w1 w2 = w2
  Workers <- TwoSlots
  Threshold = 2
  Base = 1
  CapSetting = 4
  Unit = 120
  Overlaps = FALSE
  MaxRetry = 1
  MaxFails = 5
  MaxPending = 2
INVARIANTS CooldownsRespected CounterFaithful
 
