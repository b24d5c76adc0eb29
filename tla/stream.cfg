SPECIFICATION StreamSpec
CONSTANTS
  Window = 2
  Kept = 3
  SeenLimit = 2
  Period = 1
  AlwaysNew = FALSE
  MaxEvents = 3
  MaxErrors = 2
  MaxReads = 2
  MaxRenders = 1
INVARIANTS TimelineFaithful OneSource
PROPERTIES Reconnects 
CHECK_DEADLOCK FALSE
