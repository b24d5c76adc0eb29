SPECIFICATION Spec
CONSTANTS
  e1 = e1 e2 = e2 u = u w1 = w1 w2 = w2 p = p q = q
  Editors = {e1, e2}
  Users = {u}
  MaxBegun <- Begun
  MaxFaults = 1
  MaxUpdates = 2
  Workers = {w1, w2}
  Branches = {p, q}
  MaxDeploys = 1
  MaxBreaks = 1
  MaxExpiries = 1
INVARIANTS TypeOK FieldsKept RowsListed UpdatesCounted AccountShared
PROPERTIES OnlyEnabledFire
CHECK_DEADLOCK FALSE
