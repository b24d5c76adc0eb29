SPECIFICATION Spec
CONSTANTS
  x = x y = y a = a b = b
  Blank = Blank
  Drafts <- Typing
  Templates <- Two
  Ids = {x, y}
  Contents = {a, b}
  McpTemplates = {y}
  MaxVersions = 3
  MaxSends = 2
  LeftPages <- Returned
  MaxReopens = 1
INVARIANTS TypeOK ShowsOwnWrites LastWriteWins  PanelsTell BatchesAccounted
CHECK_DEADLOCK FALSE
