SPECIFICATION Spec
CONSTANTS
  Clients     = {c1, c2}
  Listed      = 2
  Page        = 2
  Limit       = 1
  MaxNow      = 4
  MaxRequests = 3
SYMMETRY Symmetry
INVARIANTS
  OnlyTheNewestIsUnfinished
  BacktestHasItsBars
  LiveSeesTheNewestClosed
CHECK_DEADLOCK FALSE
