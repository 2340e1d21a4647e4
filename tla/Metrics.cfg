\* Four bars over three days and two months; two positions at a time.
SPECIFICATION Spec
CONSTANTS
  Bars     <- MCBars
  Orders   <- MCOrders
  Stages   = {"risk"}
  InitialCapital   = 200
  FeePct           = 10
  MaxOpenPositions = 2
  FirstBar = 1
  LastBar  = 4
  BarsPerDay   = 2
  DaysPerMonth = 2
  MaxPoints    = 2
INVARIANTS
  CurveIsTheAccount
  EveryTradeCounts
CHECK_DEADLOCK FALSE
