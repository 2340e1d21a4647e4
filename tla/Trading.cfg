SPECIFICATION Spec
CONSTANTS
  Symbols <- MCSymbols
  InitialCash = 1000
  MaxOpenPositions = 2
  MaxExposurePct = 100
  MaxBarsInTrade = 2
  RiskPctPerTrade = 4
  ExposurePctPerTrade = 0
  SlippageBps = 1000
  FeeBps = 500
  Bars <- MCBars
  Markets <- MCMarkets
  FillModels <- AnyFill
  StopDistance = 2
  TargetDistance = 4
  MaxDailyDrawdownPct = 10
  MaxSignalsPerDay = 2
  MaxConsecutiveLosses = 2
  BarsPerDay = 2
  MaxCycles = 4
INVARIANTS
  BooksAgree
  OneSided
  CashLedger
  NoOverstay
  AuditTrail
PROPERTIES
  LockoutIsPermanent
  FillsNextBar
