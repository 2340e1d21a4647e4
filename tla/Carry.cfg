SPECIFICATION Spec
CONSTANTS
  CapitalMultiplierPct = 150
  MinTrailingFunding = 0
  RebalanceBandPct = 2
  ResizeBandPct = 15
  Snapshots <- MCSnapshots
  Capital = 280
  OwnCoins = 4
  SpotLot = 2
  PerpLot = 4
  FeeBps = 500
  PaperTakerBps = 500
  PaperSlippageBps = 300
  Faults <- AnyFault
  DryRuns <- LiveOrDry
  CrashAt <- Anywhere
  MaxCrashes = 1
  MaxCycles = 3
INVARIANTS
  Reconciles
  HedgeKept
PROPERTIES
  FillNeutral
