SPECIFICATION ReplaySpec
CONSTANTS
  Params    <- MCParams
  Engines   <- MCEngines
  Panels    <- MCPanels
  Contexts  <- MCContexts
  Readings  <- MCReadings
  Snapshots <- MCSnapshots
  Breaks    = {6, 7, 8}
INVARIANTS
  SidesAlike
  HeadsDecide
  Bracketed
  LogIsFaithful
