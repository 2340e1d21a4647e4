SPECIFICATION Spec
CONSTANTS
  Unit          = 23328
  Bars          <- MCBars
  Yaml          <- MCYaml
  Configs       <- MCConfigs
  Given         <- MCGiven
  Limit         = 6
  Margin        = 0
  DefaultPeriod = 2
  MaxBars       = 7
  Mid           = 20
  Redone        = {7}
  Reviewed      = {6, 7}
  Studies       <- MCStudies
  MinAdx        = 20
  MinFlow       = 5
  MinVolume     = 120
  RankWindow    = 2
  MinTrades     = 1
  MinRegimeTrades = 2
INVARIANTS
  StopTrails
  SeenAlike
  FairlyJudged
  UpsideDown
PROPERTY NothingLooksAhead
CHECK_DEADLOCK FALSE
