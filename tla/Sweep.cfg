SPECIFICATION Spec
CONSTANTS
  Day = 4
  Skip = 2
  MinTrades = 4
  MinReturn = 0
  MinHoldoutTrades = 2
  NoTrial = notrial
  NoOutcome = nooutcome
  Requests <- MCRequests
  Outcomes <- MCOutcomes
INVARIANTS
  SegmentsApart
  ChoiceIsEarned
  EndedIsQuiet
CHECK_DEADLOCK FALSE
