SPECIFICATION Spec
CONSTANTS
  MaxReports = 2
  MaxCancels = 1
  MaxFaults = 2
  MaxAttempts = 3
PROPERTIES
  SubscribedIsTold
  BlindPagesPoll
CHECK_DEADLOCK FALSE
