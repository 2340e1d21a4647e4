SPECIFICATION Spec
CONSTANTS
  a = a
  b = b
  hourly = hourly
  daily = daily
  None = None
  Callers = {a, b}
  Jobs = {hourly, daily}
  JobLists <- BothOrNone
  DefaultJobs <- OneDefault
  Experiments <- NoExperiment
  MaxSessions = 2
  MayFail = TRUE
INVARIANTS
  CyclesApart
  SessionIsWhole
PROPERTIES
  CallsReturn
