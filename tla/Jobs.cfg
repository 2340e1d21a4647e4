SPECIFICATION Spec
CONSTANTS
  j1 = j1
  j2 = j2
  w1 = w1
  w2 = w2
  NoJob = none
  Jobs <- MCJobs
  Workers <- MCWorkers
  Settings <- MCSettings
INVARIANTS
  OneTicket
  OneActiveJob
PROPERTIES
  BoardSpec
  Finishes
