SPECIFICATION ConfigSpec
CONSTANTS
  Values = {v1, v2}
  Broken = broken
  Unread = unread
  Current = current
  Core = core
  MaxEdits = 3
  MaxJobs = 2
INVARIANT ApiIsCurrent
CHECK_DEADLOCK FALSE
