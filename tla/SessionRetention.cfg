SPECIFICATION FairSpec
CONSTANTS
  Session = {s1, s2}
  Checker = {}
  Sched = sched
  None = None
  MaxCrashes = 1
  Deletes = FALSE
PROPERTIES
  HandlersEnd
  SessionsForgotten
CHECK_DEADLOCK FALSE
