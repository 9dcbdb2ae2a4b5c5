SPECIFICATION FairSpec
CONSTANTS
  Session = {s1, s2}
  Checker = {k1}
  Sched = sched
  None = None
  MaxCrashes = 0
  Deletes = TRUE
INVARIANTS
  TypeOK
  PidMeansCapture
  HeldRowPresent
PROPERTIES
  ImplementsSessionLife
CHECK_DEADLOCK FALSE
