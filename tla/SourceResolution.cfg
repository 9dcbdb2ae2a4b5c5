SPECIFICATION Spec
CONSTANTS
  MaxAttempts = 3
  InitialDelay = 1
  Multiplier = 2
  MaxDelay = 3
  Url = {u1, u2}
  LastWords <- ThreePhrases
  None = None
INVARIANTS
  TypeOK
  RetryBudget
  ProbeVerdict
PROPERTIES
  DeadSourceRetried
