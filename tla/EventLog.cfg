SPECIFICATION Spec
CONSTANTS
  Channel = {c1, c2}
  Session = {s1, s2}
  None = None
  Excuse <- OneExcuse
  Failure <- TwoFailures
  Earlier <- OneFailure
  Window = 0
  Recent = 1
  LogAge = 0
  ErrorAge = 1
  SessionAge = 0
  Feed = 3
  Shown = 1
  MaxTime = 2
  MaxEvents = 5
INVARIANTS
  TypeOK
  SuppressedShown
  RepeatsNeedARace
  LogsAgree
  NoFalseAlarm
  ActiveListed
SYMMETRY Symmetric
CHECK_DEADLOCK FALSE
