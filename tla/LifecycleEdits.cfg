SPECIFICATION Spec
CONSTANTS
  c1 = c1  r1 = r1  r2 = r2  k1 = k1
  Sched = Sched  None = None
  Channel = {c1}
  Rec = {r1, r2}
  Checker = {}
  MaxSlots = 2
  MaxCrashes = 0
  Requests = {"delete", "edit"}
  ConvertMayFail = FALSE
  DeleteSource = TRUE
  KeepFailedSource = TRUE
SYMMETRY Recordings
INVARIANTS OneConversion OneCapture NoStray NeverRemuxLive
\* A channel deleted while start() runs stops the scheduler for good.
CHECK_DEADLOCK FALSE
