SPECIFICATION FairSpec
CONSTANTS
  c1 = c1  r1 = r1  r2 = r2  k1 = k1
  Sched = Sched  None = None
  Channel = {c1}
  Rec = {r1, r2}
  Checker = {k1}
  MaxSlots = 1
  MaxCrashes = 0
  Requests = {"check", "pause"}
  ConvertMayFail = FALSE
  DeleteSource = TRUE
  KeepFailedSource = FALSE
CONSTRAINT LaunchOrder
INVARIANTS TypeOK SlotsConserved
PROPERTIES StopCompletes FootageArchived StrandedRecovers
