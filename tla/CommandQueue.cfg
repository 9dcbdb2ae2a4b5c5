SPECIFICATION FairSpec
CONSTANTS
  c1 = c1  None = None  Any = Any
  Channel = {c1}
  BatchLimit = 2
  MaxCommands = 4
  MaxFailures = 1
INVARIANTS InOrder IntentKept
PROPERTIES InSubmissionOrder EveryCommandServed
\* With the table full (a bound) the API has nothing left to do.
CHECK_DEADLOCK FALSE
