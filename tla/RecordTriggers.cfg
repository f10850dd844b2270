CONSTANTS
  None = None
  Record = {1}
  Report = {1, 2}
  BusSize = 1
  MaxFailures = 1
  MaxCrashes = 1
SPECIFICATION FairSpec
CHECK_DEADLOCK FALSE
INVARIANT FiresOnce
INVARIANT NothingSlips
INVARIANT InTurnToldOnce
PROPERTY FillsAreServed
