CONSTANTS
  None = None
  Record = {1}
  MaxMinute = 2
  MaxDay = 2
  MaxFailures = 1
  MaxCrashes = 1
SPECIFICATION Spec
CHECK_DEADLOCK FALSE
INVARIANT DateFiresOnce
