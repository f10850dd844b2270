CONSTANTS
  k1 = k1
  k2 = k2
  None = None
  Kition = {k1, k2}
  Placement <- OneDeviceOrTwo
  Heartbeat = 2
  StaleAfter = 3
  Skew = 1
  MaxFaults = 2
SPECIFICATION FairSpec
CHECK_DEADLOCK FALSE
INVARIANT OverlapShort
PROPERTY SettlesOnOneWriter
