CONSTANTS
  p1 = p1
  p2 = p2
  None = None
  Person = {p1, p2}
  MaxCalls = 2
  MaxOpens = 2
  MaxSessions = 2
SPECIFICATION FairSpec
CHECK_DEADLOCK FALSE
INVARIANT HeldIsGranted
INVARIANT OwnLeaseIsMine
PROPERTY ClosedHoldsNothing
