CONSTANTS
  p1 = p1
  p2 = p2
  None = None
  Person = {p1, p2}
  Run <- Runs3
  MaxSeq = 2
  MaxJoins = 3
  MaxRuns = 2
  MaxFaults = 1
SPECIFICATION FairSpec
CHECK_DEADLOCK FALSE
INVARIANT SavedIsHeld
INVARIANT SaverIsThere
INVARIANT EmptyRoomTellsItsState
INVARIANT AloneTheRoomHears
PROPERTY EverythingIsSaved
