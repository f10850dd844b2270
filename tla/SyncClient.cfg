CONSTANTS
  None = None
  MaxPushes = 3
  MaxOthers = 1
  MaxDrops = 2
  MaxRefusals = 1
  MaxFaults = 2
SPECIFICATION FairSpec
CHECK_DEADLOCK FALSE
INVARIANT EveryPushIsKept
INVARIANT WaitedInOrder
INVARIANT NothingIsSkipped
PROPERTY KeepsItsPromises
PROPERTY EveryPushSettles
