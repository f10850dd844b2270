CONSTANTS
  None = None
  MaxPushes = 2
  MaxOthers = 1
  MaxDrops = 1
  MaxRefusals = 1
  MaxFaults = 1
  MaxEdits = 2
  MaxCrashes = 1
  MaxBlocked = 1
SPECIFICATION RelaySpec
CHECK_DEADLOCK FALSE
INVARIANT SeenIsHeld
INVARIANT JoinsForWhatItLacks
INVARIANT SentIsInRoom
INVARIANT SentIsCarried
INVARIANT AtRestTheyAgree
